----------------------------- MODULE DmaRqLogic -----------------------------
(***************************************************************************)
(* dma_rq_logic.v: the requester.  It turns the active descriptor into     *)
(* memory write and memory read request TLPs on the RQ stream and keeps    *)
(* one "busy" bit and one expected size per read tag.                      *)
(*                                                                         *)
(* The variables are the registers of the Verilog module.  RqEdge is one   *)
(* rising edge of CLK: one disjunct per behaviour of the state machine,    *)
(* and in each of them every register gets its next value.  All sizes are  *)
(* in 32-bit words.  The parameters are input ports:                       *)
(*   tready     M_AXIS_RQ_TREADY                                           *)
(*   completed  COMPLETED_TAGS, from DmaRcLogic                            *)
(*   p          the ports driven by the engine manager (see Ports)         *)
(*   push       the 128-bit words the c2s FIFO offers in this cycle        *)
(*   rckeep     the words of the RC beat of this cycle, 0 if none          *)
(*                                                                         *)
(* A set of tags stands for a bit vector, a number n for the mask of the   *)
(* n lowest bits.  The contents of the RQ registers while TVALID is low    *)
(* are not observable and are normalised to NoBeat.                        *)
(***************************************************************************)
EXTENDS DmaTags

CONSTANTS
  MaxPayload,           \* max_words_tlp_s (64)
  MaxReadRequest,       \* max_words_read_request_s (128)
  C2sBufferSize,        \* words of 128 bits of the c2s buffer (16)
  C2sReadyLevel         \* it accepts data up to this level (12)

ASSUME RqAssumption ==
  /\ MaxPayload \in Nat \ {0}
  /\ MaxReadRequest \in Nat \ {0}
  /\ C2sBufferSize \in Nat
  /\ C2sReadyLevel \in 0 .. C2sBufferSize - 2

VARIABLES
  wr_state, wr_state_pipe_r,
  end_of_operation_r,
  boundaries,                      \* mem_*_total_tlp_r, number_even, odd words
  mem_wr_current_tlp_r, mem_wr_current_tlp_modulus_r,
  mem_rd_current_tlp_r, mem_rd_current_tlp_modulus_r,
  mem_wr_remaining_words_r, mem_rd_remaining_words_r,
  window_size_r, window_size_mask_r,
  current_tags_r, size_tags_r,
  axis_rq,                         \* the RQ output registers
  c2s_buf_occupancy,
  stop_latency, update_latency_r, bytes_req_r, bytes_comp_r,
  latency_tags_r                   \* tags that keep time_comp_r running

rqVars == <<wr_state, wr_state_pipe_r, end_of_operation_r, boundaries,
  mem_wr_current_tlp_r, mem_wr_current_tlp_modulus_r,
  mem_rd_current_tlp_r, mem_rd_current_tlp_modulus_r,
  mem_wr_remaining_words_r, mem_rd_remaining_words_r,
  window_size_r, window_size_mask_r, current_tags_r, size_tags_r, axis_rq,
  c2s_buf_occupancy, stop_latency, update_latency_r, bytes_req_r,
  bytes_comp_r, latency_tags_r>>

RqStates == {"IDLE", "INIT_WRITE", "WRITE", "INIT_READ", "WAIT_READ"}

(* The ports the manager drives.  c2s and s2c are capabilities_s[0], [1].  *)
Ports == [ENGINE_VALID : BOOLEAN, c2s : BOOLEAN, s2c : BOOLEAN,
          SIZE : Nat, TLPS : Nat, WINDOW : Nat]

(* One beat on the RQ stream: "rd" and "wr" carry a header (4 words), with *)
(* the word count of the TLP; "data" continues a write.  keep is the       *)
(* number of valid words of the beat, last_be whether LAST_BE is 4'hf.     *)
NoBeat == [tvalid |-> FALSE, kind |-> "none", tag |-> 0, words |-> 0,
           keep |-> 0, tlast |-> FALSE, last_be |-> FALSE]

RqBeats == [tvalid : BOOLEAN, kind : {"none", "rd", "wr", "data"},
            tag : Tags, words : Nat, keep : Nat,
            tlast : BOOLEAN, last_be : BOOLEAN]

MinOf(a, b) == IF a <= b THEN a ELSE b

-----------------------------------------------------------------------------
(* Combinational signals.                                                  *)

NumberEven(size, max) == size \div max + (IF size % max > 0 THEN 1 ELSE 0)

OddWords(size, max) == IF size % max > 0 THEN size % max ELSE max

(* The largest read TLP: reads that follow writes use the payload limit.   *)
ReadMax(p) == IF p.c2s THEN MaxPayload ELSE MaxReadRequest

BoundariesOf(p) ==
  [total   |-> p.TLPS,
   wr_even |-> NumberEven(p.SIZE, MaxPayload),
   wr_odd  |-> OddWords(p.SIZE, MaxPayload),
   rd_even |-> NumberEven(p.SIZE, ReadMax(p)),
   rd_odd  |-> OddWords(p.SIZE, ReadMax(p))]

(* The TLP being built is the last one of a pass over the buffer.          *)
LastWrOfPass == boundaries.wr_even = mem_wr_current_tlp_modulus_r
(* Mutant: the pass ends one request early.                                *)
LastRdOfPassEarly == boundaries.rd_even = mem_rd_current_tlp_modulus_r + 1

LastRdOfPass == boundaries.rd_even = mem_rd_current_tlp_modulus_r

current_wr_tlp_words_s == IF LastWrOfPass THEN boundaries.wr_odd ELSE MaxPayload

current_rd_tlp_words_s(p) ==
  IF LastRdOfPass THEN boundaries.rd_odd ELSE ReadMax(p)

last_word_at_tlp_s == mem_wr_remaining_words_r <= 4
(* Mutant: eight words left are not yet the last two.                      *)
last_two_words_strict == mem_wr_remaining_words_r < 8

last_two_words_at_tlp_s == mem_wr_remaining_words_r <= 8
one_word_at_buffer_s == c2s_buf_occupancy # 0
two_words_at_buffer_s == c2s_buf_occupancy >= 2

(* mem_wr_next_remainder_r is a 4-bit copy of mem_wr_remaining_words_r.    *)
mem_wr_next_remainder == mem_wr_remaining_words_r % 16

InMask(tags) == {j \in tags : j < window_size_mask_r}

(* (current_tags & window_size_mask) != window_size_mask                   *)
TagAvailable == InMask(Tags \ current_tags_r) # {}

(* Mutants: tags handed out round robin whether free or not, or from the   *)
(* top.                                                                    *)
firstFreeRoundRobin == mem_rd_current_tlp_r % C_WINDOW_SIZE

firstFreeFromTop ==
  IF Tags \subseteq current_tags_r THEN 0
  ELSE CHOOSE j \in Tags \ current_tags_r :
         \A k \in Tags \ current_tags_r : j >= k

firstFree ==
  IF Tags \subseteq current_tags_r THEN 0
  ELSE CHOOSE j \in Tags \ current_tags_r :
         \A k \in Tags \ current_tags_r : j <= k

(* Mutant: the tags are not waited for.                                    *)
EndOfReadAtOnce == wr_state = "WAIT_READ"

EndOfRead == wr_state = "WAIT_READ" /\ InMask(current_tags_r) = {}

EndOfWrite == wr_state = "IDLE" /\ wr_state_pipe_r \in {"INIT_WRITE", "WRITE"}

end_of_operation == EndOfRead \/ EndOfWrite

(* IDLE leaves for a new operation.                                        *)
StartCondition(tready, p) ==
  /\ tready
  /\ p.ENGINE_VALID
  /\ ~end_of_operation_r
  /\ ~end_of_operation

(* Mutants: data is taken until c2s_buf_full, or once the buffer has       *)
(* drained.                                                                *)
C2S_FIFO_TREADY_late == c2s_buf_occupancy < C2sBufferSize

C2S_FIFO_TREADY_drained == c2s_buf_occupancy = 0

C2S_FIFO_TREADY == c2s_buf_occupancy <= C2sReadyLevel

-----------------------------------------------------------------------------
RqInit ==
  /\ wr_state = "IDLE"
  /\ wr_state_pipe_r = "IDLE"
  /\ end_of_operation_r = FALSE
  /\ boundaries = [total |-> 0, wr_even |-> 0, wr_odd |-> 0,
                   rd_even |-> 0, rd_odd |-> 0]
  /\ mem_wr_current_tlp_r = 1
  /\ mem_wr_current_tlp_modulus_r = 1
  /\ mem_rd_current_tlp_r = 1
  /\ mem_rd_current_tlp_modulus_r = 1
  /\ mem_wr_remaining_words_r = 0
  /\ mem_rd_remaining_words_r = 0
  /\ window_size_r = 0
  /\ window_size_mask_r = 0
  /\ current_tags_r = {}
  /\ size_tags_r = [j \in Tags |-> 0]
  /\ axis_rq = NoBeat
  /\ c2s_buf_occupancy = 0
  /\ stop_latency = TRUE
  /\ update_latency_r = FALSE
  /\ bytes_req_r = 0
  /\ bytes_comp_r = 0
  /\ latency_tags_r = {}

(* RST_N low: the same values, from any state.                             *)
RqReset ==
  /\ wr_state' = "IDLE"
  /\ wr_state_pipe_r' = "IDLE"
  /\ end_of_operation_r' = FALSE
  /\ boundaries' = [total |-> 0, wr_even |-> 0, wr_odd |-> 0,
                   rd_even |-> 0, rd_odd |-> 0]
  /\ mem_wr_current_tlp_r' = 1
  /\ mem_wr_current_tlp_modulus_r' = 1
  /\ mem_rd_current_tlp_r' = 1
  /\ mem_rd_current_tlp_modulus_r' = 1
  /\ mem_wr_remaining_words_r' = 0
  /\ mem_rd_remaining_words_r' = 0
  /\ window_size_r' = 0
  /\ window_size_mask_r' = 0
  /\ current_tags_r' = {}
  /\ size_tags_r' = [j \in Tags |-> 0]
  /\ axis_rq' = NoBeat
  /\ c2s_buf_occupancy' = 0
  /\ stop_latency' = TRUE
  /\ update_latency_r' = FALSE
  /\ bytes_req_r' = 0
  /\ bytes_comp_r' = 0
  /\ latency_tags_r' = {}

-----------------------------------------------------------------------------
(* Registers with the same update in every state.                          *)

(* A tag is taken by the cycle that builds its request, released by        *)
(* COMPLETED_TAGS, and held busy while it lies outside the window.         *)
AllocatedTags(tready, p) ==
  {j \in Tags : /\ wr_state = "INIT_READ"
                /\ tready
                /\ j < p.WINDOW
                /\ j \notin current_tags_r
                /\ \A k \in Tags : k < j => k \in current_tags_r}

TagsEdge(tready, completed, p) ==
  /\ current_tags_r' = (current_tags_r \ completed)
                         \cup AllocatedTags(tready, p)
                         \cup {j \in Tags \ {0} : j >= p.WINDOW}
  /\ size_tags_r' = [j \in Tags |-> IF j \in AllocatedTags(tready, p)
                                    THEN current_rd_tlp_words_s(p)
                                    ELSE size_tags_r[j]]

(* stop_latency freezes the statistics; update_latency_r publishes them.   *)
(* Mutant: the statistics stop with the last request.                      *)
LatencyEdgeEarly(tready, p, rckeep) ==
  LET running == \/ wr_state = "INIT_WRITE" /\ p.c2s /\ tready
                 \/ wr_state = "INIT_READ" /\ p.s2c /\ tready
      ends == wr_state = "WAIT_READ" \/ EndOfWrite
  IN /\ stop_latency' = (~running /\ (ends \/ stop_latency))
     /\ update_latency_r' = (~running /\ end_of_operation)
     /\ bytes_req_r' = IF stop_latency THEN 0
                       ELSE bytes_req_r + (IF axis_rq.tvalid /\ tready
                                           THEN axis_rq.keep ELSE 0)
     /\ bytes_comp_r' = IF stop_latency THEN 0 ELSE bytes_comp_r + rckeep

(* Mutant: a beat is counted in every cycle it waits.                      *)
LatencyEdgeNoReady(tready, p, rckeep) ==
  LET running == \/ wr_state = "INIT_WRITE" /\ p.c2s /\ tready
                 \/ wr_state = "INIT_READ" /\ p.s2c /\ tready
  IN /\ stop_latency' = (~running /\ (end_of_operation \/ stop_latency))
     /\ update_latency_r' = (~running /\ end_of_operation)
     /\ bytes_req_r' = IF stop_latency THEN 0
                       ELSE bytes_req_r + (IF axis_rq.tvalid THEN axis_rq.keep ELSE 0)
     /\ bytes_comp_r' = IF stop_latency THEN 0 ELSE bytes_comp_r + rckeep

LatencyEdge(tready, p, rckeep) ==
  LET running == \/ wr_state = "INIT_WRITE" /\ p.c2s /\ tready
                 \/ wr_state = "INIT_READ" /\ p.s2c /\ tready
  IN /\ stop_latency' = (~running /\ (end_of_operation \/ stop_latency))
     /\ update_latency_r' = (~running /\ end_of_operation)
     /\ bytes_req_r' = IF stop_latency THEN 0
                       ELSE bytes_req_r + (IF axis_rq.tvalid /\ tready
                                           THEN axis_rq.keep ELSE 0)
     /\ bytes_comp_r' = IF stop_latency THEN 0 ELSE bytes_comp_r + rckeep

(* Mutant: tag 0 is no case of its own.                                    *)
LatencyTagsEdgeUniform(tready, completed, p) ==
  LET taken == {j \in Tags \ latency_tags_r :
                  /\ wr_state = "INIT_READ" /\ tready /\ j < p.WINDOW
                  /\ mem_rd_current_tlp_r = mem_rd_current_tlp_modulus_r
                  /\ j >= 32 /\ 0 .. j - 1 \subseteq latency_tags_r}
  IN latency_tags_r' = (latency_tags_r \ completed) \cup taken

(* The tags of the first pass, in a numbering of their own.  The lower     *)
(* tags have to be taken for the next one; the j bits of these are         *)
(* compared with -1, which has 32 bits, and are extended with zeros.       *)
LatencyTagsEdge(tready, completed, p) ==
  LET taken == {j \in Tags \ latency_tags_r :
                  /\ wr_state = "INIT_READ" /\ tready /\ j < p.WINDOW
                  /\ mem_rd_current_tlp_r = mem_rd_current_tlp_modulus_r
                  /\ j = 0 \/ (j >= 32 /\ 0 .. j - 1 \subseteq latency_tags_r)}
  IN latency_tags_r' = (latency_tags_r \ completed) \cup taken

(* current_latency_r and time_comp_r count clock edges, without a bound    *)
(* that matters; here is whether they count this one.                      *)
current_latency_counts == ~stop_latency

time_comp_counts(p) ==
  /\ ~stop_latency
  /\ IF p.s2c
     THEN mem_rd_current_tlp_r = mem_rd_current_tlp_modulus_r \/ latency_tags_r # {}
     ELSE mem_wr_current_tlp_r = mem_wr_current_tlp_modulus_r

FreeRunning(tready, completed, p, rckeep) ==
  /\ wr_state_pipe_r' = wr_state
  /\ end_of_operation_r' = (end_of_operation \/ (p.ENGINE_VALID /\ end_of_operation_r))
  /\ boundaries' = BoundariesOf(p)
  /\ window_size_r' = p.WINDOW
  /\ window_size_mask_r' = MinOf(window_size_r, C_WINDOW_SIZE)
  /\ TagsEdge(tready, completed, p)
  /\ LatencyEdge(tready, p, rckeep)
  /\ LatencyTagsEdge(tready, completed, p)

(* The c2s buffer gains what the FIFO hands over and loses what a write    *)
(* beat consumes.                                                          *)
BufferEdge(push, pop) ==
  c2s_buf_occupancy' =
    c2s_buf_occupancy + (IF C2S_FIFO_TREADY THEN push ELSE 0) - pop

wrTlpVars == <<mem_wr_current_tlp_r, mem_wr_current_tlp_modulus_r>>
rdTlpVars == <<mem_rd_current_tlp_r, mem_rd_current_tlp_modulus_r>>

-----------------------------------------------------------------------------
(* IDLE.                                                                   *)

IdleEdge(tready, p, push) ==
  /\ wr_state = "IDLE"
  /\ mem_wr_current_tlp_r' = IF tready THEN 1 ELSE mem_wr_current_tlp_r
  /\ mem_wr_current_tlp_modulus_r' = IF tready THEN 1 ELSE mem_wr_current_tlp_modulus_r
  /\ mem_rd_current_tlp_r' = IF tready THEN 1 ELSE mem_rd_current_tlp_r
  /\ mem_rd_current_tlp_modulus_r' = IF tready THEN 1 ELSE mem_rd_current_tlp_modulus_r
  /\ mem_wr_remaining_words_r' = MinOf(p.SIZE, MaxPayload)
  /\ mem_rd_remaining_words_r' =
       IF ~tready THEN mem_rd_remaining_words_r
       ELSE IF p.SIZE <= MaxReadRequest THEN p.SIZE ELSE ReadMax(p)
  /\ axis_rq' = IF tready THEN NoBeat ELSE axis_rq
  /\ BufferEdge(push, 0)

StartWrite(tready, p, push) ==
  /\ IdleEdge(tready, p, push)
  /\ StartCondition(tready, p)
  /\ p.c2s
  /\ wr_state' = "INIT_WRITE"

StartRead(tready, p, push) ==
  /\ IdleEdge(tready, p, push)
  /\ StartCondition(tready, p)
  /\ ~p.c2s /\ p.s2c
  /\ wr_state' = "INIT_READ"

StayIdle(tready, p, push) ==
  /\ IdleEdge(tready, p, push)
  /\ ~(StartCondition(tready, p) /\ (p.c2s \/ p.s2c))
  /\ wr_state' = "IDLE"

-----------------------------------------------------------------------------
(* INIT_WRITE and WRITE.  A beat carries the header and one 128-bit word   *)
(* of the c2s buffer, or two words, or the last one of the TLP.            *)

(* What the state machine does after the last beat of a write TLP.         *)
AfterWriteTlp(p) ==
  IF ~LastWrOfPass THEN "INIT_WRITE"
  ELSE IF p.s2c THEN "INIT_READ"
  ELSE IF boundaries.total <= mem_wr_current_tlp_r THEN "IDLE" ELSE "INIT_WRITE"

FinishWriteTlp(p) ==
  /\ wr_state' = AfterWriteTlp(p)
  /\ mem_wr_current_tlp_r' = mem_wr_current_tlp_r + 1
  /\ mem_wr_current_tlp_modulus_r' =
       IF LastWrOfPass THEN 1 ELSE mem_wr_current_tlp_modulus_r + 1
  /\ mem_wr_remaining_words_r' =
       IF \/ boundaries.wr_even = mem_wr_current_tlp_modulus_r + 1
          \/ boundaries.wr_even = 1
       THEN boundaries.wr_odd ELSE MaxPayload

(* The RQ stream holds its beat, or runs dry for lack of data.             *)
WriteWaits(tready, push) ==
  /\ \/ wr_state = "INIT_WRITE" /\ (tready => ~one_word_at_buffer_s)
     \/ wr_state = "WRITE" /\ (tready => ~two_words_at_buffer_s
                                           /\ ~(one_word_at_buffer_s /\ last_word_at_tlp_s))
  /\ axis_rq' = IF tready THEN NoBeat ELSE axis_rq
  /\ BufferEdge(push, 0)
  /\ UNCHANGED <<wr_state, wrTlpVars, rdTlpVars,
                 mem_wr_remaining_words_r, mem_rd_remaining_words_r>>

WriteHeader(tready, p, push) ==
  /\ wr_state = "INIT_WRITE"
  /\ tready
  /\ one_word_at_buffer_s
  /\ axis_rq' = [tvalid |-> TRUE, kind |-> "wr", tag |-> 0,
                 words |-> current_wr_tlp_words_s,
                 keep |-> IF last_word_at_tlp_s
                          THEN 4 + MinOf(mem_wr_next_remainder, 4) ELSE 8,
                 tlast |-> last_word_at_tlp_s,
                 last_be |-> mem_wr_remaining_words_r > 1]
  /\ BufferEdge(push, 1)
  /\ IF last_word_at_tlp_s
     THEN FinishWriteTlp(p)
     ELSE /\ wr_state' = "WRITE"
          /\ mem_wr_remaining_words_r' = mem_wr_remaining_words_r - 4
          /\ UNCHANGED wrTlpVars
  /\ UNCHANGED <<rdTlpVars, mem_rd_remaining_words_r>>

WriteData(tready, p, push) ==
  /\ wr_state = "WRITE"
  /\ tready
  /\ two_words_at_buffer_s
  /\ ~last_two_words_at_tlp_s
  /\ axis_rq' = [NoBeat EXCEPT !.tvalid = TRUE, !.kind = "data", !.keep = 8]
  /\ BufferEdge(push, 2)
  /\ mem_wr_remaining_words_r' = mem_wr_remaining_words_r - 8
  /\ UNCHANGED <<wr_state, wrTlpVars, rdTlpVars, mem_rd_remaining_words_r>>

WriteLastData(tready, p, push) ==
  /\ wr_state = "WRITE"
  /\ tready
  /\ \/ one_word_at_buffer_s /\ last_word_at_tlp_s
     \/ two_words_at_buffer_s /\ last_two_words_at_tlp_s
  /\ axis_rq' = [NoBeat EXCEPT !.tvalid = TRUE, !.kind = "data", !.tlast = TRUE,
                              !.keep = MinOf(mem_wr_next_remainder, 8)]
  /\ BufferEdge(push, IF last_word_at_tlp_s THEN 1 ELSE 2)
  /\ FinishWriteTlp(p)
  /\ UNCHANGED <<rdTlpVars, mem_rd_remaining_words_r>>

-----------------------------------------------------------------------------
(* INIT_READ and WAIT_READ.                                                *)

(* No request leaves: RQ is not ready, or every tag of the window is busy. *)
ReadWaits(tready, push) ==
  /\ wr_state = "INIT_READ"
  /\ tready => ~TagAvailable
  /\ axis_rq' = IF tready THEN NoBeat ELSE axis_rq
  /\ BufferEdge(push, 0)
  /\ UNCHANGED <<wr_state, wrTlpVars, rdTlpVars,
                 mem_wr_remaining_words_r, mem_rd_remaining_words_r>>

ReadRequest(tready, p, push) ==
  /\ wr_state = "INIT_READ"
  /\ tready
  /\ TagAvailable
  /\ axis_rq' = [tvalid |-> TRUE, kind |-> "rd", tag |-> firstFree,
                 words |-> current_rd_tlp_words_s(p), keep |-> 4, tlast |-> TRUE,
                 last_be |-> mem_rd_remaining_words_r > 1]
  /\ mem_rd_current_tlp_r' = mem_rd_current_tlp_r + 1
  /\ mem_rd_current_tlp_modulus_r' =
       IF LastRdOfPass THEN 1 ELSE mem_rd_current_tlp_modulus_r + 1
  /\ mem_rd_remaining_words_r' =
       IF \/ boundaries.rd_even = mem_rd_current_tlp_modulus_r + 1
          \/ boundaries.rd_even = 1
       THEN boundaries.rd_odd ELSE ReadMax(p)
  /\ wr_state' = IF boundaries.total <= mem_rd_current_tlp_r THEN "WAIT_READ"
                 ELSE IF p.c2s /\ LastRdOfPass THEN "INIT_WRITE" ELSE "INIT_READ"
  /\ BufferEdge(push, 0)
  /\ UNCHANGED <<wrTlpVars, mem_wr_remaining_words_r>>

WaitRead(tready, push) ==
  /\ wr_state = "WAIT_READ"
  /\ wr_state' = IF EndOfRead THEN "IDLE" ELSE "WAIT_READ"
  /\ axis_rq' = IF tready THEN NoBeat ELSE axis_rq
  /\ BufferEdge(push, 0)
  /\ UNCHANGED <<wrTlpVars, rdTlpVars,
                 mem_wr_remaining_words_r, mem_rd_remaining_words_r>>

-----------------------------------------------------------------------------
RqEdge(tready, completed, p, push, rckeep) ==
  /\ FreeRunning(tready, completed, p, rckeep)
  /\ \/ StartWrite(tready, p, push)
     \/ StartRead(tready, p, push)
     \/ StayIdle(tready, p, push)
     \/ WriteWaits(tready, push)
     \/ WriteHeader(tready, p, push)
     \/ WriteData(tready, p, push)
     \/ WriteLastData(tready, p, push)
     \/ ReadWaits(tready, push)
     \/ ReadRequest(tready, p, push)
     \/ WaitRead(tready, push)

BoundariesType ==
  [total : Nat, wr_even : Nat, wr_odd : Nat, rd_even : Nat, rd_odd : Nat]

RqTypeOK ==
  /\ wr_state \in RqStates
  /\ wr_state_pipe_r \in RqStates
  /\ end_of_operation_r \in BOOLEAN
  /\ boundaries \in BoundariesType
  /\ mem_wr_current_tlp_r \in Nat
  /\ mem_wr_current_tlp_modulus_r \in Nat
  /\ mem_rd_current_tlp_r \in Nat
  /\ mem_rd_current_tlp_modulus_r \in Nat
  /\ mem_wr_remaining_words_r \in Nat
  /\ mem_rd_remaining_words_r \in Nat
  /\ window_size_r \in Nat
  /\ window_size_mask_r \in Nat
  /\ current_tags_r \subseteq Tags
  /\ size_tags_r \in [Tags -> Nat]
  /\ axis_rq \in RqBeats
  /\ c2s_buf_occupancy \in Nat
  /\ stop_latency \in BOOLEAN
  /\ update_latency_r \in BOOLEAN
  /\ bytes_req_r \in Nat
  /\ bytes_comp_r \in Nat
  /\ latency_tags_r \subseteq Tags

=============================================================================
