---------------------------- MODULE DmaTransfer -----------------------------
(***************************************************************************)
(* The data path of dma_logic.v: the requester (DmaRqLogic) and the        *)
(* completion logic (DmaRcLogic) on one clock, with the two things that    *)
(* surround them as environment:                                           *)
(*                                                                         *)
(*  - the engine manager, seen through the ports it drives.  The contract  *)
(*    is that the ports hold still while an operation runs, that           *)
(*    ENGINE_VALID rises only once the registers derived from the ports    *)
(*    have settled, and that it falls when the operation ends.  DmaLogic   *)
(*    composes the real manager and checks that contract.                  *)
(*                                                                         *)
(*  - the PCIe core and the host memory behind it (external): RQ beats are *)
(*    accepted when TREADY is high, a read request is answered by one or   *)
(*    more completion TLPs, in order for one tag and in any order between  *)
(*    tags, with idle cycles anywhere, and without straddling.             *)
(***************************************************************************)
EXTENDS DmaRqLogic, DmaRcLogic

CONSTANTS
  Operations,       \* what software may ask for: a subset of OperationType
  Windows,          \* window sizes software may set
  WindowMayGrow,    \* may the window be enlarged without a reset?
  IdleTags,         \* what TDATA shows as tag while RC TVALID is low
  Splits,           \* payload sizes of a completion that is not the last
  Pushes,           \* 128-bit words the c2s FIFO may offer in a cycle
  Resets,           \* does user_reset_r occur?
  ResetMidFlight    \* may it occur while completions are still due?

OperationType == [c2s : BOOLEAN, s2c : BOOLEAN, SIZE : Nat, TLPS : Nat]

ASSUME TransferAssumption ==
  /\ Operations \subseteq OperationType
  /\ Windows \subseteq 1 .. C_WINDOW_SIZE
  /\ WindowMayGrow \in BOOLEAN
  /\ IdleTags \subseteq Tags
  /\ Splits \subseteq Nat \ {0}
  /\ Pushes \subseteq 0 .. 2
  /\ Resets \in BOOLEAN
  /\ ResetMidFlight \in BOOLEAN
  /\ MaxPayload < CountLimit /\ MaxReadRequest < CountLimit

VARIABLES
  ports,       \* the ports of the manager
  due,         \* per tag: words requested and not yet put on the RC stream
  rcTlp,       \* the completion TLP on the RC stream: its tag, words to come
  rqLeft,      \* words still to come of the write TLP on the RQ stream
  issued       \* what the running operation has put on RQ so far

envVars == <<ports, due, rcTlp, rqLeft, issued>>
vars == <<rqVars, rcVars, envVars>>

NothingIssued == [dwords |-> 0, wr |-> 0, rd |-> 0, answers |-> 0]

ResetPorts == [ENGINE_VALID |-> FALSE, c2s |-> FALSE, s2c |-> TRUE,
               SIZE |-> 0, TLPS |-> 0, WINDOW |-> C_WINDOW_SIZE]

Init ==
  /\ RqInit
  /\ RcInit
  /\ ports = ResetPorts
  /\ due = [j \in Tags |-> 0]
  /\ rcTlp = [tag |-> 0, left |-> 0]
  /\ rqLeft = 0
  /\ issued = NothingIssued

-----------------------------------------------------------------------------
(* The engine manager as the data path sees it.                            *)

(* Everything derived from the ports has its final value.                  *)
Settled ==
  /\ window_size_r = ports.WINDOW
  /\ window_size_mask_r = ports.WINDOW
  /\ boundaries = BoundariesOf(ports)
  /\ {j \in Tags \ {0} : j >= ports.WINDOW} \subseteq current_tags_r

PortsHold == ports' = ports /\ ~(ports.ENGINE_VALID /\ end_of_operation)

(* Software writes the engine registers while the engine is disabled.      *)
PortsConfigure ==
  /\ ~ports.ENGINE_VALID
  /\ wr_state = "IDLE"
  /\ \E op \in Operations, w \in Windows :
       /\ w <= ports.WINDOW \/ WindowMayGrow
       /\ ports' = [ENGINE_VALID |-> FALSE, c2s |-> op.c2s, s2c |-> op.s2c,
                    SIZE |-> op.SIZE, TLPS |-> op.TLPS, WINDOW |-> w]

PortsRaise ==
  /\ ~ports.ENGINE_VALID
  /\ wr_state = "IDLE"
  /\ ~end_of_operation
  /\ ports.SIZE # 0
  /\ Settled
  /\ ports' = [ports EXCEPT !.ENGINE_VALID = TRUE]

PortsDrop ==
  /\ ports.ENGINE_VALID
  /\ end_of_operation
  /\ ports' = [ports EXCEPT !.ENGINE_VALID = FALSE]

ManagerEdge == PortsHold \/ PortsConfigure \/ PortsRaise \/ PortsDrop

-----------------------------------------------------------------------------
(* The PCIe core and the host (external).                                  *)

IdleBeats == [tvalid : {FALSE}, tlast : {FALSE}, tag : IdleTags, dwords : {0},
              keep : {0}]

(* A new completion for a tag with words due: all of them, or a part.      *)
FirstBeat(j, n) == [tvalid |-> TRUE, tlast |-> n <= 5, tag |-> j, dwords |-> n,
                    keep |-> 3 + MinOf(n, 5)]

FirstBeats ==
  UNION {{FirstBeat(j, n) : n \in {m \in Splits \cup {due[j]} : 0 < m /\ m <= due[j]}}
           : j \in Tags}

(* A further beat of the TLP under way.  It holds payload where a first    *)
(* beat has its header, which matters only if a reset made is_rc_sop_r     *)
(* forget that a TLP is under way.                                         *)
NextBeats ==
  [tvalid : {TRUE}, tlast : {rcTlp.left <= 8},
   tag : IF is_rc_sop_r THEN Tags ELSE {rcTlp.tag},
   dwords : IF is_rc_sop_r THEN {0} \cup Splits ELSE {0},
   keep : {MinOf(rcTlp.left, 8)}]

Beats == IdleBeats \cup (IF rcTlp.left > 0 THEN NextBeats ELSE FirstBeats)

(* What the RC stream takes from the words due.                            *)
RcStreamEdge(beat) ==
  rcTlp' = IF ~beat.tvalid THEN rcTlp
           ELSE IF rcTlp.left > 0
                THEN [rcTlp EXCEPT !.left = IF beat.tlast THEN 0 ELSE @ - 8]
                ELSE [tag |-> beat.tag,
                      left |-> IF beat.tlast THEN 0 ELSE beat.dwords - 5]

AcceptedRead(j, tready) ==
  tready /\ axis_rq.tvalid /\ axis_rq.kind = "rd" /\ axis_rq.tag = j

DueEdge(tready, beat) ==
  due' = [j \in Tags |->
            due[j] + (IF AcceptedRead(j, tready) THEN axis_rq.words ELSE 0)
                   - (IF beat.tvalid /\ rcTlp.left = 0 /\ beat.tag = j
                      THEN beat.dwords ELSE 0)]

(* The words that follow of the write TLP on the RQ stream, once the beat  *)
(* in the RQ registers has been taken.                                     *)
WordsToCome ==
  IF ~axis_rq.tvalid THEN rqLeft
  ELSE CASE axis_rq.kind = "wr" -> axis_rq.words - (axis_rq.keep - 4)
         [] axis_rq.kind = "data" -> rqLeft - axis_rq.keep
         [] OTHER -> rqLeft

(* The write TLP that the RQ stream is in the middle of.                   *)
RqStreamEdge(tready) == rqLeft' = IF tready THEN WordsToCome ELSE rqLeft

(* History: what this operation has issued, and the completion TLPs that   *)
(* have started to arrive for it; forgotten once it is published.          *)
IssuedEdge(tready, beat) ==
  issued' =
    IF wr_state = "IDLE" THEN IF update_latency_r THEN NothingIssued ELSE issued
    ELSE LET new == tready /\ axis_rq'.tvalid
         IN [dwords |-> issued.dwords + (IF new THEN axis_rq'.keep ELSE 0),
             wr |-> issued.wr + (IF new /\ axis_rq'.kind = "wr" THEN axis_rq'.words ELSE 0),
             rd |-> issued.rd + (IF new /\ axis_rq'.kind = "rd" THEN axis_rq'.words ELSE 0),
             answers |-> issued.answers + (IF beat.tvalid /\ rcTlp.left = 0 THEN 1 ELSE 0)]

-----------------------------------------------------------------------------
(* One rising edge of the clock.                                           *)
ClockEdge(tready, beat, push) ==
  /\ RqEdge(tready, completed_tags_r, ports, push, beat.keep)
  /\ RcEdge(beat, current_tags_r, size_tags_r)
  /\ ManagerEdge
  /\ RcStreamEdge(beat)
  /\ DueEdge(tready, beat)
  /\ RqStreamEdge(tready)
  /\ IssuedEdge(tready, beat)

(* No read request is waiting, on the way, or being answered.              *)
Quiescent ==
  /\ ~axis_rq.tvalid
  /\ rcTlp.left = 0
  /\ \A j \in Tags : due[j] = 0

(* user_reset_r: every register of the design returns to its reset value.  *)
(* The host knows nothing of it.                                           *)
UserReset ==
  /\ Resets
  /\ Quiescent \/ ResetMidFlight
  /\ RqReset /\ RcReset
  /\ ports' = ResetPorts
  /\ rqLeft' = 0
  /\ issued' = NothingIssued
  /\ UNCHANGED <<due, rcTlp>>

Next ==
  \/ \E tready \in BOOLEAN, beat \in Beats, push \in Pushes :
       ClockEdge(tready, beat, push)
  \/ UserReset

Spec == Init /\ [][Next]_vars

(* The PCIe core takes a beat again and again, the host answers what it    *)
(* was asked, and the c2s FIFO keeps offering data.  The clock itself runs *)
(* for ever, so every step of the design is covered by these.              *)
ReadyEdge == \E beat \in Beats, push \in Pushes : ClockEdge(TRUE, beat, push)

AnswerEdge == \E tready \in BOOLEAN, beat \in Beats, push \in Pushes :
                beat.tvalid /\ ClockEdge(tready, beat, push)

DataEdge == \E tready \in BOOLEAN, beat \in Beats, push \in Pushes :
              push > 0 /\ ClockEdge(tready, beat, push)

FairSpec == Spec /\ WF_vars(ReadyEdge) /\ WF_vars(AnswerEdge) /\ WF_vars(DataEdge)

-----------------------------------------------------------------------------
(* Properties.                                                             *)

EnvTypeOK ==
  /\ ports \in Ports
  /\ due \in [Tags -> Nat]
  /\ rcTlp \in [tag : Tags, left : Nat]
  /\ rqLeft \in Int
  /\ issued \in [dwords : Nat, wr : Nat, rd : Nat, answers : Nat]

(* Every register and every piece of the environment has its type; in      *)
(* particular the tag vectors and the counters of both Verilog modules.    *)
TypeOK == RqTypeOK /\ RcTypeOK /\ EnvTypeOK

(* A read request for tag j sits in the RQ registers.                      *)
Pending(j) == axis_rq.tvalid /\ axis_rq.kind = "rd" /\ axis_rq.tag = j

(* A completion of tag j is on the RC stream.                              *)
Arriving(j) == rcTlp.left > 0 /\ rcTlp.tag = j

(* The host still owes words of tag j, or has not seen its request yet.    *)
Outstanding(j) == Pending(j) \/ due[j] > 0 \/ Arriving(j)

(* COMPLETED_TAGS reports a tag only when its last word has arrived, with  *)
(* any split into completions and any interleaving with other tags         *)
(* (dma_rc_logic, difference_r and is_tag_count_exceeded_r one cycle late).*)
CompletedMeansAllReceived == \A j \in completed_tags_r : ~Outstanding(j)

(* A tag whose words are outstanding is marked busy, so it is not used for *)
(* another request (current_tags_r against the host's view).               *)
OutstandingIsBusy == \A j \in Tags : Outstanding(j) => j \in current_tags_r

(* The words counted for a tag and the words the host still owes add up to *)
(* the size of the request, or the tag is between two requests.            *)
WordsConserved ==
  \A j \in Tags : due[j] > 0 => word_count_tag_r[j] + due[j] = size_tags_r[j]

(* A read operation ends only when all its completions have arrived:       *)
(* WAIT_READ really waits "for all the TLPs of a memory read request".     *)
EndOfReadMeansAllReceived == EndOfRead => \A j \in Tags : ~Outstanding(j)

(* At most WINDOW requests are in flight, the one in the RQ registers      *)
(* included: the window set by software bounds the load on the host.       *)
WindowRespected == \A j \in Tags : Outstanding(j) => j < ports.WINDOW

(* The write TLPs on the RQ stream are well formed: the beats after a      *)
(* header bring exactly the words the header announces, TLAST marks the    *)
(* last of them, and no other TLP starts in between.                       *)
WriteTlpWellFormed ==
  axis_rq.tvalid =>
    CASE axis_rq.kind = "wr" ->
           /\ rqLeft = 0
           /\ axis_rq.words >= axis_rq.keep - 4
           /\ axis_rq.tlast <=> axis_rq.words = axis_rq.keep - 4
      [] axis_rq.kind = "data" ->
           /\ axis_rq.keep \in 1 .. rqLeft
           /\ axis_rq.tlast <=> axis_rq.keep = rqLeft
      [] OTHER -> rqLeft = 0

(* The circular c2s buffer (c2s_buffer[0:15]) neither overflows nor        *)
(* underflows: a FIFO beat of two words is accepted only when both fit,    *)
(* whatever RQ has taken meanwhile, and the state machine takes no word    *)
(* that is not there.                                                      *)
C2sBufferBounded == c2s_buf_occupancy \in 0 .. C2sBufferSize

(* The words a benchmark counts for an operation of n TLPs over a buffer   *)
(* of size words: whole passes, and full TLPs for the rest                 *)
(* (total_bytes in benchmark.c).                                           *)
BenchmarkVolume(n, size, max) ==
  (n \div NumberEven(size, max)) * size + (n % NumberEven(size, max)) * max

(* The TLPs of an operation: one for a count of zero.                      *)
TlpsOf(p) == IF p.TLPS = 0 THEN 1 ELSE p.TLPS

(* When a read operation publishes its statistics it has requested exactly *)
(* the volume the benchmark computes its bandwidth from; a TLP count of    *)
(* zero still requests one TLP.                                            *)
ReadVolumeAsCounted ==
  update_latency_r /\ ports.s2c
    => issued.rd = BenchmarkVolume(TlpsOf(ports), ports.SIZE, ReadMax(ports))

(* The same for a write operation (D2H), which looks at the TLP count only *)
(* at the end of a pass over the buffer.                                   *)
WriteVolumeAsCounted ==
  update_latency_r /\ ~ports.s2c
    => issued.wr = BenchmarkVolume(ports.TLPS, ports.SIZE, MaxPayload)

(* The published statistics describe the whole operation: every word put   *)
(* on RQ, and every word that came back with its completion headers.       *)
ReadStatisticsComplete ==
  update_latency_r /\ ~ports.c2s
    => /\ bytes_req_r = issued.dwords
       /\ bytes_comp_r = issued.rd + 3 * issued.answers

(* The measured time covers the wait: both counters run in every cycle in  *)
(* which a requested word is missing, current_latency_r in every operation *)
(* and time_comp_r, which the latency test prints, in those that send one  *)
(* request or stop before the end of the first pass.                       *)
WaitIsMeasured ==
  (\E j \in Tags : Outstanding(j)) =>
    /\ current_latency_counts
    /\ ports.TLPS <= 1 \/ ports.TLPS < boundaries.rd_even => time_comp_counts(ports)

(* A write operation ends without waiting for TREADY: the published words   *)
(* are those on RQ but for the beat that still waits in the RQ registers.  *)
WriteStatisticsLackOneBeat ==
  update_latency_r /\ ~ports.s2c
    => bytes_req_r + (IF axis_rq.tvalid THEN axis_rq.keep ELSE 0) = issued.dwords

(* An operation that has started comes to its end, whatever the order of   *)
(* completions and the back pressure: the engine does not hang.            *)
OperationEnds == ports.ENGINE_VALID ~> ~ports.ENGINE_VALID

-----------------------------------------------------------------------------
(* The inductive invariant behind the five properties of the read path.    *)

(* While an operation is presented, the registers derived from the ports   *)
(* have settled; reads are issued only by operations that read.            *)
FsmInv ==
  /\ wr_state # "IDLE" => ports.ENGINE_VALID
  /\ ports.ENGINE_VALID => /\ window_size_r = ports.WINDOW
                           /\ window_size_mask_r = ports.WINDOW
                           /\ boundaries.rd_odd > 0 /\ boundaries.rd_odd < CountLimit
  /\ wr_state \in {"INIT_READ", "WAIT_READ"} => ports.s2c
  /\ ports.WINDOW \in 1 .. C_WINDOW_SIZE

(* The completion logic is in step with the RC stream, and the tag it      *)
(* remembers is 0 or one that has been used for a request.                 *)
StreamInv ==
  /\ is_rc_sop_r <=> rcTlp.left = 0
  /\ ~is_rc_sop_r => tlp_tag_r = rcTlp.tag
  /\ tlp_tag_r = 0 \/ size_tags_r[tlp_tag_r] > 0

(* Tag 0 is the first to be used after a reset.                            *)
FirstUseInv ==
  /\ 0 \in current_tags_r => size_tags_r[0] > 0
  /\ size_tags_r[0] = 0 => \A k \in Tags : ~Outstanding(k)

(* The life of tag j: between requests its counter is zero; a request in   *)
(* the RQ registers has its size recorded; words due are what the counter  *)
(* lacks; a last TLP on its way has raised is_tag_count_exceeded_r, which  *)
(* is otherwise low but for the stale value of a first use.                *)
TagInv(j) ==
  /\ size_tags_r[j] < CountLimit
  /\ Outstanding(j) =>
       /\ j \in current_tags_r /\ j \notin completed_tags_r
       /\ size_tags_r[j] > 0
       /\ wr_state # "IDLE" /\ ports.s2c /\ j < ports.WINDOW
  /\ ~Outstanding(j) /\ j \notin completed_tags_r => word_count_tag_r[j] = 0
  /\ Pending(j) =>
       /\ due[j] = 0 /\ ~Arriving(j)
       /\ word_count_tag_r[j] = 0
       /\ axis_rq.words = size_tags_r[j]
       /\ j \in is_tag_count_exceeded_r =>
            \/ tlp_tag_r # j
            \/ rcTlp.left = 0 /\ \A k \in Tags : due[k] = 0
  /\ due[j] > 0 =>
       /\ word_count_tag_r[j] + due[j] = size_tags_r[j]
       /\ difference_r[j] = due[j]
       /\ j \notin is_tag_count_exceeded_r
  /\ due[j] = 0 /\ Arriving(j) =>
       /\ word_count_tag_r[j] = size_tags_r[j]
       /\ j \in is_tag_count_exceeded_r

(* Together they are preserved by every clock edge, and imply that a tag   *)
(* is never reported, released or left behind too early.                   *)
ReadInv == FsmInv /\ StreamInv /\ FirstUseInv /\ \A j \in Tags : TagInv(j)

-----------------------------------------------------------------------------
(* The inductive invariants behind the properties of the write path, of    *)
(* the published statistics and of the volume read.                        *)

(* The operation that is presented is not empty, and its TLP boundaries    *)
(* are those of its size.                                                  *)
PresentedInv ==
  /\ ports.ENGINE_VALID => ports.SIZE # 0 /\ boundaries = BoundariesOf(ports)
  /\ wr_state \in {"INIT_WRITE", "WRITE"} => ports.c2s
  /\ EndOfWrite => ports.ENGINE_VALID /\ ~ports.s2c

(* The words that follow on RQ are those mem_wr_remaining_words_r counts   *)
(* down; before a header it holds what the header is to announce, which    *)
(* the code computes from the number of the TLP within its pass.           *)
WriteInv ==
  /\ WriteTlpWellFormed
  /\ WordsToCome = IF wr_state = "WRITE" THEN mem_wr_remaining_words_r ELSE 0
  /\ wr_state = "WRITE" => mem_wr_remaining_words_r > 0
  /\ wr_state # "IDLE" => mem_wr_current_tlp_modulus_r \in 1 .. boundaries.wr_even
  /\ wr_state \in {"INIT_WRITE", "INIT_READ"}
       => mem_wr_remaining_words_r = current_wr_tlp_words_s

(* The words of the beat that waits in the RQ registers.                   *)
WaitingBeat == IF axis_rq.tvalid THEN axis_rq.keep ELSE 0

(* The statistics run from the first beat of an operation until it has     *)
(* ended, and lack the beat in the RQ registers; when they stand still,    *)
(* and are not being published, nothing has been issued.                   *)
StatisticsInv ==
  /\ ~stop_latency \/ update_latency_r => bytes_req_r + WaitingBeat = issued.dwords
  /\ stop_latency /\ ~update_latency_r => issued.dwords = 0 /\ issued.rd = 0
  /\ stop_latency /\ wr_state # "IDLE" => ~axis_rq.tvalid
  /\ stop_latency => wr_state \in {"IDLE", "INIT_WRITE", "INIT_READ"} /\ ~EndOfWrite
  /\ wr_state = "IDLE" /\ ~EndOfWrite => stop_latency
  /\ update_latency_r => stop_latency /\ wr_state = "IDLE" /\ end_of_operation_r

(* The number of a request within its pass follows from its number in the  *)
(* operation, and the words requested so far are the volume of the         *)
(* requests so far; the last request is the one the TLP count names.       *)
VolumeInv ==
  /\ wr_state # "IDLE" =>
       /\ mem_rd_current_tlp_r >= 1
       /\ mem_rd_current_tlp_modulus_r =
            ((mem_rd_current_tlp_r - 1) % boundaries.rd_even) + 1
       /\ issued.rd = BenchmarkVolume(mem_rd_current_tlp_r - 1, ports.SIZE, ReadMax(ports))
       /\ IF wr_state = "WAIT_READ"
          THEN mem_rd_current_tlp_r = TlpsOf(ports) + 1
          ELSE mem_rd_current_tlp_r <= TlpsOf(ports)
  /\ ReadVolumeAsCounted

=============================================================================
