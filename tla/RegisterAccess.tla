--------------------------- MODULE RegisterAccess ---------------------------
(***************************************************************************)
(* How the host reaches the registers of the design through BAR 0:         *)
(* pcie_completer_to_bram.sv takes a request from the completer-request    *)
(* stream, puts it on the memory interface and, for a read, waits for the  *)
(* acknowledge and sends the completion; the acknowledge pipeline and the  *)
(* read path are those of dma_engine_manager.v and of the control block of *)
(* dma_logic.v.  ClockEdge is one rising edge of the clock.                *)
(*                                                                         *)
(* Registers by the way they are read: "engine" (the registers of the      *)
(* engine, sampled with the access), "stats" (the statistics of a          *)
(* descriptor, read from a block memory), "ctrl" (the common block) and    *)
(* "below" (an offset below C_ENGINE_TABLE_OFFSET).  The values of the     *)
(* control register, of the statistics and of the common block are told    *)
(* apart; lanes, byte enables and byte counts are left out.                *)
(***************************************************************************)
EXTENDS Naturals, Sequences

CONSTANTS
  C_NUM_DESCRIPTORS,
  ControlValues,       \* what the host writes to the control register
  DoneValue,           \* the control register with enable cleared
  StatsValues,         \* what the engine stores as statistics
  CtrlValue,           \* the contents of the common block
  ReadKinds,           \* the kinds of register the host reads
  ReadAfterWrite       \* the kinds it reads right after a write

ASSUME RegisterAssumption ==
  /\ C_NUM_DESCRIPTORS \in Nat \ {0}
  /\ ControlValues \subseteq Nat /\ StatsValues \subseteq Nat
  /\ DoneValue \in Nat /\ CtrlValue \in Nat
  /\ ReadAfterWrite \subseteq ReadKinds
  /\ ReadKinds \subseteq {"engine", "stats", "ctrl", "below"}

Descriptors == 0 .. C_NUM_DESCRIPTORS - 1

VARIABLES
  state, req,                          \* pcie_completer_to_bram
  cpl_data,
  control_r, stats,                    \* the registers that are read
  ack_pipe,                            \* mem_ack_pending_pipe_1..3_r, ACK
  rdata_engine_r, is_engine_read_r,
  addra_time_r, doutb_time, rdata_descriptor_r,
  ack_ctrl_r,                          \* s_mem_iface_ack_ctrl_r
  wrote,       \* history: the host's last access was a write
  held         \* history: values of the register since its read was taken

vars == <<state, req, cpl_data, control_r, stats, ack_pipe, rdata_engine_r,
          is_engine_read_r, addra_time_r, doutb_time, rdata_descriptor_r,
          ack_ctrl_r, wrote, held>>

NoRequest == [op |-> "NO_REQ", kind |-> "none", index |-> 0, data |-> 0]

Reads ==
  [op : {"VALID_RD_REQ"}, kind : ReadKinds \ {"stats"}, index : {0}, data : {0}]
  \cup [op : {"VALID_RD_REQ"}, kind : ReadKinds \cap {"stats"}, index : Descriptors, data : {0}]

Writes ==
  [op : {"VALID_WR_REQ"}, kind : {"engine"}, index : {0}, data : ControlValues]
  \cup [op : {"VALID_WR_REQ"}, kind : {"ctrl", "below"}, index : {0}, data : {0}]

Unsupported == [NoRequest EXCEPT !.op = "UNSUPPORTED_REQ"]

(* decoded_req of the beat on the request stream in this cycle.            *)
Decoded ==
  {NoRequest, Unsupported} \cup Writes
  \cup {r \in Reads : wrote => r.kind \in ReadAfterWrite}

Init ==
  /\ state = "S_RESET" /\ req = NoRequest /\ cpl_data = 0
  /\ control_r = DoneValue /\ stats = [d \in Descriptors |-> d]
  /\ ack_pipe = <<FALSE, FALSE, FALSE, FALSE>>
  /\ rdata_engine_r = 0 /\ is_engine_read_r = FALSE
  /\ addra_time_r = 0 /\ doutb_time = [latch |-> 0, out |-> 0]
  /\ rdata_descriptor_r = 0
  /\ ack_ctrl_r = FALSE
  /\ wrote = FALSE /\ held = {}

-----------------------------------------------------------------------------
(* The memory interface in this cycle.                                     *)
en == state \in {"S_STORE_RD_REQ", "S_STORE_WR_REQ"}
we == state = "S_STORE_WR_REQ"

(* dma_sriov_top.v passes accesses from C_ENGINE_TABLE_OFFSET on.          *)
en_dma == en /\ req.kind # "below"

(* The host's reset: bit 7 written to the common block.                    *)
user_reset == we /\ req.kind = "ctrl"

ack == ack_ctrl_r \/ ack_pipe[4]

dout == IF ack_ctrl_r THEN CtrlValue
        ELSE IF is_engine_read_r THEN rdata_engine_r
        ELSE rdata_descriptor_r

(* What a read of the latched register stands for at this moment.          *)
Contents(r) == CASE r.kind = "engine" -> control_r
                 [] r.kind = "stats" -> stats[r.index]
                 [] r.kind = "ctrl" -> CtrlValue
                 [] OTHER -> 0

NextState(r, tready) ==
  CASE state = "S_WAIT_FOR_REQ" /\ r.op = "VALID_RD_REQ" -> "S_STORE_RD_REQ"
    [] state = "S_WAIT_FOR_REQ" /\ r.op = "VALID_WR_REQ" -> "S_STORE_WR_REQ"
    [] state = "S_WAIT_FOR_REQ" /\ r.op = "UNSUPPORTED_REQ" -> "S_SEND_UNSUPPORTED_REQ"
    [] state = "S_STORE_RD_REQ" -> "S_WAIT_FOR_RD_CPL"
    [] state = "S_WAIT_FOR_RD_CPL" /\ ~ack -> "S_WAIT_FOR_RD_CPL"
    [] state = "S_WAIT_FOR_RD_CPL" /\ ack -> "S_SEND_RD_CPL"
    [] state = "S_SEND_RD_CPL" /\ ~tready -> "S_SEND_RD_CPL"
    [] OTHER -> "S_WAIT_FOR_REQ"

(* The completer: r is the request decoded, tready s_axis_cc_tready.       *)
CompleterEdge(r, tready) ==
  /\ state' = NextState(r, tready)
  /\ req' = IF state = "S_WAIT_FOR_REQ" /\ r.op # "NO_REQ" THEN r ELSE req
  /\ cpl_data' = IF state = "S_WAIT_FOR_RD_CPL" THEN dout ELSE cpl_data

(* The registers: the host writes the control register; the engine clears  *)
(* its enable bit or stores the statistics of a descriptor.                *)
RegistersEdge ==
  \/ /\ control_r' = IF user_reset THEN DoneValue
                     ELSE IF we /\ req.kind = "engine" THEN req.data ELSE control_r
     /\ UNCHANGED stats
  \/ /\ ~we /\ control_r # DoneValue
     /\ control_r' = DoneValue
     /\ UNCHANGED stats
  \/ /\ ~we /\ control_r # DoneValue
     /\ \E d \in Descriptors, v \in StatsValues : stats' = [stats EXCEPT ![d] = v]
     /\ UNCHANGED control_r

(* Mutant: the acknowledge comes one cycle too early.                      *)
AckEdgeEarly ==
  ack_pipe' = IF user_reset THEN <<FALSE, FALSE, FALSE, FALSE>>
              ELSE <<en_dma, ack_pipe[1], ack_pipe[2], ack_pipe[2]>>

(* Mutant: only a write is acknowledged.                                   *)
AckEdgeWritesOnly ==
  ack_pipe' = IF user_reset THEN <<FALSE, FALSE, FALSE, FALSE>>
              ELSE <<en_dma /\ we, ack_pipe[1], ack_pipe[2], ack_pipe[3]>>

(* Every access is acknowledged four cycles later, a write too.            *)
AckEdge ==
  ack_pipe' = IF user_reset THEN <<FALSE, FALSE, FALSE, FALSE>>
              ELSE <<en_dma, ack_pipe[1], ack_pipe[2], ack_pipe[3]>>

CtrlEdge == ack_ctrl_r' = (en_dma /\ req.kind = "ctrl" /\ ~user_reset)

StatsIndex(r) == r.index

(* The read path: engine registers are sampled with the access; the        *)
(* statistics follow the address held by the completer, through the        *)
(* address register, the two-cycle read port and the output register.      *)
ReadPathEdge ==
  IF user_reset
  THEN /\ rdata_engine_r' = 0 /\ is_engine_read_r' = FALSE
       /\ addra_time_r' = 0 /\ rdata_descriptor_r' = 0
       /\ doutb_time' = [latch |-> stats[addra_time_r], out |-> doutb_time.latch]
  ELSE /\ is_engine_read_r' = IF en_dma THEN req.kind = "engine" ELSE is_engine_read_r
       /\ rdata_engine_r' = IF ~en_dma THEN rdata_engine_r
                            ELSE IF req.kind = "engine" THEN control_r ELSE 0
       /\ addra_time_r' = StatsIndex(req)
       /\ \E v \in {stats[addra_time_r], stats'[addra_time_r]} :
            doutb_time' = [latch |-> v, out |-> doutb_time.latch]
       /\ rdata_descriptor_r' = IF req.kind = "stats" THEN doutb_time.out ELSE 0

HistoryEdge ==
  /\ wrote' = CASE state' = "S_STORE_WR_REQ" -> TRUE
                [] state = "S_SEND_RD_CPL" -> FALSE
                [] OTHER -> wrote
  /\ held' = CASE state' = "S_STORE_RD_REQ" -> {Contents(req)'}
               [] state' \in {"S_WAIT_FOR_RD_CPL", "S_SEND_RD_CPL"} -> held \cup {Contents(req)'}
               [] OTHER -> {}

ClockEdge(r, tready) ==
  /\ CompleterEdge(r, tready)
  /\ RegistersEdge
  /\ AckEdge
  /\ CtrlEdge
  /\ ReadPathEdge
  /\ HistoryEdge

Next == \E r \in Decoded, tready \in BOOLEAN : ClockEdge(r, tready)

Spec == Init /\ [][Next]_vars

(* The clock runs and the host takes a completion in the end.              *)
FairSpec ==
  Spec /\ WF_vars(Next) /\ SF_vars(\E r \in Decoded : ClockEdge(r, TRUE))

-----------------------------------------------------------------------------
TypeOK ==
  /\ state \in {"S_RESET", "S_WAIT_FOR_REQ", "S_STORE_WR_REQ", "S_STORE_RD_REQ",
                "S_WAIT_FOR_RD_CPL", "S_SEND_RD_CPL", "S_SEND_UNSUPPORTED_REQ"}
  /\ req \in {NoRequest, Unsupported} \cup Reads \cup Writes
  /\ cpl_data \in Nat /\ control_r \in Nat
  /\ stats \in [Descriptors -> Nat]
  /\ ack_pipe \in [1 .. 4 -> BOOLEAN] /\ ack_ctrl_r \in BOOLEAN
  /\ rdata_engine_r \in Nat /\ is_engine_read_r \in BOOLEAN
  /\ addra_time_r \in Descriptors
  /\ doutb_time \in [latch : Nat, out : Nat] /\ rdata_descriptor_r \in Nat
  /\ wrote \in BOOLEAN /\ held \subseteq Nat

(* The completion of a read carries a value that the register it names has *)
(* held since the completer took the read (pcie_completer_to_bram.sv takes *)
(* dout with the acknowledge and does not check whose acknowledge it is).  *)
ReadReturnsItsRegister == state = "S_SEND_RD_CPL" => cpl_data \in held

(* A read that was taken is answered: the completer comes back to the      *)
(* state in which it takes requests.                                       *)
ReadsAnswered == state = "S_STORE_RD_REQ" ~> state = "S_WAIT_FOR_REQ"

=============================================================================
