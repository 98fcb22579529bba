--------------------------- MODULE DmaLogicProofs ---------------------------
(***************************************************************************)
(* The DMA core with its software, for any number of tags and descriptors, *)
(* any requests and windows: it runs what the software wrote, it keeps the *)
(* contract of the data path (DmaLogic implements DmaTransfer), and so it  *)
(* has what DmaReadProofs proves of the data path.  The invariant is that  *)
(* of DmaSoftwareProofs.                                                   *)
(***************************************************************************)
EXTENDS DmaLogic, DmaSoftwareProofs

(* The invariant of software and manager is one of the whole core.         *)
LEMMA Invariant ==
  ASSUME Discipline
  PROVE  Spec => []LogicInv
<1>1. Init => LogicInv
  BY InvariantInit, Zenon DEF Init
<1>2. ASSUME LogicInv, NEW mem, NEW tready \in BOOLEAN, NEW beat, NEW push,
             ClockEdge(tready, beat, push, mem)
      PROVE  LogicInv'
  BY <1>2, InvariantStep, Zenon DEF ClockEdge
<1>3. ASSUME LogicInv, NewRun
      PROVE  LogicInv'
  BY <1>3, InvariantRestart, Zenon DEF NewRun, Discipline
<1>4. ASSUME LogicInv, UNCHANGED logicVars
      PROVE  LogicInv'
  BY <1>4, InvariantStutter, Zenon DEF logicVars
<1>5. LogicInv /\ [Next]_logicVars => LogicInv'
  BY <1>2, <1>3, <1>4, Zenon DEF Next
<1> QED BY <1>1, <1>5, PTL DEF Spec

(* For any number of descriptors, any requests and any timing of the host: *)
(* whatever the engine runs is the descriptor that the driver wrote last,  *)
(* with its size, direction and number of TLPs.  Needs the discipline: one *)
(* descriptor at a time, polled to its end.                                *)
THEOREM RunsTheRequest ==
  ASSUME Discipline
  PROVE  Spec => []RunsWhatWasWritten
<1>1. LogicInv => RunsWhatWasWritten
  <2> SUFFICES ASSUME LogicInv, wr_state # "IDLE"
               PROVE  /\ active_index_descriptor_r = index
                      /\ boundaries = BoundariesOf([ports EXCEPT !.SIZE = request.SIZE])
                      /\ capabilities_r = [c2s |-> request.c2s, s2c |-> request.s2c]
                      /\ number_tlps_r = request.TLPS
    BY Zenon DEF RunsWhatWasWritten
  <2>1. capabilities_r = [c2s |-> request.c2s, s2c |-> request.s2c] /\ number_tlps_r = request.TLPS
    BY RunningOperation, Zenon DEF LogicInv, PortsInv, Started, SoftwareSteps
  <2> QED BY <2>1, RunningOperation, SizeAsPresented, Zenon
<1> QED BY <1>1, Invariant, PTL

(* A running operation uses the size that the descriptor memory holds for  *)
(* the active descriptor: it has come through the port register, the       *)
(* latch and the output register before VALID_ENGINE rises.                *)
THEOREM RunsTheActiveDescriptor ==
  ASSUME Discipline
  PROVE  Spec => []UsesActiveDescriptor
<1>1. LogicInv => UsesActiveDescriptor
  BY RunningOperation, SizeAsPresented, Zenon DEF UsesActiveDescriptor
<1> QED BY <1>1, Invariant, PTL

(* When the driver reads the status of descriptor index + 1, the slot      *)
(* holds what the engine has published for the operation just waited for.  *)
THEOREM ReadsTheStatistics ==
  ASSUME Discipline
  PROVE  Spec => []ReadsOwnStatistics
<1>1. LogicInv => ReadsOwnStatistics
  BY Zenon DEF LogicInv, StatsInv, NextIndex, ReadsOwnStatistics
<1> QED BY <1>1, Invariant, PTL

-----------------------------------------------------------------------------
(* The core implements the data path of DmaTransfer.                       *)

(* The operators of the instance are those of the requester, ...           *)
LEMMA SameRequester ==
  ASSUME NEW tready, NEW c, NEW p, NEW push, NEW k, RqEdge(tready, c, p, push, k)
  PROVE  T!RqEdge(tready, c, p, push, k)
<1> USE DEF RqEdge, FreeRunning, BoundariesOf, NumberEven, OddWords, ReadMax, LastWrOfPass,
     LastRdOfPass, current_wr_tlp_words_s, current_rd_tlp_words_s, last_word_at_tlp_s,
     last_two_words_at_tlp_s, one_word_at_buffer_s, two_words_at_buffer_s,
     mem_wr_next_remainder, InMask, TagAvailable, firstFree, EndOfRead, EndOfWrite,
     end_of_operation, StartCondition, C2S_FIFO_TREADY, AllocatedTags, TagsEdge,
     LatencyEdge, LatencyTagsEdge, BufferEdge, wrTlpVars, rdTlpVars, IdleEdge, StartWrite,
     StartRead, StayIdle, AfterWriteTlp, FinishWriteTlp, WriteWaits, WriteHeader, WriteData,
     WriteLastData, ReadWaits, ReadRequest, WaitRead, MinOf, NoBeat, Tags
<1> USE DEF T!RqEdge, T!FreeRunning, T!BoundariesOf, T!NumberEven, T!OddWords, T!ReadMax,
     T!LastWrOfPass, T!LastRdOfPass, T!current_wr_tlp_words_s, T!current_rd_tlp_words_s,
     T!last_word_at_tlp_s, T!last_two_words_at_tlp_s, T!one_word_at_buffer_s,
     T!two_words_at_buffer_s, T!mem_wr_next_remainder, T!InMask, T!TagAvailable,
     T!firstFree, T!EndOfRead, T!EndOfWrite, T!end_of_operation, T!StartCondition,
     T!C2S_FIFO_TREADY, T!AllocatedTags, T!TagsEdge, T!LatencyEdge, T!LatencyTagsEdge,
     T!BufferEdge, T!wrTlpVars, T!rdTlpVars, T!IdleEdge, T!StartWrite, T!StartRead,
     T!StayIdle, T!AfterWriteTlp, T!FinishWriteTlp, T!WriteWaits, T!WriteHeader,
     T!WriteData, T!WriteLastData, T!ReadWaits, T!ReadRequest, T!WaitRead, T!MinOf,
     T!NoBeat, T!Tags
<1> QED BY ZenonT(30)

(* ... of the completion logic, ...                                        *)
LEMMA SameCompleter ==
  ASSUME NEW beat, NEW busy, NEW size, RcEdge(beat, busy, size)
  PROVE  T!RcEdge(beat, busy, size)
<1> USE DEF RcEdge, TagCompletes, NextWordCount, NextDifference, NextExceeded, Starts,
     EndsInOnePulse, Wrap, Tags
<1> USE DEF T!RcEdge, T!TagCompletes, T!NextWordCount, T!NextDifference, T!NextExceeded,
     T!Starts, T!EndsInOnePulse, T!Wrap, T!Tags
<1> QED BY Zenon

(* ... of their reset values, and of what the manager observes.            *)
LEMMA SameValues ==
  /\ RqInit => T!RqInit
  /\ RcInit => T!RcInit
  /\ RqReset => T!RqReset
  /\ RcReset => T!RcReset
  /\ T!end_of_operation <=> end_of_operation
  /\ T!BoundariesOf(ports) = BoundariesOf(ports)
  /\ T!Tags = Tags
<1>1. T!Tags = Tags
  BY Zenon DEF T!Tags, Tags
<1>2. RqInit => T!RqInit
  BY Zenon DEF RqInit, T!RqInit, T!Tags, Tags, NoBeat, T!NoBeat
<1>3. RcInit => T!RcInit
  BY Zenon DEF RcInit, T!RcInit, T!Tags, Tags
<1>4. RqReset => T!RqReset
  BY Zenon DEF RqReset, T!RqReset, T!Tags, Tags, NoBeat, T!NoBeat
<1>5. RcReset => T!RcReset
  BY Zenon DEF RcReset, T!RcReset, T!Tags, Tags
<1>6. T!end_of_operation <=> end_of_operation
  BY Zenon DEF end_of_operation, EndOfRead, EndOfWrite, T!end_of_operation,
     T!EndOfRead, T!EndOfWrite, InMask, T!InMask, Tags, T!Tags
<1>7. T!BoundariesOf(ports) = BoundariesOf(ports)
  BY Zenon DEF BoundariesOf, NumberEven, OddWords, ReadMax, T!BoundariesOf,
     T!NumberEven, T!OddWords, T!ReadMax
<1> QED BY <1>1, <1>2, <1>3, <1>4, <1>5, <1>6, <1>7, Zenon

(* The reset state of the core shows the reset ports of the data path.     *)
LEMMA ContractInit ==
  ASSUME Init
  PROVE  T!Init
<1>1. ports = T!ResetPorts
  BY ZenonT(30) DEF Init, ManagerInit, ports, T!ResetPorts
<1>2. RqInit /\ RcInit
  BY Zenon DEF Init
<1> QED BY <1>1, <1>2, SameValues, Zenon DEF Init, T!Init

(* So does restart.sh.                                                     *)
LEMMA ContractRestart ==
  ASSUME Discipline, NewRun
  PROVE  T!UserReset
<1>1. /\ T!Quiescent /\ RqReset /\ RcReset /\ ManagerReset
      /\ rqLeft' = 0 /\ issued' = T!NothingIssued /\ UNCHANGED <<due, rcTlp>>
  BY Zenon DEF Discipline, NewRun
<1>2. ports' = T!ResetPorts
  BY <1>1, ZenonT(30) DEF ManagerReset, ports, T!ResetPorts
<1> QED BY <1>1, <1>2, SameValues, Zenon DEF T!UserReset

(* Every edge of the manager is one that the data path allows for.         *)
LEMMA ContractPorts ==
  ASSUME Discipline, LogicInv, NEW mem, HostEdge(mem), LogicTypes',
         NEW tready \in BOOLEAN, NEW c, NEW push, NEW k, NEW req, NEW comp,
         RqEdge(tready, c, ports, push, k),
         ManagerEdge(mem, end_of_operation, update_latency_r, req, comp)
  PROVE  T!ManagerEdge
<1>0. HostTypes /\ RegisterTypes /\ PhaseInv /\ RegisterTypes' /\ MemoryTypes'
  BY Zenon DEF LogicInv, LogicTypes
<1>1. /\ ports.ENGINE_VALID = VALID_ENGINE /\ ports.WINDOW = WINDOW_SIZE
      /\ ports.SIZE = DESCRIPTOR_SIZE
  BY Zenon DEF ports
<1>2. \/ Off \/ Ended
      \/ pc = "poll" /\ Armed /\ active_index_descriptor_r = index
      \/ pc = "poll" /\ Running /\ active_index_descriptor_r = index
  BY <1>0, Zenon DEF PhaseInv, HostTypes, SoftwareSteps, Preparing
<1>3. ASSUME ~VALID_ENGINE, Idle, ~VALID_ENGINE'
      PROVE  T!PortsConfigure
  <2> DEFINE op == [c2s |-> capabilities_r'.c2s, s2c |-> capabilities_r'.s2c,
                    SIZE |-> DESCRIPTOR_SIZE', TLPS |-> number_tlps_r']
  <2>1. op \in PortValues
    BY <1>0, Zenon DEF RegisterTypes, MemoryTypes, SizeValues, TlpValues, PortValues
  <2>2. WINDOW_SIZE' \in Windows \cup {C_WINDOW_SIZE} /\ WINDOW_SIZE' <= WINDOW_SIZE
    BY <1>0, Zenon DEF ManagerEdge, RegistersEdge, LogicInv, WindowInv, RegisterTypes,
       WindowValues
  <2>3. VALID_ENGINE' = FALSE
    BY <1>0, <1>3, Zenon DEF RegisterTypes
  <2>4. ports' = [ENGINE_VALID |-> FALSE, c2s |-> op.c2s, s2c |-> op.s2c,
                  SIZE |-> op.SIZE, TLPS |-> op.TLPS, WINDOW |-> WINDOW_SIZE']
    BY <2>3, Zenon DEF ports
  <2> HIDE DEF op
  <2> QED BY <1>1, <1>3, <2>1, <2>2, <2>4, ZenonT(30) DEF T!PortsConfigure, Idle
<1>4. Idle => ~end_of_operation
  BY Zenon DEF Idle, end_of_operation, EndOfRead, EndOfWrite, Writing
<1>5. CASE Off \/ Ended
  <2>1. ~VALID_ENGINE /\ Idle
    BY <1>5, Zenon DEF Off, Ended
  <2>2. ~VALID_ENGINE'
    BY <1>4, <1>5, <2>1, ZenonT(30) DEF ManagerEdge, ValidEdge, Off, Ended
  <2> QED BY <1>3, <2>1, <2>2, Zenon DEF T!ManagerEdge
<1>6. CASE pc = "poll" /\ Armed
  <2>1. ~VALID_ENGINE /\ Idle /\ wr_state = "IDLE"
    BY <1>6, Zenon DEF Armed, Idle
  <2>2. VALID_ENGINE' = TRUE
    BY <1>4, <1>6, <2>1, ZenonT(30) DEF ManagerEdge, ValidEdge, Armed
  <2>3. ports' = [ports EXCEPT !.ENGINE_VALID = TRUE]
    BY <1>6, <2>2, PortsHeld, ZenonT(30)
  <2>4. DESCRIPTOR_SIZE # 0
    <3>1. request \in Requests /\ DESCRIPTOR_SIZE = request.SIZE
      BY <1>6, Zenon DEF LogicInv, IndexInv, SizeInv, Described, Started, SoftwareSteps
    <3> QED BY <3>1, RequestFields, Zenon
  <2>5. T!Settled
    <3>1. /\ window_size_r = WINDOW_SIZE /\ window_size_mask_r = WINDOW_SIZE
          /\ {j \in Tags \ {0} : j >= WINDOW_SIZE} \subseteq current_tags_r
      BY <1>6, Zenon DEF LogicInv, WindowInv, Started, SoftwareSteps
    <3>2. boundaries = BoundariesOf(ports)
      BY <1>6, Zenon DEF LogicInv, PortsInv, Described
    <3> QED BY <1>1, <3>1, <3>2, SameValues, Zenon DEF T!Settled
  <2> QED BY <1>1, <1>4, <2>1, <2>3, <2>4, <2>5, SameValues, Zenon DEF T!ManagerEdge,
     T!PortsRaise
<1>7. CASE pc = "poll" /\ Running /\ active_index_descriptor_r = index
  <2>1. VALID_ENGINE /\ ports' = [ports EXCEPT !.ENGINE_VALID = VALID_ENGINE']
    BY <1>7, PortsHeld, Zenon DEF Running
  <2>2. CASE end_of_operation
    <3>1. AtLastDescriptor
      BY <1>7, Zenon DEF LogicInv, IndexInv, AtLastDescriptor
    <3>2. VALID_ENGINE' = FALSE
      BY <2>2, <3>1, ZenonT(30) DEF ManagerEdge, ValidEdge
    <3> QED BY <1>1, <2>1, <2>2, <3>2, SameValues, ZenonT(30) DEF T!ManagerEdge, T!PortsDrop
  <2>3. CASE ~end_of_operation
    <3>1. VALID_ENGINE' = VALID_ENGINE
      BY <1>0, <1>7, <2>1, <2>3, ZenonT(30) DEF ManagerEdge, ValidEdge, Running,
         RegisterTypes
    <3>2. ports' = ports
      BY <2>1, <3>1, ZenonT(30) DEF ports
    <3> QED BY <2>3, <3>2, SameValues, Zenon DEF T!ManagerEdge, T!PortsHold
  <2> QED BY <2>2, <2>3, Zenon
<1> QED BY <1>2, <1>5, <1>6, <1>7, Zenon

(* A clock edge of the core is a clock edge of the data path.              *)
LEMMA ContractEdge ==
  ASSUME Discipline, LogicInv, NEW mem, NEW tready \in BOOLEAN, NEW beat \in T!Beats,
         NEW push \in Pushes, ClockEdge(tready, beat, push, mem)
  PROVE  T!ClockEdge(tready, beat, push)
<1>1. /\ HostEdge(mem)
      /\ RqEdge(tready, completed_tags_r, ports, push, beat.keep)
      /\ RcEdge(beat, current_tags_r, size_tags_r)
      /\ ManagerEdge(mem, end_of_operation, update_latency_r, bytes_req_r, bytes_comp_r)
      /\ T!RcStreamEdge(beat) /\ T!DueEdge(tready, beat)
      /\ T!RqStreamEdge(tready) /\ T!IssuedEdge(tready, beat)
  BY Zenon DEF ClockEdge
<1>2. T!RqEdge(tready, completed_tags_r, ports, push, beat.keep)
  BY <1>1, SameRequester, Zenon
<1>3. T!RcEdge(beat, current_tags_r, size_tags_r)
  BY <1>1, SameCompleter, Zenon
<1>4. LogicTypes'
  <2>1. LogicInv'
    BY InvariantStep, ZenonT(30) DEF ClockEdge
  <2> QED BY <2>1, Zenon DEF LogicInv
<1>5. T!ManagerEdge
  BY <1>1, <1>4, ContractPorts, Zenon
<1> QED BY <1>1, <1>2, <1>3, <1>5, Zenon DEF T!ClockEdge

(* For any number of tags and descriptors, any requests and windows: the   *)
(* manager, driven by the driver's sequence of register writes, keeps the  *)
(* contract of the data path.  Every step of the core is a clock edge, a   *)
(* reset or a stutter of DmaTransfer: the ports hold still while an        *)
(* operation runs, and VALID_ENGINE rises only when everything that is     *)
(* derived from the ports has settled.                                     *)
THEOREM KeepsTheContract ==
  ASSUME Discipline
  PROVE  Spec => DataPathContract
<1>1. Init => T!Init
  BY ContractInit, Zenon
<1>2. LogicInv /\ [Next]_logicVars => [T!Next]_(T!vars)
  <2> SUFFICES ASSUME LogicInv, [Next]_logicVars
               PROVE  T!Next \/ UNCHANGED T!vars
    BY Zenon
  <2>1. ASSUME NEW mem \in Accesses, NEW tready \in BOOLEAN, NEW beat \in T!Beats,
               NEW push \in Pushes, ClockEdge(tready, beat, push, mem)
        PROVE  T!Next
    <3>1. T!ClockEdge(tready, beat, push)
      BY <2>1, ContractEdge, Zenon
    <3> QED BY <3>1, Zenon DEF T!Next
  <2>2. CASE NewRun
    BY <2>2, ContractRestart, Zenon DEF T!Next
  <2>3. CASE UNCHANGED logicVars
    BY <2>3, Zenon DEF logicVars, managerVars, rqVars, rcVars, T!vars, T!rqVars,
       T!rcVars, T!envVars, ports
  <2> QED BY <2>1, <2>2, <2>3, Zenon DEF Next
<1> QED BY <1>1, <1>2, Invariant, PTL DEF Spec, DataPathContract, T!Spec

-----------------------------------------------------------------------------
(* With the contract, the core has what DmaReadProofs proves of the data   *)
(* path.                                                                   *)

TP == INSTANCE DmaReadProofs WITH
        Operations <- PortValues, Windows <- Windows \cup {C_WINDOW_SIZE},
        WindowMayGrow <- ~RestartFirst, Resets <- TRUE, ResetMidFlight <- FALSE

(* The constants of the core satisfy the assumptions of the data path.     *)
LEMMA DataPathAssumptions ==
  TP!TransferAssumption /\ TP!RqAssumption /\ TP!RcAssumption /\ TP!TagsAssumption
<1>1. TP!RqAssumption /\ TP!RcAssumption /\ TP!TagsAssumption
  BY RqAssumption, RcAssumption, TagsAssumption, Zenon
     DEF TP!RqAssumption, TP!RcAssumption, TP!TagsAssumption
<1>2. PortValues \subseteq TP!OperationType
  BY SoftwareAssumption DEF PortValues, TP!OperationType
<1>3. (Windows \cup {C_WINDOW_SIZE}) \subseteq 1 .. C_WINDOW_SIZE
  BY SoftwareAssumption, TagsAssumption
<1>4. TP!TransferAssumption
  BY <1>2, <1>3, SoftwareAssumption, LogicAssumption, Zenon DEF TP!TransferAssumption,
     TP!Tags, Tags
<1> QED BY <1>1, <1>4, Zenon

(* The two instances of the data path agree on the requester, ...          *)
LEMMA InstanceRequester ==
  ASSUME NEW tready, NEW c, NEW p, NEW push, NEW k, T!RqEdge(tready, c, p, push, k)
  PROVE  TP!RqEdge(tready, c, p, push, k)
  BY ZenonT(30) DEF T!RqEdge, TP!RqEdge, T!FreeRunning, TP!FreeRunning, T!BoundariesOf,
     TP!BoundariesOf, T!NumberEven, TP!NumberEven, T!OddWords, TP!OddWords, T!ReadMax,
     TP!ReadMax, T!LastWrOfPass, TP!LastWrOfPass, T!LastRdOfPass, TP!LastRdOfPass,
     T!current_wr_tlp_words_s, TP!current_wr_tlp_words_s, T!current_rd_tlp_words_s,
     TP!current_rd_tlp_words_s, T!last_word_at_tlp_s, TP!last_word_at_tlp_s,
     T!last_two_words_at_tlp_s, TP!last_two_words_at_tlp_s, T!one_word_at_buffer_s,
     TP!one_word_at_buffer_s, T!two_words_at_buffer_s, TP!two_words_at_buffer_s,
     T!mem_wr_next_remainder, TP!mem_wr_next_remainder, T!InMask, TP!InMask,
     T!TagAvailable, TP!TagAvailable, T!firstFree, TP!firstFree, T!EndOfRead,
     TP!EndOfRead, T!EndOfWrite, TP!EndOfWrite, T!end_of_operation, TP!end_of_operation,
     T!StartCondition, TP!StartCondition, T!C2S_FIFO_TREADY, TP!C2S_FIFO_TREADY,
     T!AllocatedTags, TP!AllocatedTags, T!TagsEdge, TP!TagsEdge, T!LatencyEdge,
     TP!LatencyEdge, T!LatencyTagsEdge, TP!LatencyTagsEdge, T!BufferEdge, TP!BufferEdge,
     T!wrTlpVars, TP!wrTlpVars, T!rdTlpVars, TP!rdTlpVars, T!IdleEdge, TP!IdleEdge,
     T!StartWrite, TP!StartWrite, T!StartRead, TP!StartRead, T!StayIdle, TP!StayIdle,
     T!AfterWriteTlp, TP!AfterWriteTlp, T!FinishWriteTlp, TP!FinishWriteTlp,
     T!WriteWaits, TP!WriteWaits, T!WriteHeader, TP!WriteHeader, T!WriteData,
     TP!WriteData, T!WriteLastData, TP!WriteLastData, T!ReadWaits, TP!ReadWaits,
     T!ReadRequest, TP!ReadRequest, T!WaitRead, TP!WaitRead, T!MinOf, TP!MinOf,
     T!NoBeat, TP!NoBeat, T!Tags, TP!Tags

(* ... the completion logic, ...                                           *)
LEMMA InstanceCompleter ==
  ASSUME NEW beat, NEW busy, NEW size, T!RcEdge(beat, busy, size)
  PROVE  TP!RcEdge(beat, busy, size)
  BY Zenon DEF T!RcEdge, TP!RcEdge, T!TagCompletes, TP!TagCompletes, T!NextWordCount,
     TP!NextWordCount, T!NextDifference, TP!NextDifference, T!NextExceeded,
     TP!NextExceeded, T!Starts, TP!Starts, T!EndsInOnePulse, TP!EndsInOnePulse, T!Wrap,
     TP!Wrap, T!Tags, TP!Tags

(* ... the ports, ...                                                      *)
LEMMA InstanceManager ==
  T!ManagerEdge => TP!ManagerEdge
  BY Zenon DEF T!ManagerEdge, TP!ManagerEdge, T!PortsHold, TP!PortsHold, T!PortsConfigure,
     TP!PortsConfigure, T!PortsRaise, TP!PortsRaise, T!PortsDrop, TP!PortsDrop,
     T!Settled, TP!Settled, T!end_of_operation, TP!end_of_operation, T!EndOfRead,
     TP!EndOfRead, T!EndOfWrite, TP!EndOfWrite, T!InMask, TP!InMask, T!BoundariesOf,
     TP!BoundariesOf, T!NumberEven, TP!NumberEven, T!OddWords, TP!OddWords, T!ReadMax,
     TP!ReadMax, T!Tags, TP!Tags

(* ... the two streams, ...                                                *)
LEMMA InstanceStreams ==
  ASSUME NEW beat, NEW tready, T!RcStreamEdge(beat), T!DueEdge(tready, beat),
         T!RqStreamEdge(tready), T!IssuedEdge(tready, beat)
  PROVE  /\ TP!RcStreamEdge(beat) /\ TP!DueEdge(tready, beat)
         /\ TP!RqStreamEdge(tready) /\ TP!IssuedEdge(tready, beat)
  BY DEF T!RcStreamEdge, TP!RcStreamEdge, T!DueEdge, TP!DueEdge, T!AcceptedRead,
     TP!AcceptedRead, T!RqStreamEdge, TP!RqStreamEdge, T!IssuedEdge, TP!IssuedEdge,
     T!WordsToCome, TP!WordsToCome, T!NothingIssued, TP!NothingIssued, T!Tags, TP!Tags

(* ... the beats the host may send, ...                                    *)
LEMMA InstanceBeats ==
  T!Beats = TP!Beats
  BY Zenon DEF T!Beats, TP!Beats, T!IdleBeats, TP!IdleBeats, T!FirstBeats, TP!FirstBeats,
     T!FirstBeat, TP!FirstBeat, T!NextBeats, TP!NextBeats, T!MinOf, TP!MinOf, T!Tags,
     TP!Tags

(* ... the reset, ...                                                      *)
LEMMA InstanceReset ==
  T!UserReset => TP!UserReset
  BY Zenon DEF T!Tags, TP!Tags, T!UserReset, TP!UserReset, T!Quiescent, TP!Quiescent,
     T!RqReset, TP!RqReset, T!RcReset, TP!RcReset, T!ResetPorts, TP!ResetPorts,
     T!NothingIssued, TP!NothingIssued, T!NoBeat, TP!NoBeat

(* ... the initial state, ...                                              *)
LEMMA InstanceInit ==
  T!Init => TP!Init
  BY Zenon DEF T!Init, TP!Init, T!RqInit, TP!RqInit, T!RcInit, TP!RcInit, T!ResetPorts,
     TP!ResetPorts, T!NothingIssued, TP!NothingIssued, T!NoBeat, TP!NoBeat, T!Tags,
     TP!Tags

(* ... the variables, ...                                                  *)
LEMMA InstanceVars ==
  UNCHANGED T!vars => UNCHANGED TP!vars
  BY Zenon DEF T!vars, TP!vars, T!rqVars, TP!rqVars, T!rcVars, TP!rcVars, T!envVars,
     TP!envVars

(* ... and so on the specification.                                        *)
LEMMA InstanceSpec ==
  T!Spec => TP!Spec
<1>1. ASSUME NEW tready, NEW beat, NEW push, T!ClockEdge(tready, beat, push)
      PROVE  TP!ClockEdge(tready, beat, push)
  BY <1>1, InstanceRequester, InstanceCompleter, InstanceManager, InstanceStreams, Zenon
     DEF T!ClockEdge, TP!ClockEdge
<1>2. [T!Next]_(T!vars) => [TP!Next]_(TP!vars)
  BY <1>1, InstanceBeats, InstanceReset, InstanceVars, Zenon DEF T!Next, TP!Next
<1> QED BY <1>2, InstanceInit, PTL DEF T!Spec, TP!Spec

(* The core never reports, reuses or abandons a tag too early: the         *)
(* invariant of the read path, which DmaReadProofs shows under the         *)
(* contract, holds in the core driven by its software, and so do the       *)
(* statistics that a read publishes.                                       *)
THEOREM ReadPathOfTheCore ==
  ASSUME Discipline, IdleTags \subseteq {0}
  PROVE  Spec => [](/\ TP!TypeOK /\ TP!ReadInv /\ TP!EndOfReadMeansAllReceived
                    /\ TP!ReadStatisticsComplete)
<1>1. TP!Spec => []TP!ReadInv
  BY DataPathAssumptions, TP!ReadInvariant, Zenon
<1>2. TP!Spec => []TP!EndOfReadMeansAllReceived
  BY DataPathAssumptions, TP!EndOfReadCorrect, Zenon
<1>3. TP!Spec => []TP!TypeOK
  BY DataPathAssumptions, TP!TypeCorrect, Zenon
<1>4. Spec => T!Spec
  BY KeepsTheContract, Zenon DEF DataPathContract
<1>5. TP!Spec => []TP!ReadStatisticsComplete
  BY DataPathAssumptions, TP!ReadStatistics, Zenon
<1> QED BY <1>1, <1>2, <1>3, <1>4, <1>5, InstanceSpec, PTL

(* What the benchmark divides by is right in the core driven by its        *)
(* software: write TLPs have the announced length, the c2s buffer keeps    *)
(* its bounds, the words of a write are counted but for one beat, and a    *)
(* read has requested the volume benchmark.c computes.                     *)
THEOREM WritePathOfTheCore ==
  ASSUME Discipline
  PROVE  Spec => [](/\ TP!WriteTlpWellFormed /\ TP!C2sBufferBounded
                    /\ TP!WriteStatisticsLackOneBeat /\ TP!ReadVolumeAsCounted)
<1>1. TP!Spec => []TP!WriteTlpWellFormed
  BY DataPathAssumptions, TP!WritesWellFormed, Zenon
<1>2. TP!Spec => []TP!C2sBufferBounded
  BY DataPathAssumptions, TP!BufferBounded, Zenon
<1>3. TP!Spec => []TP!WriteStatisticsLackOneBeat
  BY DataPathAssumptions, TP!WriteStatistics, Zenon
<1>4. TP!Spec => []TP!ReadVolumeAsCounted
  BY DataPathAssumptions, TP!ReadVolume, Zenon
<1>5. Spec => T!Spec
  BY KeepsTheContract, Zenon DEF DataPathContract
<1> QED BY <1>1, <1>2, <1>3, <1>4, <1>5, InstanceSpec, PTL

-----------------------------------------------------------------------------
(* The end of an operation that reads.                                     *)

(* What the read path says of the host: nothing is owed while the state    *)
(* machine rests, and no request waits at the end of a read.               *)
LEMMA NothingOwed ==
  ASSUME TP!TypeOK, TP!ReadInv, TP!EndOfReadMeansAllReceived
  PROVE  /\ wr_state = "IDLE" => rcTlp.left = 0 /\ \A j \in Tags : due[j] = 0
         /\ EndOfRead => ~(axis_rq.tvalid /\ axis_rq.kind = "rd")
<1>1. /\ due \in [Tags -> Nat] /\ rcTlp.tag \in Tags /\ rcTlp.left \in Nat /\ axis_rq.tag \in Tags
  BY Zenon DEF TP!TypeOK, TP!EnvTypeOK, TP!RqTypeOK, TP!RqBeats, TP!Tags, Tags
<1>2. wr_state = "IDLE" => \A j \in Tags : ~TP!Outstanding(j)
  BY Zenon DEF TP!ReadInv, TP!TagInv, TP!Tags, Tags
<1>3. EndOfRead => \A j \in Tags : ~TP!Outstanding(j)
  BY Zenon DEF TP!EndOfReadMeansAllReceived, TP!EndOfRead, EndOfRead, TP!InMask,
     InMask, TP!Tags, Tags
<1>4. ASSUME wr_state = "IDLE"
      PROVE  rcTlp.left = 0 /\ \A j \in Tags : due[j] = 0
  <2>1. \A j \in Tags : ~(due[j] > 0) /\ ~(rcTlp.left > 0 /\ rcTlp.tag = j)
    BY <1>2, <1>4, Zenon DEF TP!Outstanding, TP!Arriving
  <2> QED BY <1>1, <2>1
<1>5. EndOfRead => ~(axis_rq.tvalid /\ axis_rq.kind = "rd")
  BY <1>1, <1>3, Zenon DEF TP!Outstanding, TP!Pending
<1> QED BY <1>4, <1>5, Zenon

(* It is an invariant, given those of the software and of the read path.   *)
LEMMA DrainNext ==
  ASSUME Discipline, LogicInv, DrainInv, [Next]_logicVars,
         TP!TypeOK, TP!ReadInv, TP!EndOfReadMeansAllReceived
  PROVE  DrainInv'
<1>1. ASSUME NEW mem \in Accesses, NEW tready \in BOOLEAN, NEW beat \in T!Beats,
             NEW push \in Pushes, ClockEdge(tready, beat, push, mem)
      PROVE  DrainInv'
  <2>1. /\ HostEdge(mem)
        /\ RqEdge(tready, completed_tags_r, ports, push, beat.keep)
        /\ ManagerEdge(mem, end_of_operation, update_latency_r, bytes_req_r, bytes_comp_r)
    BY <1>1, Zenon DEF ClockEdge
  <2>2. EndOfRead => ~(axis_rq.tvalid /\ axis_rq.kind = "rd")
    BY NothingOwed, Zenon
  <2> QED BY <2>1, <2>2, DrainStep, Zenon
<1>2. CASE NewRun
  <2>1. RqReset /\ ManagerReset /\ pc' = "window"
    BY <1>2, Zenon DEF NewRun, Discipline
  <2> QED BY <2>1, Zenon DEF RqReset, ManagerReset, DrainInv, Running
<1>3. CASE UNCHANGED logicVars
  BY <1>3, ZenonT(30) DEF logicVars, hostVars, managerVars, rqVars, rcVars, DrainInv,
     Running, Off, Ended, Idle, EndOfWrite
<1> QED BY <1>1, <1>2, <1>3, Zenon DEF Next

(* "@return 0 if the operation could be completed successfully": when the  *)
(* driver returns from an operation that reads, and its buffer is about to *)
(* be unmapped, nothing of the operation is left in the engine, in the RQ  *)
(* registers or with the host.                                             *)
THEOREM ReturnsComplete ==
  ASSUME Discipline, IdleTags \subseteq {0}
  PROVE  Spec => []ReturnMeansComplete
<1>1. Init => DrainInv
  BY Zenon DEF Init, HostInit, RqInit, ManagerInit, DrainInv, Running
<1>2. LogicInv /\ (TP!TypeOK /\ TP!ReadInv /\ TP!EndOfReadMeansAllReceived) /\ DrainInv
        /\ [Next]_logicVars => DrainInv'
  BY DrainNext, Zenon
<1>3. LogicInv /\ (TP!TypeOK /\ TP!ReadInv /\ TP!EndOfReadMeansAllReceived) /\ DrainInv
        => ReturnMeansComplete
  <2> SUFFICES ASSUME LogicInv, TP!TypeOK, TP!ReadInv, TP!EndOfReadMeansAllReceived, DrainInv,
                      pc = "status", request.s2c
               PROVE  Quiet
    BY Zenon DEF ReturnMeansComplete
  <2>1. Off
    BY Zenon DEF LogicInv, PhaseInv
  <2>2. capabilities_r.s2c
    BY DEF LogicInv, PortsInv
  <2>3. ~axis_rq.tvalid
    BY <2>1, <2>2, Zenon DEF DrainInv
  <2>4. wr_state = "IDLE" /\ ~VALID_ENGINE
    BY <2>1, Zenon DEF Off, Idle
  <2> QED BY <2>3, <2>4, NothingOwed, SameValues, Zenon DEF Quiet, T!Quiescent
<1> QED BY <1>1, <1>2, <1>3, Invariant, ReadPathOfTheCore, PTL DEF Spec

=============================================================================
