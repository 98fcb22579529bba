------------------------------ MODULE DmaLogic ------------------------------
(***************************************************************************)
(* dma_logic.v with its three parts on one clock, the PCIe core and the    *)
(* host behind them, and the software of DmaSoftware in front of them.     *)
(*                                                                         *)
(* DmaTransfer describes the data path under a contract on the ports of    *)
(* the manager.  Here the ports are outputs of the real manager, and the   *)
(* contract becomes a theorem to check: DataPathContract.                  *)
(***************************************************************************)
EXTENDS DmaSoftware, DmaRcLogic

CONSTANTS IdleTags, Splits, Pushes

ASSUME LogicAssumption ==
  /\ IdleTags \subseteq Tags
  /\ Splits \subseteq Nat \ {0} /\ Pushes \subseteq 0 .. 2
  /\ MaxPayload < CountLimit /\ MaxReadRequest < CountLimit

VARIABLES due, rcTlp, rqLeft, issued   \* the environment, as in DmaTransfer

logicVars == <<rqVars, rcVars, managerVars, due, rcTlp, rqLeft, issued, hostVars>>

(* Everything the ports can show while the engine is disabled.             *)
PortValues ==
  [c2s : BOOLEAN, s2c : BOOLEAN, SIZE : {0} \cup {r.SIZE : r \in Requests},
   TLPS : {0} \cup {r.TLPS : r \in Requests}]

T == INSTANCE DmaTransfer WITH
       Operations <- PortValues, Windows <- Windows \cup {C_WINDOW_SIZE},
       WindowMayGrow <- ~RestartFirst, Resets <- TRUE, ResetMidFlight <- FALSE

Init ==
  /\ RqInit /\ RcInit /\ ManagerInit
  /\ due = [j \in Tags |-> 0]
  /\ rcTlp = [tag |-> 0, left |-> 0]
  /\ rqLeft = 0
  /\ issued = T!NothingIssued
  /\ HostInit

-----------------------------------------------------------------------------
ClockEdge(tready, beat, push, mem) ==
  /\ HostEdge(mem)
  /\ RqEdge(tready, completed_tags_r, ports, push, beat.keep)
  /\ RcEdge(beat, current_tags_r, size_tags_r)
  /\ ManagerEdge(mem, end_of_operation, update_latency_r, bytes_req_r, bytes_comp_r)
  /\ T!RcStreamEdge(beat)
  /\ T!DueEdge(tready, beat)
  /\ T!RqStreamEdge(tready)
  /\ T!IssuedEdge(tready, beat)
  /\ measured' = IF update_latency_r THEN [req |-> bytes_req_r, comp |-> bytes_comp_r]
                 ELSE measured

(* A new run of the benchmark, after restart.sh (user reset, then the      *)
(* driver is loaded again) or straight away.                               *)
NewRun ==
  /\ pc = "number_of_tlps"
  /\ pc' = "window"
  /\ index' = 0
  /\ request' = NoRequest
  /\ IF RestartFirst
     THEN /\ T!Quiescent
          /\ RqReset /\ RcReset /\ ManagerReset
          /\ ldescriptor' = 0
          /\ rqLeft' = 0
          /\ issued' = T!NothingIssued
          /\ gap' = BackToBackGap
          /\ measured' = NoStats
          /\ UNCHANGED <<due, rcTlp>>
     ELSE UNCHANGED <<rqVars, rcVars, managerVars, due, rcTlp, rqLeft, issued,
                      ldescriptor, gap, measured>>

Next ==
  \/ \E mem \in Accesses, tready \in BOOLEAN, beat \in T!Beats, push \in Pushes :
       ClockEdge(tready, beat, push, mem)
  \/ NewRun

Spec == Init /\ [][Next]_logicVars

(* As in DmaTransfer: the PCIe core accepts, the host memory answers, data *)
(* keeps coming.  The software never stops polling and is not stopped.     *)
ReadyEdge == \E mem \in Accesses, beat \in T!Beats, push \in Pushes :
               ClockEdge(TRUE, beat, push, mem)

AnswerEdge ==
  \E mem \in Accesses, tready \in BOOLEAN, beat \in T!Beats, push \in Pushes :
    beat.tvalid /\ ClockEdge(tready, beat, push, mem)

DataEdge ==
  \E mem \in Accesses, tready \in BOOLEAN, beat \in T!Beats, push \in Pushes :
    push > 0 /\ ClockEdge(tready, beat, push, mem)

SoftwareEdge ==
  \E mem \in Accesses, tready \in BOOLEAN, beat \in T!Beats, push \in Pushes :
    (gap > 0 \/ mem # NoAccess) /\ ClockEdge(tready, beat, push, mem)

FairSpec ==
  /\ Spec
  /\ WF_logicVars(ReadyEdge) /\ WF_logicVars(AnswerEdge)
  /\ WF_logicVars(DataEdge) /\ WF_logicVars(SoftwareEdge)

-----------------------------------------------------------------------------
(* Properties.                                                             *)

RequestType == [c2s : BOOLEAN, s2c : BOOLEAN, SIZE : Nat, TLPS : Nat]

(* Every register of the three parts and the state of the software.        *)
TypeOK ==
  /\ RqTypeOK /\ RcTypeOK /\ ManagerTypeOK /\ T!EnvTypeOK
  /\ pc \in {"window", "number_of_tlps", "size", "control",
             "complete_until_descriptor", "enable", "poll", "status"}
  /\ request \in RequestType
  /\ index \in 0 .. C_NUM_DESCRIPTORS
  /\ ldescriptor \in Descriptors
  /\ gap \in 0 .. BackToBackGap
  /\ measured \in StatsType

(* The manager, driven by the driver's sequence of register writes, keeps  *)
(* the contract under which the data path was checked: no port moves while *)
(* an operation runs, and VALID_ENGINE rises only when everything derived  *)
(* from the ports has settled (the size takes six cycles to get there).    *)
DataPathContract == T!Spec

Quiet == wr_state = "IDLE" /\ ~VALID_ENGINE /\ T!Quiescent

(* Whatever runs is what the software last wrote: the descriptor at the    *)
(* index it wrote, with its size, direction and number of TLPs             *)
(* (dma_engine_manager, active_index_descriptor_r against ldescriptor).    *)
RunsWhatWasWritten ==
  wr_state # "IDLE" =>
    /\ active_index_descriptor_r = index
    /\ boundaries = BoundariesOf([ports EXCEPT !.SIZE = request.SIZE])
    /\ capabilities_r = [c2s |-> request.c2s, s2c |-> request.s2c]
    /\ number_tlps_r = request.TLPS

(* A running operation uses the size of the active descriptor: the start   *)
(* has waited until the descriptor memory delivered it.                    *)
UsesActiveDescriptor ==
  wr_state # "IDLE" =>
    boundaries = BoundariesOf([ports EXCEPT
                                 !.SIZE = size_memory[active_index_descriptor_r]])

(* When the software reads the status of descriptor index + 1, it finds    *)
(* what the engine has published for the operation it has just waited for. *)
ReadsOwnStatistics ==
  pc = "status" => stats_memory[(index + 1) % C_NUM_DESCRIPTORS] = measured

(* "@return 0 if the operation could be completed successfully": when      *)
(* writeDMADescriptor returns from an operation that reads, and unmaps its *)
(* buffer, nothing of it is left in the engine or on the way.  For a pure  *)
(* write this does not hold: its last beat may still wait for TREADY.      *)
ReturnMeansComplete == pc = "status" /\ request.s2c => Quiet

(* The driver's poll comes to its end.                                     *)
PollEnds == pc = "poll" ~> pc # "poll"
=============================================================================
