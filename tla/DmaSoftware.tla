---------------------------- MODULE DmaSoftware -----------------------------
(***************************************************************************)
(* The software that drives dma_logic.v through the engine manager: the    *)
(* benchmark loop and the driver's writeDMADescriptor and                  *)
(* readDMADescriptor, one register access at a time.  DmaLogic puts the    *)
(* data path behind the ports that result.                                 *)
(***************************************************************************)
EXTENDS DmaRqLogic, DmaEngineManager

CONSTANTS
  Requests,          \* descriptors software asks for
  Windows,           \* window sizes the benchmark sets, once per run
  RestartFirst,      \* is restart.sh executed before every benchmark run?
  Chaining,          \* may descriptors be queued with enable = 0?
  MayTimeOut,        \* may the driver stop polling after ten seconds?
  BackToBackGap      \* clock cycles between two accesses, at least

ASSUME SoftwareAssumption ==
  /\ Requests \subseteq [c2s : BOOLEAN, s2c : BOOLEAN, SIZE : Nat \ {0}, TLPS : Nat]
  /\ RestartFirst \in BOOLEAN /\ Chaining \in BOOLEAN /\ MayTimeOut \in BOOLEAN
  /\ BackToBackGap \in Nat
  /\ Windows \subseteq 1 .. C_WINDOW_SIZE

VARIABLES
  pc,                           \* the next register access of the software
  request,                      \* the descriptor being processed
  index,                        \* its index, the benchmark's loop variable
  ldescriptor,                  \* the driver's count of descriptors
  gap,                          \* cycles until the completer can access again
  measured                      \* history: what the engine last published

hostVars == <<pc, request, index, ldescriptor, gap, measured>>

(* What the manager shows the data path.                                   *)
ports == [ENGINE_VALID |-> VALID_ENGINE, c2s |-> capabilities_r.c2s,
          s2c |-> capabilities_r.s2c, SIZE |-> DESCRIPTOR_SIZE,
          TLPS |-> number_tlps_r, WINDOW |-> WINDOW_SIZE]

NoRequest == [c2s |-> FALSE, s2c |-> FALSE, SIZE |-> 0, TLPS |-> 0]

HostInit ==
  /\ pc = "window"
  /\ request = NoRequest
  /\ index = 0
  /\ ldescriptor = 0
  /\ gap = 0
  /\ measured = NoStats

-----------------------------------------------------------------------------
(* The software.  Each action is one access to the memory interface; the   *)
(* completer needs BackToBackGap further cycles before the next.           *)

Access(mem, a) == gap = 0 /\ mem = a /\ gap' = BackToBackGap

HostWaits(mem) ==
  /\ mem = NoAccess
  /\ gap' = IF gap = 0 THEN 0 ELSE gap - 1
  /\ UNCHANGED <<pc, request, index, ldescriptor>>

SetWindowSize(mem) ==
  /\ pc = "window"
  /\ \E w \in Windows : Access(mem, WriteTo("window", 0, w))
  /\ pc' = "number_of_tlps"
  /\ UNCHANGED <<request, index, ldescriptor>>

(* writeDMADescriptor, and the iteration of the benchmark that calls it.   *)
WriteNumberOfTlps(mem) ==
  /\ pc = "number_of_tlps"
  /\ index < C_NUM_DESCRIPTORS
  /\ \E r \in Requests : /\ request' = r
                         /\ Access(mem, WriteTo("tlps", 0, r.TLPS))
  /\ pc' = "size"
  /\ UNCHANGED <<index, ldescriptor>>

WriteSize(mem) ==
  /\ pc = "size"
  /\ Access(mem, WriteTo("size", index, request.SIZE))
  /\ pc' = "control"
  /\ UNCHANGED <<request, index, ldescriptor>>

Control(enable) == [enable |-> enable, c2s |-> request.c2s, s2c |-> request.s2c]

WriteControl(mem) ==
  /\ pc = "control"
  /\ Access(mem, WriteControlByte(Control(FALSE)))
  /\ pc' = "complete_until_descriptor"
  /\ UNCHANGED <<request, index, ldescriptor>>

(* Mutant: the count is advanced before it is written.                     *)
WriteLastAdvanced(mem) ==
  /\ pc = "complete_until_descriptor"
  /\ Access(mem, WriteTo("last", 0, (ldescriptor + 1) % C_NUM_DESCRIPTORS))
  /\ ldescriptor' = (ldescriptor + 1) % C_NUM_DESCRIPTORS
  /\ \/ pc' = "enable" /\ UNCHANGED index
     \/ Chaining /\ pc' = "number_of_tlps" /\ index' = index + 1
  /\ UNCHANGED request

WriteLast(mem) ==
  /\ pc = "complete_until_descriptor"
  /\ Access(mem, WriteTo("last", 0, ldescriptor))
  /\ ldescriptor' = (ldescriptor + 1) % C_NUM_DESCRIPTORS
  /\ \/ pc' = "enable" /\ UNCHANGED index
     \/ Chaining /\ pc' = "number_of_tlps" /\ index' = index + 1
  /\ UNCHANGED request

WriteEnable(mem) ==
  /\ pc = "enable"
  /\ Access(mem, WriteControlByte(Control(TRUE)))
  /\ pc' = "poll"
  /\ UNCHANGED <<request, index, ldescriptor>>

Poll(mem) ==
  /\ pc = "poll"
  /\ Access(mem, ReadFrom("control", 0))
  /\ \/ enable_r /\ pc' = "poll"
     \/ (~enable_r \/ MayTimeOut) /\ pc' = "status"
  /\ UNCHANGED <<request, index, ldescriptor>>

(* readDMADescriptor, for index + 1, and the next iteration.               *)
ReadStatus(mem) ==
  /\ pc = "status"
  /\ Access(mem, ReadFrom("stats", (index + 1) % C_NUM_DESCRIPTORS))
  /\ pc' = "number_of_tlps"
  /\ index' = index + 1
  /\ UNCHANGED <<request, ldescriptor>>

HostEdge(mem) ==
  \/ HostWaits(mem)
  \/ SetWindowSize(mem) \/ WriteNumberOfTlps(mem) \/ WriteSize(mem)
  \/ WriteControl(mem) \/ WriteLast(mem) \/ WriteEnable(mem)
  \/ Poll(mem) \/ ReadStatus(mem)

(* Every access the software may make in this cycle.                       *)
Accesses ==
  {NoAccess, ReadFrom("control", 0)}
    \cup {ReadFrom("stats", d) : d \in Descriptors}
    \cup {WriteTo("window", 0, w) : w \in Windows}
    \cup {WriteTo("tlps", 0, r.TLPS) : r \in Requests}
    \cup {WriteTo("last", 0, d) : d \in Descriptors}
    \cup {WriteTo("size", index, request.SIZE)}
    \cup {WriteControlByte(Control(e)) : e \in BOOLEAN}
=============================================================================
