------------------------- MODULE DmaSoftwareProofs --------------------------
(***************************************************************************)
(* One invariant of software and manager, for any number of descriptors,   *)
(* any requests, windows and timing of the accesses: where the software is *)
(* in its sequence of accesses tells in which phase the engine is, and how *)
(* far the size, the window and the statistics have come through their     *)
(* pipelines.  DmaLogicProofs puts it to use.                              *)
(***************************************************************************)
EXTENDS DmaSoftware, TLAPS

(* How the engine is used: restart.sh before every run, one descriptor at  *)
(* a time, polled to its end; the completer cannot access in consecutive   *)
(* cycles; there is more than one descriptor.                              *)
Discipline ==
  /\ RestartFirst /\ ~Chaining /\ ~MayTimeOut
  /\ BackToBackGap >= 1 /\ C_NUM_DESCRIPTORS >= 2

SizeValues == {0} \cup {r.SIZE : r \in Requests}
TlpValues == {0} \cup {r.TLPS : r \in Requests}
WindowValues == Windows \cup {C_WINDOW_SIZE}
SoftwareSteps == {"window", "number_of_tlps", "size", "control",
                  "complete_until_descriptor", "enable", "poll", "status"}

HostTypes ==
  /\ pc \in SoftwareSteps
  /\ index \in 0 .. C_NUM_DESCRIPTORS
  /\ gap \in 0 .. BackToBackGap
  /\ request \in Requests \cup {NoRequest}
  /\ ldescriptor \in Descriptors

RegisterTypes ==
  /\ enable_r \in BOOLEAN /\ stop_r \in BOOLEAN /\ cl_engine_stats_r \in BOOLEAN
  /\ VALID_ENGINE \in BOOLEAN
  /\ capabilities_r \in [c2s : BOOLEAN, s2c : BOOLEAN]
  /\ number_tlps_r \in TlpValues
  /\ tags_window_r \in WindowValues /\ WINDOW_SIZE \in WindowValues
  /\ last_index_descriptor_r \in Descriptors
  /\ active_index_descriptor_r \in Descriptors
  /\ active_index_descriptor_pipe_r \in Descriptors

SizePorts == [en : BOOLEAN, index : Descriptors, data : SizeValues]

MemoryTypes ==
  /\ size_port \in SizePorts
  /\ size_memory \in [Descriptors -> SizeValues]
  /\ doutb_size \in [latch : SizeValues, out : SizeValues]
  /\ DESCRIPTOR_SIZE \in SizeValues
  /\ DOMAIN stats_memory = Descriptors

LogicTypes == HostTypes /\ RegisterTypes /\ MemoryTypes

-----------------------------------------------------------------------------
(* The phases of the engine.                                               *)

Writing == {"INIT_WRITE", "WRITE"}

(* The requester rests, and no operation ends in this cycle.               *)
Idle == wr_state = "IDLE" /\ wr_state_pipe_r \notin Writing

(* No operation; the active index has been stable for a cycle.             *)
Off ==
  /\ ~enable_r /\ ~stop_r /\ ~cl_engine_stats_r /\ ~VALID_ENGINE
  /\ Idle /\ ~update_latency_r
  /\ active_index_descriptor_r = active_index_descriptor_pipe_r

(* The cycle after the enable bit has been written.                        *)
Armed ==
  /\ enable_r /\ ~stop_r /\ cl_engine_stats_r /\ ~VALID_ENGINE
  /\ Idle /\ ~update_latency_r
  /\ active_index_descriptor_r = active_index_descriptor_pipe_r

Running ==
  /\ enable_r /\ ~stop_r /\ ~cl_engine_stats_r /\ VALID_ENGINE
  /\ ~update_latency_r
  /\ active_index_descriptor_r = active_index_descriptor_pipe_r

(* The cycle after the end, in which the statistics are published.         *)
Ended ==
  /\ enable_r /\ stop_r /\ ~cl_engine_stats_r /\ ~VALID_ENGINE
  /\ Idle /\ update_latency_r
  /\ active_index_descriptor_r # active_index_descriptor_pipe_r

NextIndex == (index + 1) % C_NUM_DESCRIPTORS

Waited == gap < BackToBackGap

Preparing == {"window", "number_of_tlps", "size", "control",
              "complete_until_descriptor", "enable"}

Started == SoftwareSteps \ {"window", "number_of_tlps"}

(* Where the software is tells the phase and the active descriptor.        *)
PhaseInv ==
  /\ pc \in Preparing => Off /\ active_index_descriptor_r = index % C_NUM_DESCRIPTORS
  /\ pc = "poll" =>
       \/ Armed /\ active_index_descriptor_r = index /\ ~Waited
       \/ Running /\ active_index_descriptor_r = index
       \/ Ended /\ active_index_descriptor_r = NextIndex
       \/ Off /\ active_index_descriptor_r = NextIndex
  /\ pc = "status" => Off /\ active_index_descriptor_r = NextIndex

(* The driver's count and the benchmark's index go together.               *)
IndexInv ==
  /\ pc \in Started => index < C_NUM_DESCRIPTORS /\ request \in Requests
  /\ ldescriptor = IF pc \in {"enable", "poll", "status"} THEN NextIndex
                   ELSE index % C_NUM_DESCRIPTORS
  /\ pc \in {"enable", "poll"} => last_index_descriptor_r = index

(* The operation has been described and is not over.                       *)
Described == pc = "enable" \/ (pc = "poll" /\ (Armed \/ Running))

(* The size on its way: port register, memory, latch, output register,     *)
(* DESCRIPTOR_SIZE.                                                        *)
SizeInv ==
  /\ pc = "control" /\ ~Waited =>
       size_port = [en |-> TRUE, index |-> index, data |-> request.SIZE]
  /\ (pc = "control" /\ Waited) \/ pc \in {"complete_until_descriptor", "enable", "poll"} =>
       ~size_port.en /\ size_memory[index] = request.SIZE
  /\ pc = "complete_until_descriptor" =>
       /\ doutb_size.latch = request.SIZE
       /\ Waited => doutb_size.out = request.SIZE
  /\ Described => /\ doutb_size.latch = request.SIZE /\ doutb_size.out = request.SIZE
                  /\ DESCRIPTOR_SIZE = request.SIZE

(* The other ports, and the boundaries computed from them.                 *)
PortsInv ==
  /\ pc \in Started => number_tlps_r = request.TLPS
  /\ pc \in {"complete_until_descriptor", "enable", "poll", "status"} =>
       capabilities_r = [c2s |-> request.c2s, s2c |-> request.s2c]
  /\ Described /\ (pc = "enable" => Waited) => boundaries = BoundariesOf(ports)

(* The window on its way to the masks.                                     *)
WindowInv ==
  /\ pc = "window" => tags_window_r = C_WINDOW_SIZE /\ WINDOW_SIZE = C_WINDOW_SIZE
  /\ tags_window_r <= WINDOW_SIZE
  /\ pc # "window" /\ (pc = "number_of_tlps" => Waited) => WINDOW_SIZE = tags_window_r
  /\ pc \in Started =>
       /\ window_size_r = WINDOW_SIZE
       /\ {j \in Tags \ {0} : j >= WINDOW_SIZE} \subseteq current_tags_r
       /\ (pc = "size" => Waited) => window_size_mask_r = WINDOW_SIZE

(* The statistics on their way to the memory.                              *)
StatsInv ==
  /\ pc = "poll" /\ Off => IF stats_port.en THEN stats_port.data = measured
                           ELSE stats_memory[NextIndex] = measured
  /\ pc = "status" => ~stats_port.en /\ stats_memory[NextIndex] = measured

LogicInv ==
  /\ LogicTypes /\ PhaseInv /\ IndexInv /\ SizeInv /\ PortsInv /\ WindowInv /\ StatsInv

-----------------------------------------------------------------------------
(* What single edges do.                                                   *)

(* The descriptors follow each other on a ring of at least two.            *)
LEMMA NextDescriptor ==
  ASSUME Discipline, NEW d \in Descriptors
  PROVE  /\ d % C_NUM_DESCRIPTORS = d
         /\ (d + 1) % C_NUM_DESCRIPTORS \in Descriptors
         /\ (d + 1) % C_NUM_DESCRIPTORS # d
<1>1. /\ C_NUM_DESCRIPTORS \in Nat \ {0} /\ C_NUM_DESCRIPTORS >= 2
      /\ d \in 0 .. C_NUM_DESCRIPTORS - 1
  BY ManagerAssumption, Zenon DEF Discipline, Descriptors
<1>2. d % C_NUM_DESCRIPTORS = d
  BY <1>1, SMT
<1>3. CASE d + 1 < C_NUM_DESCRIPTORS
  <2>1. (d + 1) % C_NUM_DESCRIPTORS = d + 1
    BY <1>1, <1>3, SMT
  <2> QED BY <1>1, <1>2, <1>3, <2>1, SMTT(30) DEF Descriptors
<1>4. CASE d + 1 = C_NUM_DESCRIPTORS
  <2>1. (d + 1) % C_NUM_DESCRIPTORS = 0
    BY <1>1, <1>4, SMT
  <2> QED BY <1>1, <1>2, <1>4, <2>1, SMTT(30) DEF Descriptors
<1> QED BY <1>1, <1>3, <1>4, SMTT(30)

(* The registers an access writes.                                         *)
LEMMA AccessWrites ==
  /\ \A r : ~Writes(NoAccess, r)
  /\ \A a, d, r : ~Writes(ReadFrom(a, d), r)
  /\ \A a, d, n, r : Writes(WriteTo(a, d, n), r) <=> r = a
  /\ \A a, d, n : WriteTo(a, d, n).index = d /\ WriteTo(a, d, n).data = n
  /\ \A b, r : Writes(WriteControlByte(b), r) <=> r = "control"
  /\ \A b : WriteControlByte(b).bits = b
  BY Zenon DEF Writes, NoAccess, ReadFrom, WriteTo, WriteControlByte

(* What the manager sees of an edge of the requester.                      *)
LEMMA RequesterMoves ==
  ASSUME NEW tready \in BOOLEAN, NEW c, NEW p, NEW push, NEW k,
         RqEdge(tready, c, p, push, k)
  PROVE  /\ wr_state_pipe_r' = wr_state
         /\ update_latency_r' => end_of_operation
         /\ end_of_operation => wr_state' = "IDLE" /\ wr_state \notin Writing /\ update_latency_r'
         /\ ~p.ENGINE_VALID /\ wr_state = "IDLE" => wr_state' = "IDLE"
         /\ update_latency_r' \in BOOLEAN
<1>1. wr_state_pipe_r' = wr_state
  BY Zenon DEF RqEdge, FreeRunning
<1>2. /\ update_latency_r' \in BOOLEAN
      /\ update_latency_r' => end_of_operation
      /\ end_of_operation => wr_state \notin Writing /\ update_latency_r'
  BY Zenon DEF RqEdge, FreeRunning, LatencyEdge, end_of_operation, EndOfRead,
     EndOfWrite, Writing
<1>3. ASSUME wr_state = "IDLE", ~p.ENGINE_VALID \/ end_of_operation
      PROVE  wr_state' = "IDLE"
  BY <1>3, Zenon DEF RqEdge, StartWrite, StartRead, StayIdle, StartCondition,
     WriteWaits, WriteHeader, WriteData, WriteLastData, ReadWaits, ReadRequest, WaitRead
<1>4. ASSUME wr_state = "WAIT_READ", end_of_operation
      PROVE  wr_state' = "IDLE"
  <2>1. EndOfRead
    BY <1>4, Zenon DEF end_of_operation, EndOfWrite
  <2> QED BY <1>4, <2>1, Zenon DEF RqEdge, StartWrite, StartRead, StayIdle, IdleEdge,
     WriteWaits, WriteHeader, WriteData, WriteLastData, ReadWaits, ReadRequest, WaitRead
<1>5. end_of_operation => wr_state \in {"IDLE", "WAIT_READ"}
  BY Zenon DEF end_of_operation, EndOfRead, EndOfWrite
<1> QED BY <1>1, <1>2, <1>3, <1>4, <1>5, Zenon

(* What the ports have become in the registers of the requester.           *)
LEMMA PortsArrive ==
  ASSUME NEW tready \in BOOLEAN, NEW c, NEW p, NEW push, NEW k,
         RqEdge(tready, c, p, push, k)
  PROVE  /\ boundaries' = BoundariesOf(p) /\ window_size_r' = p.WINDOW
         /\ window_size_mask_r' = MinOf(window_size_r, C_WINDOW_SIZE)
         /\ {j \in Tags \ {0} : j >= p.WINDOW} \subseteq current_tags_r'
  BY Zenon DEF RqEdge, FreeRunning, TagsEdge

(* The phases follow each other.                                           *)
LEMMA EngineMoves ==
  ASSUME Discipline, RegisterTypes,
         NEW mem, NEW tready \in BOOLEAN, NEW c, NEW push, NEW k, NEW req, NEW comp,
         RqEdge(tready, c, ports, push, k),
         ManagerEdge(mem, end_of_operation, update_latency_r, req, comp)
  PROVE  /\ Off /\ (Writes(mem, "control") => ~mem.bits.enable) =>
              Off' /\ active_index_descriptor_r' = active_index_descriptor_r
         /\ Off /\ Writes(mem, "control") /\ mem.bits.enable =>
              Armed' /\ active_index_descriptor_r' = active_index_descriptor_r
         /\ Armed /\ ~Writes(mem, "control") =>
              Running' /\ active_index_descriptor_r' = active_index_descriptor_r
         /\ Running /\ ~Writes(mem, "control") /\ ~end_of_operation =>
              Running' /\ active_index_descriptor_r' = active_index_descriptor_r
         /\ Running /\ ~Writes(mem, "control") /\ end_of_operation /\ AtLastDescriptor =>
              /\ Ended'
              /\ active_index_descriptor_r' = (active_index_descriptor_r + 1) % C_NUM_DESCRIPTORS
         /\ Ended /\ ~Writes(mem, "control") =>
              Off' /\ active_index_descriptor_r' = active_index_descriptor_r
<1>1. /\ ports.ENGINE_VALID = VALID_ENGINE
      /\ wr_state_pipe_r' = wr_state
      /\ update_latency_r' => end_of_operation
      /\ end_of_operation => wr_state' = "IDLE" /\ wr_state \notin Writing /\ update_latency_r'
      /\ ~VALID_ENGINE /\ wr_state = "IDLE" => wr_state' = "IDLE"
  <2>1. ports.ENGINE_VALID = VALID_ENGINE
    BY Zenon DEF ports
  <2> QED BY <2>1, RequesterMoves, Zenon
<1>2. Idle => ~end_of_operation
  BY Zenon DEF Idle, end_of_operation, EndOfRead, EndOfWrite, Writing
<1>3. "IDLE" \notin Writing
  BY Zenon DEF Writing
<1>4. /\ Idle /\ ~VALID_ENGINE => Idle' /\ ~update_latency_r'
      /\ end_of_operation => Idle'
  BY <1>1, <1>2, <1>3, Zenon DEF Idle
<1>5. /\ enable_r' = IF Writes(mem, "control") THEN mem.bits.enable ELSE enable_r /\ ~stop_r
      /\ cl_engine_stats_r' = (Writes(mem, "control") /\ mem.bits.enable)
      /\ stop_r' = (~cl_engine_stats_r /\ end_of_operation /\ AtLastDescriptor)
      /\ active_index_descriptor_r' = IF end_of_operation
                                      THEN (active_index_descriptor_r + 1) % C_NUM_DESCRIPTORS
                                      ELSE active_index_descriptor_r
      /\ active_index_descriptor_pipe_r' = active_index_descriptor_r
      /\ VALID_ENGINE' = IF end_of_operation THEN ~AtLastDescriptor
                         ELSE active_index_descriptor_r = active_index_descriptor_pipe_r /\ enable_r
  BY Zenon DEF ManagerEdge, RegistersEdge, StopEdge, ActiveIndexEdge, ValidEdge
<1>6. (active_index_descriptor_r + 1) % C_NUM_DESCRIPTORS # active_index_descriptor_r
  BY NextDescriptor, Zenon DEF RegisterTypes
<1>7. ASSUME Off, Writes(mem, "control") => ~mem.bits.enable
      PROVE  Off' /\ active_index_descriptor_r' = active_index_descriptor_r
  BY <1>2, <1>4, <1>5, <1>7, Zenon DEF Off
<1>8. ASSUME Off, Writes(mem, "control"), mem.bits.enable
      PROVE  Armed' /\ active_index_descriptor_r' = active_index_descriptor_r
  BY <1>2, <1>4, <1>5, <1>8, Zenon DEF Off, Armed
<1>9. ASSUME Armed, ~Writes(mem, "control")
      PROVE  Running' /\ active_index_descriptor_r' = active_index_descriptor_r
  BY <1>2, <1>4, <1>5, <1>9, Zenon DEF Armed, Running
<1>10. ASSUME Running, ~Writes(mem, "control"), ~end_of_operation
       PROVE  Running' /\ active_index_descriptor_r' = active_index_descriptor_r
  BY <1>1, <1>5, <1>10, Zenon DEF Running
<1>11. ASSUME Running, ~Writes(mem, "control"), end_of_operation, AtLastDescriptor
       PROVE  /\ Ended'
              /\ active_index_descriptor_r' = (active_index_descriptor_r + 1) % C_NUM_DESCRIPTORS
  BY <1>1, <1>4, <1>5, <1>6, <1>11, Zenon DEF Running, Ended
<1>12. ASSUME Ended, ~Writes(mem, "control")
       PROVE  Off' /\ active_index_descriptor_r' = active_index_descriptor_r
  BY <1>2, <1>4, <1>5, <1>12, Zenon DEF Ended, Off
<1> QED BY <1>7, <1>8, <1>9, <1>10, <1>11, <1>12, Zenon

(* An access needs the completer, and keeps it busy.                       *)
LEMMA GapMoves ==
  ASSUME Discipline, HostTypes, NEW mem, HostEdge(mem)
  PROVE  /\ HostWaits(mem) => Waited'
         /\ ~HostWaits(mem) => Waited /\ ~Waited' /\ gap' = BackToBackGap
         /\ gap' \in 0 .. BackToBackGap
<1>1. gap \in 0 .. BackToBackGap /\ BackToBackGap \in Nat /\ BackToBackGap >= 1
  BY SoftwareAssumption, Zenon DEF HostTypes, Discipline
<1>2. HostWaits(mem) => Waited' /\ gap' \in 0 .. BackToBackGap
  BY <1>1, SMTT(30) DEF HostWaits, Waited
<1>3. ~HostWaits(mem) => gap = 0 /\ gap' = BackToBackGap
  BY ZenonT(30) DEF HostEdge, SetWindowSize, WriteNumberOfTlps, WriteSize,
     WriteControl, WriteLast, WriteEnable, Poll, ReadStatus, Access
<1> QED BY <1>1, <1>2, <1>3, SMTT(30) DEF Waited

(* The registers that each access writes, and what the driver knows.       *)
LEMMA HostWrites ==
  ASSUME NEW mem, HostEdge(mem)
  PROVE  /\ Writes(mem, "control") => WriteControl(mem) \/ WriteEnable(mem)
         /\ Writes(mem, "last") => WriteLast(mem)
         /\ Writes(mem, "tlps") => WriteNumberOfTlps(mem)
         /\ Writes(mem, "window") => SetWindowSize(mem)
         /\ Writes(mem, "size") => WriteSize(mem)
         /\ WriteControl(mem) => Writes(mem, "control") /\ mem.bits = Control(FALSE)
         /\ WriteEnable(mem) => Writes(mem, "control") /\ mem.bits = Control(TRUE)
         /\ WriteLast(mem) => Writes(mem, "last") /\ mem.data = ldescriptor
         /\ WriteNumberOfTlps(mem) => Writes(mem, "tlps") /\ mem.data = request'.TLPS
         /\ SetWindowSize(mem) => Writes(mem, "window") /\ mem.data \in Windows
         /\ WriteSize(mem) => Writes(mem, "size") /\ mem.index = index /\ mem.data = request.SIZE
<1>1. /\ HostWaits(mem) => mem = NoAccess
      /\ SetWindowSize(mem) => \E w \in Windows : mem = WriteTo("window", 0, w)
      /\ WriteNumberOfTlps(mem) => mem = WriteTo("tlps", 0, request'.TLPS)
      /\ WriteSize(mem) => mem = WriteTo("size", index, request.SIZE)
      /\ WriteControl(mem) => mem = WriteControlByte(Control(FALSE))
      /\ WriteLast(mem) => mem = WriteTo("last", 0, ldescriptor)
      /\ WriteEnable(mem) => mem = WriteControlByte(Control(TRUE))
      /\ Poll(mem) => mem = ReadFrom("control", 0)
      /\ ReadStatus(mem) => mem = ReadFrom("stats", (index + 1) % C_NUM_DESCRIPTORS)
  BY Zenon DEF HostWaits, SetWindowSize, WriteNumberOfTlps, WriteSize, WriteControl,
     WriteLast, WriteEnable, Poll, ReadStatus, Access
<1>2. /\ WriteControl(mem) => /\ Writes(mem, "control") /\ mem.bits = Control(FALSE)
                             /\ \A r : Writes(mem, r) => r = "control"
      /\ WriteEnable(mem) => /\ Writes(mem, "control") /\ mem.bits = Control(TRUE)
                            /\ \A r : Writes(mem, r) => r = "control"
  <2>1. ASSUME NEW b, mem = WriteControlByte(b)
        PROVE  /\ Writes(mem, "control") /\ mem.bits = b
               /\ \A r : Writes(mem, r) => r = "control"
    BY <2>1, AccessWrites, Zenon
  <2> QED BY <1>1, <2>1, Zenon
<1>3. ASSUME NEW a, NEW d, NEW n, mem = WriteTo(a, d, n)
      PROVE  /\ Writes(mem, a) /\ mem.index = d /\ mem.data = n
             /\ \A r : Writes(mem, r) => r = a
  BY <1>3, AccessWrites, SMTT(30)
<1>4. /\ WriteLast(mem) => /\ Writes(mem, "last") /\ mem.data = ldescriptor
                          /\ \A r : Writes(mem, r) => r = "last"
      /\ WriteNumberOfTlps(mem) => /\ Writes(mem, "tlps") /\ mem.data = request'.TLPS
                                  /\ \A r : Writes(mem, r) => r = "tlps"
  BY <1>1, <1>3, Zenon
<1>5. /\ SetWindowSize(mem) => /\ Writes(mem, "window") /\ mem.data \in Windows
                              /\ \A r : Writes(mem, r) => r = "window"
      /\ WriteSize(mem) => /\ Writes(mem, "size") /\ mem.index = index /\ mem.data = request.SIZE
                          /\ \A r : Writes(mem, r) => r = "size"
  BY <1>1, <1>3, Zenon
<1>6. HostWaits(mem) \/ Poll(mem) \/ ReadStatus(mem) => \A r : ~Writes(mem, r)
  <2>1. ASSUME NEW a, NEW d, mem = NoAccess \/ mem = ReadFrom(a, d)
        PROVE  \A r : ~Writes(mem, r)
    BY <2>1, AccessWrites, SMTT(30)
  <2> QED BY <1>1, <2>1, Zenon
<1>7. /\ Writes(mem, "control") => WriteControl(mem) \/ WriteEnable(mem)
      /\ Writes(mem, "last") => WriteLast(mem)
      /\ Writes(mem, "tlps") => WriteNumberOfTlps(mem)
      /\ Writes(mem, "window") => SetWindowSize(mem)
      /\ Writes(mem, "size") => WriteSize(mem)
  BY <1>2, <1>4, <1>5, <1>6, ZenonT(30) DEF HostEdge
<1> QED BY <1>2, <1>4, <1>5, <1>7, Zenon

(* The order of the accesses.                                              *)
LEMMA HostOrder ==
  ASSUME Discipline, NEW mem, HostEdge(mem)
  PROVE  \/ HostWaits(mem) /\ pc' = pc /\ UNCHANGED <<request, index, ldescriptor>>
         \/ SetWindowSize(mem) /\ pc = "window" /\ pc' = "number_of_tlps"
              /\ UNCHANGED <<request, index, ldescriptor>>
         \/ WriteNumberOfTlps(mem) /\ pc = "number_of_tlps" /\ pc' = "size"
              /\ index < C_NUM_DESCRIPTORS /\ request' \in Requests
              /\ UNCHANGED <<index, ldescriptor>>
         \/ WriteSize(mem) /\ pc = "size" /\ pc' = "control"
              /\ UNCHANGED <<request, index, ldescriptor>>
         \/ WriteControl(mem) /\ pc = "control" /\ pc' = "complete_until_descriptor"
              /\ UNCHANGED <<request, index, ldescriptor>>
         \/ WriteLast(mem) /\ pc = "complete_until_descriptor" /\ pc' = "enable"
              /\ ldescriptor' = (ldescriptor + 1) % C_NUM_DESCRIPTORS
              /\ UNCHANGED <<request, index>>
         \/ WriteEnable(mem) /\ pc = "enable" /\ pc' = "poll"
              /\ UNCHANGED <<request, index, ldescriptor>>
         \/ Poll(mem) /\ pc = "poll"
              /\ ((enable_r /\ pc' = "poll") \/ (~enable_r /\ pc' = "status"))
              /\ UNCHANGED <<request, index, ldescriptor>>
         \/ ReadStatus(mem) /\ pc = "status" /\ pc' = "number_of_tlps"
              /\ index' = index + 1 /\ UNCHANGED <<request, ldescriptor>>
<1>1. ~Chaining /\ ~MayTimeOut
  BY Zenon DEF Discipline
<1>2. CASE WriteLast(mem)
  BY <1>1, <1>2, Zenon DEF WriteLast
<1>3. CASE Poll(mem)
  BY <1>1, <1>3, Zenon DEF Poll
<1>4. CASE HostWaits(mem) \/ SetWindowSize(mem) \/ WriteNumberOfTlps(mem) \/ WriteSize(mem)
           \/ WriteControl(mem) \/ WriteEnable(mem) \/ ReadStatus(mem)
  BY <1>4, ZenonT(30) DEF HostWaits, SetWindowSize, WriteNumberOfTlps, WriteSize,
     WriteControl, WriteEnable, ReadStatus
<1> QED BY <1>2, <1>3, <1>4, Zenon DEF HostEdge

-----------------------------------------------------------------------------
(* One clock edge keeps the invariant.                                     *)

(* The state of the software has its type.                                 *)
LEMMA HostTypesStep ==
  ASSUME Discipline, HostTypes, IndexInv, NEW mem, HostEdge(mem)
  PROVE  HostTypes'
<1>1. gap' \in 0 .. BackToBackGap
  BY GapMoves, Zenon
<1>2. pc' \in SoftwareSteps
  BY HostOrder, Zenon DEF SoftwareSteps, HostTypes
<1>3. request' \in Requests \cup {NoRequest}
  BY HostOrder, Zenon DEF HostTypes
<1>4. ldescriptor' \in Descriptors
  BY HostOrder, NextDescriptor, Zenon DEF HostTypes
<1>5. index' \in 0 .. C_NUM_DESCRIPTORS
  <2>1. index \in 0 .. C_NUM_DESCRIPTORS /\ C_NUM_DESCRIPTORS \in Nat
        /\ (pc = "status" => index < C_NUM_DESCRIPTORS)
    BY ManagerAssumption, Zenon DEF HostTypes, IndexInv, Started, SoftwareSteps
  <2>2. index' = index \/ (pc = "status" /\ index' = index + 1)
    BY HostOrder, Zenon
  <2> QED BY <2>1, <2>2, SMTT(30)
<1> QED BY <1>1, <1>2, <1>3, <1>4, <1>5, Zenon DEF HostTypes

(* What a request consists of.                                             *)
LEMMA RequestFields ==
  ASSUME NEW r \in Requests
  PROVE  /\ r.c2s \in BOOLEAN /\ r.s2c \in BOOLEAN /\ r.SIZE \in Nat \ {0} /\ r.TLPS \in Nat
         /\ r.SIZE \in SizeValues /\ r.TLPS \in TlpValues
  BY SoftwareAssumption, Zenon DEF SizeValues, TlpValues

(* The registers of the manager have their types.                          *)
LEMMA RegisterTypesStep ==
  ASSUME Discipline, HostTypes, RegisterTypes, IndexInv, NEW mem, HostEdge(mem),
         NEW ended \in BOOLEAN, NEW update, NEW req, NEW comp,
         ManagerEdge(mem, ended, update, req, comp)
  PROVE  RegisterTypes'
<1>1. /\ enable_r' \in BOOLEAN /\ stop_r' \in BOOLEAN /\ cl_engine_stats_r' \in BOOLEAN
      /\ VALID_ENGINE' \in BOOLEAN
  <2>1. Writes(mem, "control") => mem.bits.enable \in BOOLEAN
    <3>1. \A b \in BOOLEAN : Control(b).enable = b
      BY Zenon DEF Control
    <3>2. Writes(mem, "control") => mem.bits = Control(FALSE) \/ mem.bits = Control(TRUE)
      BY HostWrites, ZenonT(30)
    <3> QED BY <3>1, <3>2, Zenon
  <2>2. enable_r' \in BOOLEAN
    BY <2>1, Zenon DEF ManagerEdge, RegistersEdge, RegisterTypes
  <2>3. VALID_ENGINE' \in BOOLEAN
    BY ZenonT(30) DEF ManagerEdge, ValidEdge, RegisterTypes
  <2> QED BY <2>2, <2>3, Zenon DEF ManagerEdge, RegistersEdge, StopEdge
<1>2. capabilities_r' \in [c2s : BOOLEAN, s2c : BOOLEAN]
  <2>1. Writes(mem, "control") => request \in Requests /\ \E b \in BOOLEAN : mem.bits = Control(b)
    BY HostWrites, HostOrder, ZenonT(30) DEF IndexInv, Started, SoftwareSteps,
       WriteControl, WriteEnable
  <2>2. Writes(mem, "control") => mem.bits.c2s \in BOOLEAN /\ mem.bits.s2c \in BOOLEAN
    <3>1. \A b \in BOOLEAN : Control(b).c2s = request.c2s /\ Control(b).s2c = request.s2c
      BY Zenon DEF Control
    <3>2. request \in Requests => request.c2s \in BOOLEAN /\ request.s2c \in BOOLEAN
      BY RequestFields, Zenon
    <3> QED BY <2>1, <3>1, <3>2, Zenon
  <2> QED BY <2>2, Zenon DEF ManagerEdge, RegistersEdge, RegisterTypes
<1>3. number_tlps_r' \in TlpValues
  <2>1. Writes(mem, "tlps") => request' \in Requests /\ mem.data = request'.TLPS
    BY HostWrites, Zenon DEF WriteNumberOfTlps
  <2>2. Writes(mem, "tlps") => mem.data \in TlpValues
    BY <2>1, RequestFields, Zenon
  <2> QED BY <2>2, Zenon DEF ManagerEdge, RegistersEdge, RegisterTypes
<1>4. tags_window_r' \in WindowValues /\ WINDOW_SIZE' \in WindowValues
  BY HostWrites, ZenonT(30) DEF ManagerEdge, RegistersEdge, RegisterTypes, WindowValues
<1>5. last_index_descriptor_r' \in Descriptors
  BY HostWrites, ZenonT(30) DEF ManagerEdge, RegistersEdge, RegisterTypes, HostTypes
<1>6. /\ active_index_descriptor_r' \in Descriptors
      /\ active_index_descriptor_pipe_r' \in Descriptors
  BY NextDescriptor, Zenon DEF ManagerEdge, ActiveIndexEdge, RegisterTypes
<1> QED BY <1>1, <1>2, <1>3, <1>4, <1>5, <1>6, Zenon DEF RegisterTypes

(* The descriptor memories hold sizes.                                     *)
LEMMA MemoryTypesStep ==
  ASSUME HostTypes, RegisterTypes, MemoryTypes, IndexInv, NEW mem, HostEdge(mem),
         NEW ended, NEW update, NEW req, NEW comp,
         ManagerEdge(mem, ended, update, req, comp)
  PROVE  MemoryTypes'
<1>1. size_port' \in SizePorts
  <2>1. Writes(mem, "size") => /\ request \in Requests /\ index \in Descriptors
                               /\ mem.index = index /\ mem.data = request.SIZE
    <3>1. Writes(mem, "size") => /\ pc = "size" /\ mem.index = index /\ mem.data = request.SIZE
      BY HostWrites, ZenonT(30) DEF WriteSize
    <3> QED BY <3>1, ManagerAssumption, SMTT(30) DEF IndexInv, Started, SoftwareSteps, HostTypes,
       Descriptors
  <2>2. Writes(mem, "size") => mem.index \in Descriptors /\ mem.data \in SizeValues
    BY <2>1, RequestFields, Zenon
  <2>3. IdleSizePort \in SizePorts
    BY ManagerAssumption, SMTT(30) DEF IdleSizePort, SizePorts, Descriptors, SizeValues
  <2> QED BY <2>2, <2>3, Zenon DEF ManagerEdge, SizeEdge, SizePorts
<1>2. /\ size_port.data \in SizeValues /\ size_port.index \in Descriptors
      /\ doutb_size.latch \in SizeValues /\ doutb_size.out \in SizeValues
  BY Zenon DEF MemoryTypes, SizePorts
<1>3. [size_memory EXCEPT ![size_port.index] = size_port.data] \in [Descriptors -> SizeValues]
  BY <1>2, Zenon DEF MemoryTypes
<1>4. size_memory' \in [Descriptors -> SizeValues]
  BY <1>3, Zenon DEF ManagerEdge, SizeEdge, MemoryTypes
<1>5. doutb_size' \in [latch : SizeValues, out : SizeValues]
  <2>1. PICK value \in SizeValues : doutb_size' = [latch |-> value, out |-> doutb_size.latch]
    BY <1>3, Zenon DEF ManagerEdge, SizeEdge, MemoryTypes, RegisterTypes
  <2> QED BY <1>2, <2>1, Zenon
<1>6. DESCRIPTOR_SIZE' \in SizeValues
  BY <1>2, Zenon DEF ManagerEdge, SizeEdge
<1>7. DOMAIN stats_memory' = Descriptors
  BY Zenon DEF ManagerEdge, StatsEdge, MemoryTypes
<1> QED BY <1>1, <1>4, <1>5, <1>6, <1>7, Zenon DEF MemoryTypes

(* The index of a descriptor that is being processed.                      *)
LEMMA StartedIndex ==
  ASSUME HostTypes, IndexInv, pc \in Started
  PROVE  index \in Descriptors
<1>1. index \in 0 .. C_NUM_DESCRIPTORS /\ index < C_NUM_DESCRIPTORS
  BY Zenon DEF IndexInv, HostTypes
<1> QED BY <1>1, ManagerAssumption, SMTT(30) DEF Descriptors

(* The engine stays in the phase that the software expects.                *)
LEMMA PhaseStep ==
  ASSUME Discipline, LogicInv, NEW mem, HostEdge(mem),
         NEW tready \in BOOLEAN, NEW c, NEW push, NEW k, NEW req, NEW comp,
         RqEdge(tready, c, ports, push, k),
         ManagerEdge(mem, end_of_operation, update_latency_r, req, comp)
  PROVE  PhaseInv'
<1>0. HostTypes /\ RegisterTypes /\ PhaseInv /\ IndexInv
  BY Zenon DEF LogicInv, LogicTypes
<1>1. Writes(mem, "control") /\ mem.bits.enable => WriteEnable(mem)
  <2>1. ~Control(FALSE).enable
    BY Zenon DEF Control
  <2> QED BY <2>1, HostWrites, ZenonT(30)
<1>2. Off /\ ~WriteEnable(mem) => Off' /\ active_index_descriptor_r' = active_index_descriptor_r
  BY <1>0, <1>1, EngineMoves, ZenonT(30)
<1>3. /\ pc \in Preparing => Off /\ active_index_descriptor_r = index % C_NUM_DESCRIPTORS
      /\ pc = "status" => Off /\ active_index_descriptor_r = NextIndex
  BY <1>0, Zenon DEF PhaseInv
<1>4. pc \in Started => index % C_NUM_DESCRIPTORS = index
  BY <1>0, StartedIndex, NextDescriptor, Zenon
<1>5. ASSUME pc = "poll", HostWaits(mem) \/ (Poll(mem) /\ enable_r), index' = index, pc' = "poll"
      PROVE  PhaseInv'
  <2>1. ~Writes(mem, "control")
    BY <1>5, HostWrites, Zenon DEF Poll, WriteControl, WriteEnable, HostWaits,
       AccessWrites, Access
  <2>2. NextIndex' = NextIndex
    BY <1>5, Zenon DEF NextIndex
  <2>3. CASE Armed /\ active_index_descriptor_r = index
    BY <1>0, <1>5, <2>1, <2>3, EngineMoves, Zenon DEF PhaseInv, Preparing
  <2>4. CASE Running /\ active_index_descriptor_r = index /\ ~end_of_operation
    BY <1>0, <1>5, <2>1, <2>4, EngineMoves, Zenon DEF PhaseInv, Preparing
  <2>5. CASE Running /\ active_index_descriptor_r = index /\ end_of_operation
    <3>1. AtLastDescriptor
      BY <1>0, <1>5, <2>5, Zenon DEF AtLastDescriptor, IndexInv
    <3>2. Ended' /\ active_index_descriptor_r' = NextIndex
      BY <1>0, <2>1, <2>5, <3>1, EngineMoves, ZenonT(30) DEF NextIndex
    <3> QED BY <1>5, <2>2, <3>2, Zenon DEF PhaseInv, Preparing
  <2>6. CASE Ended /\ active_index_descriptor_r = NextIndex
    BY <1>0, <1>5, <2>1, <2>2, <2>6, EngineMoves, Zenon DEF PhaseInv, Preparing
  <2>7. CASE Off /\ active_index_descriptor_r = NextIndex
    BY <1>0, <1>5, <2>1, <2>2, <2>7, EngineMoves, ZenonT(30) DEF PhaseInv, Preparing
  <2> QED BY <1>0, <1>5, <2>3, <2>4, <2>5, <2>6, <2>7, Zenon DEF PhaseInv
<1>6. ASSUME pc \in Preparing, pc' \in Preparing, index' = index, ~WriteEnable(mem)
      PROVE  PhaseInv'
  BY <1>2, <1>3, <1>6, Zenon DEF PhaseInv, Preparing
<1>7. CASE HostWaits(mem) /\ pc' = pc /\ UNCHANGED <<request, index, ldescriptor>>
  <2>1. ~WriteEnable(mem)
    BY <1>7, GapMoves, <1>0, ZenonT(30) DEF HostWaits, WriteEnable
  <2>2. CASE pc = "status"
    BY <1>2, <1>3, <1>7, <2>1, <2>2, Zenon DEF PhaseInv, Preparing, NextIndex
  <2> QED BY <1>0, <1>5, <1>6, <1>7, <2>1, <2>2, Zenon DEF HostTypes, SoftwareSteps,
     Preparing
<1>8. CASE WriteEnable(mem) /\ pc = "enable" /\ pc' = "poll" /\ index' = index
  <2>1. Armed' /\ active_index_descriptor_r' = active_index_descriptor_r
    <3>1. Control(TRUE).enable
      BY Zenon DEF Control
    <3>2. Writes(mem, "control") /\ mem.bits.enable
      BY <1>8, <3>1, HostWrites, ZenonT(30)
    <3> QED BY <1>0, <1>3, <1>8, <3>2, EngineMoves, Zenon DEF Preparing
  <2>2. ~Waited'
    BY <1>0, <1>8, GapMoves, Zenon DEF HostWaits
  <2> QED BY <1>3, <1>4, <1>8, <2>1, <2>2, Zenon DEF PhaseInv, Preparing, Started,
     SoftwareSteps
<1>9. CASE Poll(mem) /\ pc = "poll" /\ enable_r /\ pc' = "poll" /\ index' = index
  BY <1>5, <1>9, Zenon
<1>10. CASE Poll(mem) /\ pc = "poll" /\ ~enable_r /\ pc' = "status" /\ index' = index
  <2>1. Off /\ active_index_descriptor_r = NextIndex
    BY <1>0, <1>10, Zenon DEF PhaseInv, Armed, Running, Ended
  <2>2. ~WriteEnable(mem)
    BY <1>10, Zenon DEF WriteEnable
  <2> QED BY <1>2, <1>10, <2>1, <2>2, Zenon DEF PhaseInv, Preparing, NextIndex
<1>11. CASE ReadStatus(mem) /\ pc = "status" /\ pc' = "number_of_tlps" /\ index' = index + 1
  <2>1. ~WriteEnable(mem)
    BY <1>11, Zenon DEF WriteEnable
  <2> QED BY <1>2, <1>3, <1>11, <2>1, Zenon DEF PhaseInv, Preparing, NextIndex
<1>12. CASE /\ SetWindowSize(mem) \/ WriteNumberOfTlps(mem) \/ WriteSize(mem)
              \/ WriteControl(mem) \/ WriteLast(mem)
            /\ pc \in Preparing /\ pc # "enable" /\ pc' \in Preparing /\ index' = index
  BY <1>6, <1>12, ZenonT(30) DEF WriteEnable
<1> QED BY <1>7, <1>8, <1>9, <1>10, <1>11, <1>12, HostOrder, Zenon DEF Preparing

(* The count of the driver and the index of the benchmark stay together.   *)
LEMMA IndexStep ==
  ASSUME Discipline, LogicInv, NEW mem, HostEdge(mem),
         NEW ended, NEW update, NEW req, NEW comp,
         ManagerEdge(mem, ended, update, req, comp)
  PROVE  IndexInv'
<1>0. HostTypes /\ IndexInv
  BY Zenon DEF LogicInv, LogicTypes
<1>1. index \in Nat /\ C_NUM_DESCRIPTORS \in Nat
  BY <1>0, ManagerAssumption, SMTT(30) DEF HostTypes
<1>2. last_index_descriptor_r' = IF WriteLast(mem) THEN ldescriptor ELSE last_index_descriptor_r
  BY HostWrites, ZenonT(30) DEF ManagerEdge, RegistersEdge
<1>3. pc \in Started => /\ index < C_NUM_DESCRIPTORS /\ request \in Requests
                        /\ index % C_NUM_DESCRIPTORS = index
  BY <1>0, StartedIndex, NextDescriptor, ZenonT(30) DEF IndexInv
<1>4. CASE WriteLast(mem) /\ pc = "complete_until_descriptor" /\ pc' = "enable"
           /\ ldescriptor' = (ldescriptor + 1) % C_NUM_DESCRIPTORS
           /\ UNCHANGED <<request, index>>
  <2>1. ldescriptor = index
    BY <1>0, <1>3, <1>4, Zenon DEF IndexInv, Started, SoftwareSteps
  <2> QED BY <1>2, <1>3, <1>4, <2>1, Zenon DEF IndexInv, Started, SoftwareSteps, NextIndex
<1>5. CASE ReadStatus(mem) /\ pc = "status" /\ pc' = "number_of_tlps"
           /\ index' = index + 1 /\ UNCHANGED <<request, ldescriptor>>
  BY <1>0, <1>5, Zenon DEF IndexInv, Started, NextIndex
<1>6. ASSUME ~WriteLast(mem), UNCHANGED <<index, ldescriptor>>,
             pc' \in Started => index < C_NUM_DESCRIPTORS /\ request' \in Requests,
             pc' \in {"enable", "poll", "status"} <=> pc \in {"enable", "poll", "status"},
             pc' \in {"enable", "poll"} => pc \in {"enable", "poll"}
      PROVE  IndexInv'
  BY <1>0, <1>2, <1>6, Zenon DEF IndexInv, NextIndex
<1>7. CASE HostWaits(mem) /\ pc' = pc /\ UNCHANGED <<request, index, ldescriptor>>
  <2>1. ~WriteLast(mem)
    BY <1>0, <1>7, GapMoves, Zenon DEF HostWaits, WriteLast
  <2> QED BY <1>3, <1>6, <1>7, <2>1, Zenon
<1>8. CASE /\ SetWindowSize(mem) \/ WriteSize(mem) \/ WriteControl(mem) \/ WriteEnable(mem)
              \/ Poll(mem)
           /\ pc # "complete_until_descriptor"
           /\ pc' \in {"enable", "poll", "status"} <=> pc \in {"enable", "poll", "status"}
           /\ pc' \in {"enable", "poll"} => pc \in {"enable", "poll"}
           /\ pc' \in Started => pc \in Started
           /\ UNCHANGED <<request, index, ldescriptor>>
  BY <1>3, <1>6, <1>8, Zenon DEF WriteLast
<1>9. CASE WriteNumberOfTlps(mem) /\ pc = "number_of_tlps" /\ pc' = "size"
           /\ index < C_NUM_DESCRIPTORS /\ request' \in Requests
           /\ UNCHANGED <<index, ldescriptor>>
  BY <1>6, <1>9, Zenon DEF WriteLast
<1> QED BY <1>4, <1>5, <1>7, <1>8, <1>9, HostOrder, SMTT(30) DEF Started, SoftwareSteps

(* One stage of the pipeline from the port register to DESCRIPTOR_SIZE.    *)
LEMMA SizeMoves ==
  ASSUME HostTypes, MemoryTypes, NEW mem, HostEdge(mem),
         NEW ended, NEW update, NEW req, NEW comp,
         ManagerEdge(mem, ended, update, req, comp)
  PROVE  /\ ~WriteSize(mem) => ~size_port'.en
         /\ WriteSize(mem) /\ ~update =>
              size_port' = [en |-> TRUE, index |-> index, data |-> request.SIZE]
         /\ ~size_port.en => /\ size_memory' = size_memory
                             /\ doutb_size'.latch = size_memory[active_index_descriptor_r]
         /\ size_port.en => size_memory'[size_port.index] = size_port.data
         /\ doutb_size'.out = doutb_size.latch
         /\ DESCRIPTOR_SIZE' = doutb_size.out
<1>1. SizeEdge(mem, update)
  BY Zenon DEF ManagerEdge
<1>2. ~WriteSize(mem) => ~size_port'.en
  <2>1. ~IdleSizePort.en
    BY Zenon DEF IdleSizePort
  <2>2. ~WriteSize(mem) => size_port' = IdleSizePort
    BY <1>1, HostWrites, ZenonT(30) DEF SizeEdge
  <2> QED BY <2>1, <2>2, Zenon
<1>3. WriteSize(mem) /\ ~update =>
        size_port' = [en |-> TRUE, index |-> index, data |-> request.SIZE]
  BY <1>1, HostWrites, ZenonT(30) DEF SizeEdge
<1>4. ~size_port.en => doutb_size' = [latch |-> size_memory[active_index_descriptor_r],
                                      out |-> doutb_size.latch]
  BY <1>1, Zenon DEF SizeEdge
<1>5. size_port.en => size_memory'[size_port.index] = size_port.data
  BY <1>1, Zenon DEF SizeEdge, MemoryTypes, SizePorts
<1>6. doutb_size'.out = doutb_size.latch
  BY <1>1, SMTT(30) DEF SizeEdge
<1> QED BY <1>1, <1>2, <1>3, <1>4, <1>5, <1>6, SMTT(30) DEF SizeEdge

(* An operation that is described was described before, or is now.         *)
LEMMA DescribedBefore ==
  ASSUME Discipline, LogicInv, NEW mem, HostEdge(mem),
         NEW tready \in BOOLEAN, NEW c, NEW push, NEW k, NEW req, NEW comp,
         RqEdge(tready, c, ports, push, k),
         ManagerEdge(mem, end_of_operation, update_latency_r, req, comp),
         Described', pc = "poll"
  PROVE  Described
<1>0. HostTypes /\ RegisterTypes /\ PhaseInv
  BY Zenon DEF LogicInv, LogicTypes
<1>1. ~Writes(mem, "control")
  BY HostWrites, ZenonT(30) DEF WriteControl, WriteEnable
<1>2. Off \/ Ended => Off'
  BY <1>0, <1>1, EngineMoves, Zenon
<1>3. pc' # "enable"
  BY HostOrder, Zenon
<1>4. ~Off'
  BY <1>3, Zenon DEF Described, Off, Armed, Running
<1> QED BY <1>0, <1>2, <1>4, Zenon DEF PhaseInv, Described

(* The size of the descriptor advances through the pipeline.               *)
LEMMA SizeStep ==
  ASSUME Discipline, LogicInv, NEW mem, HostEdge(mem),
         NEW tready \in BOOLEAN, NEW c, NEW push, NEW k, NEW req, NEW comp,
         RqEdge(tready, c, ports, push, k),
         ManagerEdge(mem, end_of_operation, update_latency_r, req, comp)
  PROVE  SizeInv'
<1>0. HostTypes /\ MemoryTypes /\ PhaseInv /\ IndexInv /\ SizeInv
  BY Zenon DEF LogicInv, LogicTypes
<1> DEFINE Stored == ~size_port.en /\ size_memory[index] = request.SIZE
           Fetched == active_index_descriptor_r = index
<1>1. pc \in Started \ {"poll", "status"} => Off /\ Fetched
  <2>1. pc \in Started \ {"poll", "status"} => pc \in Preparing
    BY Zenon DEF Started, SoftwareSteps, Preparing
  <2>2. pc \in Started => index % C_NUM_DESCRIPTORS = index
    BY <1>0, StartedIndex, NextDescriptor, Zenon
  <2> QED BY <1>0, <2>1, <2>2, Zenon DEF PhaseInv
<1>2. Described => Fetched
  <2>1. pc = "enable" => Fetched
    BY <1>1, Zenon DEF Started, SoftwareSteps
  <2>2. pc = "poll" /\ (Armed \/ Running) => Fetched
    BY <1>0, Zenon DEF PhaseInv, Armed, Running, Ended, Off
  <2> QED BY <2>1, <2>2, Zenon DEF Described
<1>3. ~WriteSize(mem) /\ Stored /\ index' = index /\ request' = request =>
        /\ Stored'
        /\ Fetched => doutb_size'.latch = request.SIZE
  BY <1>0, SizeMoves, Zenon
<1>4. doutb_size'.out = doutb_size.latch /\ DESCRIPTOR_SIZE' = doutb_size.out
  BY <1>0, SizeMoves, Zenon
<1>5. pc # "size" => ~WriteSize(mem)
  BY Zenon DEF WriteSize
<1>6. pc \in {"control", "complete_until_descriptor", "enable", "poll"}
        => index' = index /\ request' = request
  BY HostOrder, Zenon DEF WriteSize
<1>7. /\ pc = "control" /\ Waited => Stored
      /\ pc \in {"complete_until_descriptor", "enable", "poll"} => Stored
  BY <1>0, Zenon DEF SizeInv
<1>8. ASSUME pc' = "control"
      PROVE  /\ ~Waited' => size_port' = [en |-> TRUE, index |-> index', data |-> request'.SIZE]
             /\ Waited' => Stored'
  <2>1. CASE HostWaits(mem) /\ pc = "control" /\ UNCHANGED <<request, index>>
    <3>1. Waited'
      BY <1>0, <2>1, GapMoves, Zenon
    <3>2. ~Waited => Stored'
      <4>1. ~Waited => size_port = [en |-> TRUE, index |-> index, data |-> request.SIZE]
        BY <1>0, <2>1, Zenon DEF SizeInv
      <4>2. ~Waited => size_port.en /\ size_port.index = index /\ size_port.data = request.SIZE
        BY <4>1, SMTT(30)
      <4> QED BY <1>0, <1>5, <2>1, <4>2, SizeMoves, Zenon
    <3> QED BY <1>3, <1>5, <1>7, <2>1, <3>1, <3>2, ZenonT(30)
  <2>2. CASE WriteSize(mem) /\ pc = "size" /\ UNCHANGED <<request, index>>
    <3>1. ~update_latency_r
      BY <1>1, <2>2, Zenon DEF Off, Started, SoftwareSteps
    <3>2. ~Waited'
      BY <1>0, <1>8, <2>2, GapMoves, Zenon DEF HostWaits
    <3> QED BY <1>0, <2>2, <3>1, <3>2, SizeMoves, SMTT(30)
  <2> QED BY <1>8, <2>1, <2>2, HostOrder, ZenonT(30)
<1>9. ASSUME pc' \in {"complete_until_descriptor", "enable", "poll"}
      PROVE  /\ Stored'
             /\ pc \in {"control", "complete_until_descriptor", "enable", "poll"}
             /\ pc = "control" => Waited
  <2>1. pc \in {"control", "complete_until_descriptor", "enable", "poll"}
    BY <1>9, HostOrder, Zenon
  <2>2. pc = "control" => Waited
    BY <1>0, <1>9, HostOrder, GapMoves, Zenon DEF HostWaits
  <2> QED BY <1>3, <1>5, <1>6, <1>7, <2>1, <2>2, Zenon
<1>10. ASSUME pc' = "complete_until_descriptor"
       PROVE  /\ doutb_size'.latch = request'.SIZE
              /\ Waited' => doutb_size'.out = request'.SIZE
  <2>1. pc \in {"control", "complete_until_descriptor"}
    BY <1>10, HostOrder, Zenon
  <2>2. Fetched
    BY <1>1, <2>1, Zenon DEF Started, SoftwareSteps
  <2>3. doutb_size'.latch = request'.SIZE
    BY <1>3, <1>5, <1>6, <1>7, <1>9, <1>10, <2>1, <2>2, ZenonT(30)
  <2>4. Waited' => pc = "complete_until_descriptor"
    BY <1>0, <1>10, HostOrder, GapMoves, Zenon DEF HostWaits
  <2> QED BY <1>0, <1>4, <1>6, <2>3, <2>4, Zenon DEF SizeInv
<1>11. ASSUME Described'
       PROVE  /\ doutb_size'.latch = request'.SIZE /\ doutb_size'.out = request'.SIZE
              /\ DESCRIPTOR_SIZE' = request'.SIZE
  <2>1. Described \/ (pc = "complete_until_descriptor" /\ Waited)
    <3>1. pc' \in {"enable", "poll"}
      BY <1>11, Zenon DEF Described
    <3>2. pc \in {"complete_until_descriptor", "enable", "poll"}
      BY <3>1, HostOrder, Zenon
    <3>3. pc = "complete_until_descriptor" => Waited
      BY <1>0, <3>1, HostOrder, GapMoves, Zenon DEF HostWaits
    <3> QED BY <1>11, <3>2, <3>3, DescribedBefore, Zenon DEF Described
  <2>2. Fetched /\ pc \in {"complete_until_descriptor", "enable", "poll"}
    BY <1>1, <1>2, <2>1, Zenon DEF Started, SoftwareSteps, Described
  <2>3. doutb_size'.latch = request'.SIZE
    BY <1>3, <1>5, <1>6, <1>7, <2>2, ZenonT(30)
  <2> QED BY <1>0, <1>4, <1>6, <2>1, <2>2, <2>3, Zenon DEF SizeInv
<1> QED
  <2>1. (pc = "control" /\ ~Waited =>
           size_port = [en |-> TRUE, index |-> index, data |-> request.SIZE])'
    BY <1>8, Zenon
  <2>2. ((pc = "control" /\ Waited) \/ pc \in {"complete_until_descriptor", "enable", "poll"}
           => ~size_port.en /\ size_memory[index] = request.SIZE)'
    BY <1>8, <1>9, Zenon
  <2> QED BY <1>10, <1>11, <2>1, <2>2, Zenon DEF SizeInv

(* The boundaries depend on the operation alone.                           *)
LEMMA SameBoundaries ==
  ASSUME NEW p, NEW q, p.SIZE = q.SIZE, p.TLPS = q.TLPS, p.c2s = q.c2s, p.s2c = q.s2c
  PROVE  BoundariesOf(p) = BoundariesOf(q)
  BY ZenonT(30) DEF BoundariesOf, ReadMax

(* The other ports keep the operation that was requested.                  *)
LEMMA PortsStep ==
  ASSUME Discipline, LogicInv, NEW mem, HostEdge(mem),
         NEW tready \in BOOLEAN, NEW c, NEW push, NEW k, NEW req, NEW comp,
         RqEdge(tready, c, ports, push, k),
         ManagerEdge(mem, end_of_operation, update_latency_r, req, comp)
  PROVE  PortsInv'
<1>0. HostTypes /\ SizeInv /\ PortsInv /\ SizeInv'
  BY SizeStep, Zenon DEF LogicInv, LogicTypes
<1>1. /\ number_tlps_r' = IF WriteNumberOfTlps(mem) THEN request'.TLPS ELSE number_tlps_r
      /\ ~WriteControl(mem) /\ ~WriteEnable(mem) => capabilities_r' = capabilities_r
  BY HostWrites, ZenonT(30) DEF ManagerEdge, RegistersEdge
<1>2. WriteControl(mem) \/ WriteEnable(mem) =>
        capabilities_r' = [c2s |-> request.c2s, s2c |-> request.s2c]
  <2>1. \A b : Control(b).c2s = request.c2s /\ Control(b).s2c = request.s2c
    BY Zenon DEF Control
  <2>2. WriteControl(mem) \/ WriteEnable(mem) =>
          Writes(mem, "control") /\ mem.bits.c2s = request.c2s /\ mem.bits.s2c = request.s2c
    BY <2>1, HostWrites, ZenonT(30)
  <2> QED BY <2>2, ZenonT(30) DEF ManagerEdge, RegistersEdge
<1>3. pc' \in Started => number_tlps_r' = request'.TLPS
  <2>1. CASE WriteNumberOfTlps(mem)
    BY <1>1, <2>1, Zenon
  <2>2. CASE ~WriteNumberOfTlps(mem)
    <3>1. pc' \in Started => pc \in Started /\ request' = request
      BY <2>2, HostOrder, Zenon DEF Started, SoftwareSteps
    <3> QED BY <1>0, <1>1, <2>2, <3>1, Zenon DEF PortsInv
  <2> QED BY <2>1, <2>2, Zenon
<1>4. pc' \in {"complete_until_descriptor", "enable", "poll", "status"} =>
        capabilities_r' = [c2s |-> request'.c2s, s2c |-> request'.s2c]
  <2>1. CASE WriteControl(mem) \/ WriteEnable(mem)
    BY <1>2, <2>1, ZenonT(30) DEF WriteControl, WriteEnable
  <2>2. CASE ~WriteControl(mem) /\ ~WriteEnable(mem)
    <3>1. pc' \in {"complete_until_descriptor", "enable", "poll", "status"} =>
            /\ pc \in {"complete_until_descriptor", "enable", "poll", "status"}
            /\ request' = request
      BY <2>2, HostOrder, Zenon
    <3> QED BY <1>0, <1>1, <2>2, <3>1, Zenon DEF PortsInv
  <2> QED BY <2>1, <2>2, Zenon
<1>5. ASSUME Described', pc' = "enable" => Waited'
      PROVE  boundaries' = BoundariesOf(ports')
  <2>1. pc \in {"enable", "poll"} /\ request' = request
    <3>1. pc' \in {"enable", "poll"}
      BY <1>5, Zenon DEF Described
    <3>2. ~WriteLast(mem)
      BY <1>0, <1>5, <3>1, GapMoves, Zenon DEF WriteLast, HostWaits
    <3> QED BY <3>1, <3>2, HostOrder, Zenon
  <2>2. Described
    BY <1>5, <2>1, DescribedBefore, Zenon DEF Described
  <2>3. DESCRIPTOR_SIZE' = DESCRIPTOR_SIZE
    BY <1>0, <1>5, <2>1, <2>2, ZenonT(30) DEF SizeInv
  <2>4. number_tlps_r' = number_tlps_r
    BY <1>1, <2>1, Zenon DEF WriteNumberOfTlps
  <2>5. capabilities_r' = capabilities_r
    BY <1>0, <1>1, <1>2, <2>1, Zenon DEF PortsInv
  <2>6. /\ ports'.SIZE = ports.SIZE /\ ports'.TLPS = ports.TLPS
        /\ ports'.c2s = ports.c2s /\ ports'.s2c = ports.s2c
    BY <2>3, <2>4, <2>5, Zenon DEF ports
  <2>7. BoundariesOf(ports') = BoundariesOf(ports)
    BY <2>6, SameBoundaries, Zenon
  <2> QED BY <2>7, PortsArrive, Zenon
<1> QED BY <1>3, <1>4, <1>5, Zenon DEF PortsInv

(* The window reaches the masks of the requester.                          *)
LEMMA WindowStep ==
  ASSUME Discipline, LogicInv, NEW mem, HostEdge(mem),
         NEW tready \in BOOLEAN, NEW c, NEW push, NEW k, NEW req, NEW comp,
         RqEdge(tready, c, ports, push, k),
         NEW ended, NEW update,
         ManagerEdge(mem, ended, update, req, comp)
  PROVE  WindowInv'
<1>0. HostTypes /\ RegisterTypes /\ WindowInv
  BY Zenon DEF LogicInv, LogicTypes
<1>1. /\ WINDOW_SIZE' = tags_window_r
      /\ ~SetWindowSize(mem) => tags_window_r' = tags_window_r
      /\ SetWindowSize(mem) => tags_window_r' \in Windows
  BY HostWrites, ZenonT(30) DEF ManagerEdge, RegistersEdge
<1>2. /\ window_size_r' = WINDOW_SIZE
      /\ window_size_mask_r' = MinOf(window_size_r, C_WINDOW_SIZE)
      /\ {j \in Tags \ {0} : j >= WINDOW_SIZE} \subseteq current_tags_r'
  BY PortsArrive, SMTT(30) DEF ports
<1>3. /\ C_WINDOW_SIZE \in Nat /\ Windows \subseteq 1 .. C_WINDOW_SIZE
      /\ WINDOW_SIZE \in 1 .. C_WINDOW_SIZE /\ tags_window_r \in 1 .. C_WINDOW_SIZE
  BY <1>0, SoftwareAssumption, TagsAssumption, SMTT(30) DEF RegisterTypes, WindowValues
<1>4. CASE SetWindowSize(mem)
  <2>1. pc = "window" /\ pc' = "number_of_tlps" /\ ~Waited'
    BY <1>0, <1>4, GapMoves, Zenon DEF SetWindowSize, HostWaits
  <2>2. WINDOW_SIZE' = C_WINDOW_SIZE /\ tags_window_r' <= C_WINDOW_SIZE
    <3>1. WINDOW_SIZE' = C_WINDOW_SIZE
      BY <1>0, <1>1, <2>1, Zenon DEF WindowInv
    <3>2. tags_window_r' \in 1 .. C_WINDOW_SIZE
      BY <1>1, <1>3, <1>4, Zenon
    <3> QED BY <1>3, <3>1, <3>2, SMTT(30)
  <2> QED BY <2>1, <2>2, Zenon DEF WindowInv, Started
<1>5. CASE ~SetWindowSize(mem)
  <2>1. tags_window_r' = WINDOW_SIZE' /\ tags_window_r' <= WINDOW_SIZE'
    BY <1>1, <1>3, <1>5, SMTT(30)
  <2>2. pc' = "window" => pc = "window"
    BY HostOrder, Zenon
  <2>3. pc' = "window" => tags_window_r' = C_WINDOW_SIZE /\ WINDOW_SIZE' = C_WINDOW_SIZE
    BY <1>0, <1>1, <1>5, <2>2, Zenon DEF WindowInv
  <2>4. ASSUME pc' \in Started
        PROVE  /\ window_size_r' = WINDOW_SIZE'
               /\ {j \in Tags \ {0} : j >= WINDOW_SIZE'} \subseteq current_tags_r'
               /\ (pc' = "size" => Waited') => window_size_mask_r' = WINDOW_SIZE'
    <3>1. pc # "window" /\ (pc = "number_of_tlps" => Waited)
      BY <1>0, <2>4, HostOrder, GapMoves, Zenon DEF Started, HostWaits
    <3>2. WINDOW_SIZE' = WINDOW_SIZE
      BY <1>0, <1>1, <3>1, Zenon DEF WindowInv
    <3>3. (pc' = "size" => Waited') => pc \in Started
      <4>1. pc = "number_of_tlps" => pc' = "size" /\ ~Waited'
        BY <1>0, <2>4, HostOrder, GapMoves, Zenon DEF Started, HostWaits
      <4> QED BY <1>0, <3>1, <4>1, Zenon DEF HostTypes, Started
    <3>4. pc \in Started => window_size_r = WINDOW_SIZE
      BY <1>0, Zenon DEF WindowInv
    <3> QED BY <1>2, <1>3, <3>2, <3>3, <3>4, SMTT(30) DEF MinOf
  <2> QED BY <2>1, <2>3, <2>4, Zenon DEF WindowInv
<1> QED BY <1>4, <1>5, Zenon

(* The statistics reach the slot that the software reads.                  *)
LEMMA StatsStep ==
  ASSUME Discipline, LogicInv, NEW mem, HostEdge(mem),
         NEW tready \in BOOLEAN, NEW c, NEW push, NEW k,
         RqEdge(tready, c, ports, push, k),
         ManagerEdge(mem, end_of_operation, update_latency_r, bytes_req_r, bytes_comp_r),
         measured' = IF update_latency_r THEN [req |-> bytes_req_r, comp |-> bytes_comp_r]
                     ELSE measured
  PROVE  StatsInv'
<1>0. HostTypes /\ RegisterTypes /\ MemoryTypes /\ PhaseInv /\ StatsInv
  BY Zenon DEF LogicInv, LogicTypes
<1>1. ~update_latency_r => ~stats_port'.en /\ measured' = measured
  BY Zenon DEF ManagerEdge, StatsEdge, IdleStatsPort
<1>2. update_latency_r => stats_port'.en /\ stats_port'.data = measured'
  BY Zenon DEF ManagerEdge, StatsEdge
<1>3. /\ stats_port.en => stats_memory'[active_index_descriptor_r] = stats_port.data
      /\ ~stats_port.en => stats_memory' = stats_memory
  BY <1>0, Zenon DEF ManagerEdge, StatsEdge, RegisterTypes, MemoryTypes
<1>4. ASSUME pc = "poll", Off
      PROVE  ~stats_port'.en /\ stats_memory'[NextIndex] = measured'
  <2>1. active_index_descriptor_r = NextIndex /\ ~update_latency_r
    BY <1>0, <1>4, Zenon DEF PhaseInv, Off, Armed, Running, Ended
  <2> QED BY <1>0, <1>1, <1>3, <1>4, <2>1, ZenonT(30) DEF StatsInv
<1>5. ASSUME pc' = "poll", Off'
      PROVE  IF stats_port'.en THEN stats_port'.data = measured'
             ELSE stats_memory'[NextIndex'] = measured'
  <2>1. CASE pc = "enable"
    <3>1. WriteEnable(mem)
      BY <1>5, <2>1, HostOrder, Zenon
    <3>2. enable_r'
      <4>1. Control(TRUE).enable
        BY Zenon DEF Control
      <4> QED BY <3>1, <4>1, HostWrites, ZenonT(30) DEF ManagerEdge, RegistersEdge
    <3> QED BY <1>5, <3>2, ZenonT(30) DEF Off
  <2>2. CASE pc = "poll"
    <3>1. NextIndex' = NextIndex
      BY <1>5, <2>2, HostOrder, Zenon DEF NextIndex
    <3>2. ~Writes(mem, "control")
      BY <2>2, HostWrites, ZenonT(30) DEF WriteControl, WriteEnable
    <3>3. CASE Off
      BY <1>4, <2>2, <3>1, <3>3, ZenonT(30)
    <3>4. CASE Armed
      <4>1. Running' BY <1>0, <3>2, <3>4, EngineMoves, Zenon
      <4> QED BY <1>5, <4>1, Zenon DEF Running, Off
    <3>5. CASE Running /\ active_index_descriptor_r = index
      <4>1. AtLastDescriptor
        BY <2>2, <3>5, Zenon DEF AtLastDescriptor, LogicInv, IndexInv
      <4>2. Running' \/ Ended' BY <1>0, <3>2, <3>5, <4>1, EngineMoves, Zenon
      <4> QED BY <1>5, <4>2, Zenon DEF Running, Ended, Off
    <3>6. CASE Ended
      BY <1>2, <3>6, Zenon DEF Ended
    <3> QED BY <1>0, <2>2, <3>3, <3>4, <3>5, <3>6, ZenonT(30) DEF PhaseInv
  <2> QED BY <1>5, <2>1, <2>2, HostOrder, ZenonT(30)
<1>6. ASSUME pc' = "status"
      PROVE  ~stats_port'.en /\ stats_memory'[NextIndex'] = measured'
  <2>1. NextIndex' = NextIndex
    BY <1>6, HostOrder, Zenon DEF NextIndex
  <2>2. CASE pc = "poll"
    <3>1. ~enable_r
      BY <1>6, <2>2, HostOrder, Zenon
    <3>2. Off
      BY <1>0, <2>2, <3>1, Zenon DEF PhaseInv, Armed, Running, Ended
    <3> QED BY <1>4, <2>1, <2>2, <3>2, ZenonT(30)
  <2>3. CASE pc = "status"
    <3>1. ~update_latency_r
      BY <1>0, <2>3, Zenon DEF PhaseInv, Off
    <3> QED BY <1>0, <1>1, <1>3, <2>1, <2>3, <3>1, ZenonT(30) DEF StatsInv
  <2> QED BY <1>6, <2>2, <2>3, HostOrder, ZenonT(30)
<1> QED BY <1>5, <1>6, ZenonT(30) DEF StatsInv

(* A clock edge keeps the whole invariant.                                 *)
LEMMA InvariantStep ==
  ASSUME Discipline, LogicInv, NEW mem, HostEdge(mem),
         NEW tready \in BOOLEAN, NEW c, NEW push, NEW k,
         RqEdge(tready, c, ports, push, k),
         ManagerEdge(mem, end_of_operation, update_latency_r, bytes_req_r, bytes_comp_r),
         measured' = IF update_latency_r THEN [req |-> bytes_req_r, comp |-> bytes_comp_r]
                     ELSE measured
  PROVE  LogicInv'
<1>1. HostTypes /\ RegisterTypes /\ MemoryTypes /\ IndexInv
  BY Zenon DEF LogicInv, LogicTypes
<1>2. end_of_operation \in BOOLEAN
  BY Zenon DEF end_of_operation, EndOfRead, EndOfWrite
<1>3. LogicTypes'
  BY <1>1, <1>2, HostTypesStep, RegisterTypesStep, MemoryTypesStep, Zenon DEF LogicTypes
<1>4. PhaseInv' /\ IndexInv' /\ SizeInv'
  BY PhaseStep, IndexStep, SizeStep, Zenon
<1>5. PortsInv' /\ WindowInv' /\ StatsInv'
  BY PortsStep, WindowStep, StatsStep, Zenon
<1> QED BY <1>3, <1>4, <1>5, Zenon DEF LogicInv

(* It holds after reset, when the software starts anew.                    *)
LEMMA InvariantInit ==
  ASSUME Discipline, HostInit, RqInit, ManagerInit
  PROVE  LogicInv
<1>1. 0 \in Descriptors /\ 0 % C_NUM_DESCRIPTORS = 0 /\ C_NUM_DESCRIPTORS \in Nat /\ BackToBackGap \in Nat
  BY ManagerAssumption, SoftwareAssumption, SMTT(30) DEF Descriptors
<1>2. HostTypes
  BY <1>1, SMTT(30) DEF HostInit, HostTypes, SoftwareSteps
<1>3. RegisterTypes
  BY <1>1, ZenonT(30) DEF ManagerInit, RegisterTypes, TlpValues, WindowValues
<1>4. MemoryTypes
  BY <1>1, Zenon DEF ManagerInit, MemoryTypes, IdleSizePort, SizePorts, SizeValues
<1>5. PhaseInv
  BY <1>1, Zenon DEF ManagerInit, RqInit, HostInit, PhaseInv, Preparing, Off, Idle, Writing
<1>6. IndexInv
  BY <1>1, Zenon DEF HostInit, IndexInv, Started
<1>7. SizeInv /\ PortsInv /\ StatsInv
  BY ZenonT(30) DEF HostInit, SizeInv, PortsInv, StatsInv, Described, Started
<1>8. WindowInv
  BY TagsAssumption, SMTT(30) DEF HostInit, ManagerInit, WindowInv, Started
<1> QED BY <1>2, <1>3, <1>4, <1>5, <1>6, <1>7, <1>8, Zenon DEF LogicInv, LogicTypes

(* restart.sh brings software and registers back to where they started.    *)
LEMMA InvariantRestart ==
  ASSUME LogicInv, RqReset, ManagerReset, pc' = "window", index' = 0, request' = NoRequest,
         ldescriptor' = 0, gap' = BackToBackGap
  PROVE  LogicInv'
<1>0. MemoryTypes
  BY Zenon DEF LogicInv, LogicTypes
<1>1. 0 \in Descriptors /\ 0 % C_NUM_DESCRIPTORS = 0 /\ C_NUM_DESCRIPTORS \in Nat /\ BackToBackGap \in Nat
  BY ManagerAssumption, SoftwareAssumption, SMTT(30) DEF Descriptors
<1>2. HostTypes'
  BY <1>1, SMTT(30) DEF HostTypes, SoftwareSteps
<1>3. RegisterTypes'
  BY <1>1, ZenonT(30) DEF ManagerReset, RegisterTypes, TlpValues, WindowValues
<1>4. MemoryTypes'
  BY <1>0, <1>1, ZenonT(30) DEF ManagerReset, MemoryTypes, IdleSizePort, SizePorts,
     SizeValues
<1>5. PhaseInv'
  BY <1>1, Zenon DEF ManagerReset, RqReset, PhaseInv, Preparing, Off, Idle, Writing
<1>6. IndexInv'
  BY <1>1, Zenon DEF IndexInv, Started
<1>7. SizeInv' /\ PortsInv' /\ StatsInv'
  BY ZenonT(30) DEF SizeInv, PortsInv, StatsInv, Described, Started
<1>8. WindowInv'
  BY TagsAssumption, SMTT(30) DEF ManagerReset, WindowInv, Started
<1> QED BY <1>2, <1>3, <1>4, <1>5, <1>6, <1>7, <1>8, Zenon DEF LogicInv, LogicTypes

(* A step that changes nothing keeps it.                                   *)
LEMMA InvariantStutter ==
  ASSUME LogicInv, UNCHANGED <<rqVars, managerVars, hostVars>>
  PROVE  LogicInv'
<1> USE DEF hostVars, managerVars, rqVars
<1>1. HostTypes' /\ RegisterTypes' /\ MemoryTypes'
  BY Zenon DEF LogicInv, LogicTypes, HostTypes, RegisterTypes, MemoryTypes
<1>2. PhaseInv' /\ IndexInv' /\ StatsInv'
  BY ZenonT(30) DEF LogicInv, PhaseInv, IndexInv, StatsInv, Off, Armed, Running, Ended,
     Idle, NextIndex, Waited
<1>3. SizeInv' /\ WindowInv'
  BY ZenonT(30) DEF LogicInv, SizeInv, WindowInv, Described, Armed, Running, Idle, Waited
<1>4. PortsInv'
  BY ZenonT(30) DEF LogicInv, PortsInv, Described, Armed, Running, Idle, Waited, ports
<1> QED BY <1>1, <1>2, <1>3, <1>4, Zenon DEF LogicInv, LogicTypes

-----------------------------------------------------------------------------
(* What the invariant says of an operation that runs or has ended.         *)

(* Only a described operation runs, and it runs on the ports requested.    *)
LEMMA RunningOperation ==
  ASSUME LogicInv, wr_state # "IDLE"
  PROVE  /\ pc = "poll" /\ Running /\ active_index_descriptor_r = index
         /\ boundaries = BoundariesOf(ports)
         /\ DESCRIPTOR_SIZE = request.SIZE /\ size_memory[index] = request.SIZE
<1>1. ~Idle /\ ~Off /\ ~Armed /\ ~Ended
  BY Zenon DEF Idle, Off, Armed, Ended
<1>2. pc = "poll" /\ Running /\ active_index_descriptor_r = index
  <2>1. pc \in Preparing \/ pc \in {"poll", "status"}
    BY Zenon DEF LogicInv, LogicTypes, HostTypes, SoftwareSteps, Preparing
  <2> QED BY <1>1, <2>1, Zenon DEF LogicInv, PhaseInv
<1> QED BY <1>2, ZenonT(30) DEF LogicInv, PortsInv, SizeInv, Described

(* The operation that runs has the boundaries of the size it was given.    *)
LEMMA SizeAsPresented ==
  ASSUME NEW n, DESCRIPTOR_SIZE = n
  PROVE  BoundariesOf([ports EXCEPT !.SIZE = n]) = BoundariesOf(ports)
<1>1. [ports EXCEPT !.SIZE = n] = ports
  BY SMTT(30) DEF ports
<1> QED BY <1>1, Zenon

(* The ports do not move while an operation is about to run or runs.       *)
LEMMA PortsHeld ==
  ASSUME Discipline, LogicInv, NEW mem, HostEdge(mem), pc = "poll", Armed \/ Running,
         NEW ended, NEW update, NEW req, NEW comp,
         ManagerEdge(mem, ended, update, req, comp)
  PROVE  ports' = [ports EXCEPT !.ENGINE_VALID = VALID_ENGINE']
<1>0. HostTypes /\ MemoryTypes /\ SizeInv /\ WindowInv
  BY Zenon DEF LogicInv, LogicTypes
<1>1. DESCRIPTOR_SIZE' = DESCRIPTOR_SIZE
  BY <1>0, SizeMoves, ZenonT(30) DEF SizeInv, Described
<1>2. /\ ~WriteNumberOfTlps(mem) /\ ~WriteControl(mem) /\ ~WriteEnable(mem)
  BY Zenon DEF WriteNumberOfTlps, WriteControl, WriteEnable
<1>3. number_tlps_r' = number_tlps_r /\ capabilities_r' = capabilities_r
  BY <1>2, HostWrites, ZenonT(30) DEF ManagerEdge, RegistersEdge
<1>4. WINDOW_SIZE' = WINDOW_SIZE
  BY <1>0, Zenon DEF ManagerEdge, RegistersEdge, WindowInv
<1> QED BY <1>1, <1>3, <1>4, SMTT(30) DEF ports

(* Nothing but read requests can wait for TREADY at the end of a read, and *)
(* an operation that reads does not end on its write path.                 *)
DrainInv ==
  /\ wr_state = "WAIT_READ" /\ axis_rq.tvalid => axis_rq.kind = "rd"
  /\ Running /\ capabilities_r.s2c => ~EndOfWrite
  /\ pc \in {"poll", "status"} /\ (Off \/ Ended) /\ capabilities_r.s2c => ~axis_rq.tvalid

(* The RQ register and the state after an edge of the requester.           *)
LEMMA BeatMoves ==
  ASSUME NEW tready \in BOOLEAN, NEW c, NEW p, NEW push, NEW k,
         RqEdge(tready, c, p, push, k)
  PROVE  /\ wr_state \in {"IDLE", "WAIT_READ"} /\ axis_rq'.tvalid => axis_rq' = axis_rq
         /\ wr_state' = "WAIT_READ" /\ axis_rq'.tvalid =>
              axis_rq'.kind = "rd" \/ (wr_state = "WAIT_READ" /\ axis_rq' = axis_rq)
         /\ wr_state \in Writing /\ p.s2c => wr_state' # "IDLE"
<1>1. ~NoBeat.tvalid
  BY Zenon DEF NoBeat
<1>2. CASE wr_state = "IDLE"
  <2>1. IdleEdge(tready, p, push) /\ wr_state' # "WAIT_READ"
    BY <1>2, Zenon DEF RqEdge, StartWrite, StartRead, StayIdle, WriteWaits, WriteHeader,
       WriteData, WriteLastData, ReadWaits, ReadRequest, WaitRead
  <2> QED BY <1>1, <1>2, <2>1, Zenon DEF IdleEdge, Writing
<1>3. CASE wr_state = "WAIT_READ"
  <2>1. WaitRead(tready, push)
    BY <1>3, Zenon DEF RqEdge, StartWrite, StartRead, StayIdle, IdleEdge, WriteWaits,
       WriteHeader, WriteData, WriteLastData, ReadWaits, ReadRequest
  <2> QED BY <1>1, <1>3, <2>1, Zenon DEF WaitRead, Writing
<1>4. CASE wr_state = "INIT_READ"
  <2>1. ReadWaits(tready, push) \/ ReadRequest(tready, p, push)
    BY <1>4, Zenon DEF RqEdge, StartWrite, StartRead, StayIdle, IdleEdge, WriteWaits,
       WriteHeader, WriteData, WriteLastData, WaitRead
  <2> QED BY <1>4, <2>1, SMTT(30) DEF ReadWaits, ReadRequest, Writing
<1>5. CASE wr_state \in Writing
  <2>1. WriteWaits(tready, push) \/ WriteHeader(tready, p, push) \/ WriteData(tready, p, push)
        \/ WriteLastData(tready, p, push)
    BY <1>5, ZenonT(30) DEF RqEdge, StartWrite, StartRead, StayIdle, IdleEdge,
       ReadWaits, ReadRequest, WaitRead, Writing
  <2>2. wr_state' \in {"IDLE", "INIT_WRITE", "WRITE", "INIT_READ"} /\ (p.s2c => wr_state' # "IDLE")
    BY <1>5, <2>1, Zenon DEF WriteWaits, WriteHeader, WriteData, WriteLastData,
       FinishWriteTlp, AfterWriteTlp, Writing
  <2> QED BY <1>5, <2>2, Zenon DEF Writing
<1>6. wr_state \in Writing \cup {"IDLE", "INIT_READ", "WAIT_READ"}
  BY Zenon DEF RqEdge, StartWrite, StartRead, StayIdle, IdleEdge, WriteWaits, WriteHeader,
     WriteData, WriteLastData, ReadWaits, ReadRequest, WaitRead, Writing
<1> QED BY <1>2, <1>3, <1>4, <1>5, <1>6, Zenon

(* A clock edge keeps the way to a quiet end.                              *)
LEMMA DrainStep ==
  ASSUME Discipline, LogicInv, DrainInv, NEW mem, HostEdge(mem),
         EndOfRead => ~(axis_rq.tvalid /\ axis_rq.kind = "rd"),
         NEW tready \in BOOLEAN, NEW c, NEW push, NEW k, NEW req, NEW comp,
         RqEdge(tready, c, ports, push, k),
         ManagerEdge(mem, end_of_operation, update_latency_r, req, comp)
  PROVE  DrainInv'
<1>0. /\ HostTypes /\ RegisterTypes /\ PhaseInv /\ ports.s2c = capabilities_r.s2c
      /\ wr_state_pipe_r' = wr_state
  BY RequesterMoves, Zenon DEF LogicInv, LogicTypes, ports
<1>1. (wr_state = "WAIT_READ" /\ axis_rq.tvalid => axis_rq.kind = "rd")'
  BY BeatMoves, Zenon DEF DrainInv
<1>2. ASSUME pc = "poll"
      PROVE  ~Writes(mem, "control") /\ capabilities_r' = capabilities_r
  BY <1>2, HostWrites, ZenonT(30) DEF ManagerEdge, RegistersEdge, WriteControl, WriteEnable
<1>3. ASSUME Running', capabilities_r'.s2c
      PROVE  ~EndOfWrite'
  <2>1. CASE wr_state \in Writing
    <3>1. wr_state # "IDLE"
      BY <2>1, Zenon DEF Writing
    <3>2. pc = "poll"
      BY <3>1, RunningOperation, Zenon
    <3>3. wr_state' # "IDLE"
      BY <1>0, <1>2, <1>3, <2>1, <3>2, BeatMoves, Zenon
    <3> QED BY <3>3, Zenon DEF EndOfWrite
  <2>2. CASE wr_state \notin Writing
    BY <1>0, <2>2, ZenonT(30) DEF EndOfWrite, Writing
  <2> QED BY <2>1, <2>2, Zenon
<1>4. ASSUME pc' \in {"poll", "status"}, Off' \/ Ended', capabilities_r'.s2c
      PROVE  ~axis_rq'.tvalid
  <2>1. CASE pc \in {"poll", "status"} /\ (Off \/ Ended)
    <3>1. wr_state = "IDLE"
      BY <2>1, Zenon DEF Off, Ended, Idle
    <3>2. capabilities_r' = capabilities_r
      BY <2>1, HostWrites, ZenonT(30) DEF ManagerEdge, RegistersEdge, WriteControl,
         WriteEnable
    <3> QED BY <1>4, <2>1, <3>1, <3>2, BeatMoves, Zenon DEF DrainInv
  <2>2. CASE pc = "poll" /\ Running /\ end_of_operation
    <3>1. EndOfRead /\ wr_state = "WAIT_READ"
      BY <1>2, <1>4, <2>2, Zenon DEF DrainInv, end_of_operation, EndOfRead
    <3> QED BY <3>1, BeatMoves, Zenon DEF DrainInv
  <2>3. CASE pc = "poll" /\ (Armed \/ (Running /\ ~end_of_operation))
    <3>1. Running'
      BY <1>0, <1>2, <2>3, EngineMoves, ZenonT(30)
    <3> QED BY <1>4, <3>1, Zenon DEF Running, Off, Ended
  <2>4. CASE pc = "enable"
    <3>1. WriteEnable(mem)
      BY <1>4, <2>4, HostOrder, Zenon
    <3>2. Armed'
      <4>1. Control(TRUE).enable
        BY Zenon DEF Control
      <4>2. Writes(mem, "control") /\ mem.bits.enable
        BY <3>1, <4>1, HostWrites, ZenonT(30)
      <4> QED BY <1>0, <2>4, <4>2, EngineMoves, ZenonT(30) DEF PhaseInv, Preparing
    <3> QED BY <1>4, <3>2, Zenon DEF Armed, Off, Ended
  <2>5. pc \in {"enable", "poll", "status"}
    BY <1>4, HostOrder, Zenon
  <2> QED BY <1>0, <2>1, <2>2, <2>3, <2>4, <2>5, ZenonT(30) DEF PhaseInv
<1> QED BY <1>1, <1>3, <1>4, Zenon DEF DrainInv

=============================================================================
