-------------------------- MODULE HostAccessProofs --------------------------
(***************************************************************************)
(* What the three ways into the card promise the host, for every value of  *)
(* the constants: the ioctls of the NFP driver (NfpDriver), the registers  *)
(* of BAR 0 (RegisterAccess) and the user space of BAR 2 (AxiRequester).   *)
(* The three share no state; each part below is about one of them.         *)
(***************************************************************************)
EXTENDS NfpDriver, RegisterAccess, AxiRequester, TLAPS

-----------------------------------------------------------------------------
(* The ioctls.  For any number of processes the semaphore of the card      *)
(* excludes, and the pages of an operation stay pinned.                    *)

Labels == {"user", "down", "copy", "work", "poll", "up", "oops"}

(* The semaphore is binary, and whoever is inside holds it.                *)
Exclusion ==
  /\ pc \in [Procs -> Labels]
  /\ sem_op \in {0, 1}
  /\ \A p \in Procs : Inside(p) => sem_op = 0
  /\ OneIoctlAtATime

(* The semaphore is free at first and nobody is inside.                    *)
LEMMA ExclusionInit == IoctlInit => Exclusion
BY Zenon DEF IoctlInit, Exclusion, Inside, OneIoctlAtATime, Labels

(* Every step keeps the semaphore binary and its holder alone.             *)
LEMMA ExclusionNext ==
  ASSUME ~MayInterrupt, ~MayNotMap, Exclusion, [IoctlNext]_ioctlVars
  PROVE  Exclusion'
<1> USE DEF Exclusion, Inside, OneIoctlAtATime, Labels
<1>1. CASE UNCHANGED ioctlVars
  BY <1>1, Zenon DEF ioctlVars
<1>2. CASE EngineDone
  BY <1>2, Zenon DEF EngineDone
<1>3. ASSUME NEW p \in Procs, Program(p)
      PROVE  Exclusion'
  <2>1. ASSUME NEW c, Call(p, c) PROVE Exclusion'
    BY <2>1, Zenon DEF Call, Goto
  <2>2. CASE StartBenchmark(p)
    BY <2>1, <2>2, Zenon DEF StartBenchmark
  <2>3. CASE RunBenchmark(p)
    BY <2>1, <2>3, Zenon DEF RunBenchmark
  <2>4. CASE EndBenchmark(p)
    BY <2>1, <2>4, Zenon DEF EndBenchmark
  <2>5. CASE RwBar(p)
    BY <2>1, <2>5, Zenon DEF RwBar
  <2> QED BY <1>3, <2>2, <2>3, <2>4, <2>5, Zenon DEF Program
<1>4. ASSUME NEW p \in Procs, Ioctl(p)
      PROVE  Exclusion'
  <2>1. CASE Down(p)
    BY <2>1, SMTT(30) DEF Down, Goto
  <2>2. CASE Copy(p)
    BY <2>2, SMTT(30) DEF Copy, Goto
  <2>3. CASE Access(p)
    BY <2>3, Zenon DEF Access, Works, Goto
  <2>4. CASE RegisterBuffer(p)
    BY <2>4, Zenon DEF RegisterBuffer, Works, Goto
  <2>5. CASE RegisterFails(p)
    BY <2>5, Zenon DEF RegisterFails
  <2>6. CASE UnregisterBuffer(p)
    BY <2>6, Zenon DEF UnregisterBuffer, Works, Goto
  <2>7. CASE WriteDescriptor(p)
    BY <2>7, SMTT(30) DEF WriteDescriptor, Works, Goto
  <2>8. CASE Poll(p)
    BY <2>8, Zenon DEF Poll, Goto
  <2>9. CASE Up(p)
    BY <2>9, SMTT(30) DEF Up, Goto
  <2>10. CASE Oops(p)
    BY <2>10, Zenon DEF Oops, Works, Goto
  <2> QED BY <1>4, <2>1, <2>2, <2>3, <2>4, <2>5, <2>6, <2>7, <2>8, <2>9, <2>10, Zenon
     DEF Ioctl
<1>5. ASSUME NEW p \in Procs, Interrupted(p)
      PROVE  Exclusion'
  BY <1>5, Zenon DEF Interrupted
<1> QED BY <1>1, <1>2, <1>3, <1>4, <1>5, Zenon DEF IoctlNext

(* "We accept one IOCTL operation per time" (nfp.c): if no signal ends the *)
(* wait for the semaphore and no registration fails, nfp_ioctl serves at   *)
(* most one of any number of processes at a time.                          *)
THEOREM IoctlsExclude ==
  ASSUME ~MayInterrupt, ~MayNotMap
  PROVE  IoctlSpec => []OneIoctlAtATime
<1>1. IoctlInit => Exclusion
  BY ExclusionInit, Zenon
<1>2. Exclusion /\ [IoctlNext]_ioctlVars => Exclusion'
  BY ExclusionNext, Zenon
<1>3. Exclusion => OneIoctlAtATime
  BY Zenon DEF Exclusion
<1> QED BY <1>1, <1>2, <1>3, PTL DEF IoctlSpec

-----------------------------------------------------------------------------
(* The records of the registration: what card->buffer, pages and num_pages *)
(* say of each other, and that they account for the pins.  No signal, no   *)
(* failure and no overlap of benchmarks disturbs them.                     *)
BufferRecord ==
  [virtual : Procs \cup {NoBuffer}, length : BOOLEAN, page_size : BOOLEAN,
   page_address : Buffers \cup {NoBuffer}]

Kept ==
  /\ pages \in Procs \cup {NoBuffer} /\ num_pages \in BOOLEAN
  /\ pins \in [Procs -> Nat] /\ lost \in [Procs -> Nat]
  /\ buffer \in BufferRecord
  /\ buffer.length <=> num_pages
  /\ num_pages => /\ pages \in Procs
                  /\ buffer.virtual = pages /\ buffer.page_address = pages
  /\ PinsTracked

(* What an update of the length makes of a record.                         *)
LEMMA LengthOff ==
  ASSUME NEW V, NEW A,
         NEW b \in [virtual : V, length : BOOLEAN, page_size : BOOLEAN, page_address : A]
  PROVE  /\ [b EXCEPT !.length = FALSE] \in
              [virtual : V, length : BOOLEAN, page_size : BOOLEAN, page_address : A]
         /\ [b EXCEPT !.length = FALSE].length = FALSE
<1>1. [b EXCEPT !.length = FALSE].length = FALSE
  BY SMTT(30)
<1> QED BY <1>1, Zenon

(* The same for a registration that has failed.                            *)
LEMMA NamedOff ==
  ASSUME NEW V, NEW A, NEW v \in V, NEW a \in A,
         NEW b \in [virtual : V, length : BOOLEAN, page_size : BOOLEAN, page_address : A]
  PROVE  LET c == [b EXCEPT !.virtual = v, !.length = FALSE, !.page_address = a] IN
         /\ c \in [virtual : V, length : BOOLEAN, page_size : BOOLEAN, page_address : A]
         /\ c.length = FALSE
<1>1. [b EXCEPT !.virtual = v, !.length = FALSE, !.page_address = a].length = FALSE
  BY SMTT(30)
<1> QED BY <1>1, Zenon

(* Nothing is registered or pinned at first.                               *)
LEMMA KeptInit == IoctlInit => Kept
<1> SUFFICES ASSUME IoctlInit PROVE Kept
  OBVIOUS
<1>1. buffer \in BufferRecord /\ buffer.length = FALSE
  BY SMTT(30) DEF IoctlInit, BufferRecord
<1>2. PinsTracked
  BY SMTT(30) DEF IoctlInit, PinsTracked
<1>3. pins \in [Procs -> Nat] /\ lost \in [Procs -> Nat]
  BY SMTT(30) DEF IoctlInit
<1> QED BY <1>1, <1>2, <1>3, Zenon DEF IoctlInit, Kept

(* A registration adds one pin and one entry of the list; the list it      *)
(* writes over is lost with its pins.                                      *)
LEMMA KeptRegister ==
  ASSUME Kept, NEW p \in Procs, RegisterBuffer(p)
  PROVE  Kept'
<1>1. /\ pages' = p /\ num_pages' = TRUE
      /\ buffer' = [virtual |-> p, length |-> TRUE, page_size |-> TRUE, page_address |-> p]
      /\ pins' = [pins EXCEPT ![p] = @ + 1]
      /\ lost' = IF num_pages THEN [lost EXCEPT ![pages] = @ + 1] ELSE lost
  BY Zenon DEF RegisterBuffer, Forget
<1>2. PinsTracked'
  BY <1>1, SMTT(30) DEF Kept, PinsTracked
<1>3. /\ buffer' \in BufferRecord /\ buffer'.length
      /\ buffer'.virtual = p /\ buffer'.page_address = p
  BY <1>1, SMTT(30) DEF Buffers, BufferRecord
<1>4. pins' \in [Procs -> Nat] /\ lost' \in [Procs -> Nat]
  BY <1>1, SMTT(30) DEF Kept
<1> QED BY <1>1, <1>2, <1>3, <1>4, Zenon DEF Kept

(* A registration that fails keeps no list; one there was is lost.         *)
LEMMA KeptFails ==
  ASSUME Kept, NEW p \in Procs, RegisterFails(p)
  PROVE  Kept'
<1>1. /\ num_pages' = FALSE /\ pages' \in {p, pages} /\ pins' = pins
      /\ lost' = IF num_pages THEN [lost EXCEPT ![pages] = @ + 1] ELSE lost
  BY Zenon DEF RegisterFails, Forget
<1>2. PinsTracked'
  BY <1>1, SMTT(30) DEF Kept, PinsTracked
<1>3. buffer' \in BufferRecord /\ ~buffer'.length
  <2> DEFINE Named(b) == [buffer EXCEPT !.virtual = p, !.length = FALSE, !.page_address = b]
  <2>1. \/ buffer' = [buffer EXCEPT !.length = FALSE]
        \/ \E b \in Buffers : buffer' = Named(b)
    BY Zenon DEF RegisterFails
  <2>2. /\ [buffer EXCEPT !.length = FALSE] \in BufferRecord
        /\ [buffer EXCEPT !.length = FALSE].length = FALSE
    BY LengthOff, Zenon DEF Kept, BufferRecord
  <2>3. ASSUME NEW b \in Buffers
        PROVE  Named(b) \in BufferRecord /\ Named(b).length = FALSE
    BY NamedOff, Zenon DEF Kept, BufferRecord
  <2> HIDE DEF Named
  <2> QED BY <2>1, <2>2, <2>3, Zenon
<1>4. lost' \in [Procs -> Nat]
  BY <1>1, SMTT(30) DEF Kept
<1> QED BY <1>1, <1>2, <1>3, <1>4, Zenon DEF Kept

(* unreg_hugemem releases the pages of the list and empties it.            *)
LEMMA KeptUnregister ==
  ASSUME Kept, NEW p \in Procs, UnregisterBuffer(p)
  PROVE  Kept'
<1>1. CASE ~buffer.length
  BY <1>1, Zenon DEF UnregisterBuffer, Kept, PinsTracked
<1>2. CASE buffer.length
  <2>1. /\ buffer' = [buffer EXCEPT !.length = FALSE]
        /\ num_pages' = FALSE /\ num_pages /\ pages' = pages /\ lost' = lost
        /\ pins' = [pins EXCEPT ![pages] = @ - 1]
    BY <1>2, Zenon DEF UnregisterBuffer, Kept
  <2>2. pages \in Procs /\ pins[pages] = lost[pages] + 1
    BY <2>1, SMTT(30) DEF Kept, PinsTracked
  <2>3. pins' \in [Procs -> Nat] /\ PinsTracked'
    BY <2>1, <2>2, SMTT(30) DEF Kept, PinsTracked
  <2>4. buffer' \in BufferRecord /\ ~buffer'.length
    BY <2>1, LengthOff, Zenon DEF Kept, BufferRecord
  <2> QED BY <2>1, <2>3, <2>4, Zenon DEF Kept
<1> QED BY <1>1, <1>2, Zenon

(* No other step touches the records.                                      *)
LEMMA KeptNext ==
  ASSUME Kept, [IoctlNext]_ioctlVars
  PROVE  Kept'
<1>1. CASE UNCHANGED memory
  BY <1>1, Zenon DEF memory, Kept, PinsTracked
<1>2. CASE EngineDone \/ UNCHANGED ioctlVars
  BY <1>1, <1>2, Zenon DEF EngineDone, ioctlVars, memory
<1>3. ASSUME NEW p \in Procs, Program(p) PROVE UNCHANGED memory
  BY <1>3, Zenon DEF Program, StartBenchmark, RunBenchmark, EndBenchmark, RwBar, Call, memory
<1>4. ASSUME NEW p \in Procs, Interrupted(p) PROVE UNCHANGED memory
  BY <1>4, Zenon DEF Interrupted, memory
<1>5. ASSUME NEW p \in Procs, Ioctl(p) PROVE Kept'
  <2>1. CASE Down(p) \/ Copy(p) \/ Access(p) \/ Oops(p)
    BY <1>1, <2>1, Zenon DEF Down, Copy, Access, Oops, memory
  <2>2. CASE WriteDescriptor(p) \/ Poll(p) \/ Up(p)
    BY <1>1, <2>2, Zenon DEF WriteDescriptor, Poll, Up, memory
  <2> QED BY <1>5, <2>1, <2>2, KeptRegister, KeptFails, KeptUnregister, Zenon DEF Ioctl
<1> QED BY <1>1, <1>2, <1>3, <1>4, <1>5, Zenon DEF IoctlNext

(* The driver accounts for every page it pins (reg_hugemem, unreg_hugemem):*)
(* for any number of processes, with signals, failures and benchmarks that *)
(* overlap or quit, a pinned page is on the list of pages or was on a list *)
(* that a later registration wrote over.                                   *)
THEOREM PinsAreTracked == IoctlSpec => []PinsTracked
<1>1. Kept => PinsTracked
  BY Zenon DEF Kept
<1> QED BY <1>1, KeptInit, KeptNext, PTL DEF IoctlSpec

-----------------------------------------------------------------------------
(* Nothing takes the semaphore from the process that waits for the engine. *)
Quiet == ~MayInterrupt /\ ~MayNotMap /\ ~MayTimeOut

(* An operation is in flight only while its program polls.  Nobody else is *)
(* inside then, so the registration it was started under is still the one  *)
(* in force.                                                               *)
InFlight ==
  dma.active => /\ dma.owner \in Procs /\ pc[dma.owner] = "poll"
                /\ buffer.length => dma.target = pages

(* Every step keeps an operation under its registration.                   *)
LEMMA InFlightNext ==
  ASSUME Quiet, Exclusion, Kept, InFlight, [IoctlNext]_ioctlVars
  PROVE  InFlight'
<1>1. ASSUME NEW p \in Procs, NEW l, pc[p] # "poll", Goto(p, l), UNCHANGED <<memory, dma>>
      PROVE  InFlight'
  BY <1>1, SMTT(30) DEF Goto, memory, InFlight, Exclusion
<1>2. ASSUME NEW p \in Procs, pc[p] = "work", dma' = dma, Goto(p, "up")
      PROVE  InFlight'
  <2>1. ~dma.active
    BY <1>2, Zenon DEF InFlight, Exclusion, OneIoctlAtATime, Inside
  <2> QED BY <1>2, <2>1, Zenon DEF InFlight
<1>3. CASE UNCHANGED ioctlVars
  BY <1>3, Zenon DEF ioctlVars, InFlight
<1>4. CASE EngineDone
  BY <1>4, SMTT(30) DEF EngineDone, Idle, InFlight
<1>5. ASSUME NEW p \in Procs, Program(p) PROVE InFlight'
  <2>1. ASSUME NEW c, Call(p, c) PROVE InFlight'
    BY <1>1, <2>1, Zenon DEF Call, memory
  <2>2. CASE EndBenchmark(p) /\ UNCHANGED <<pc, memory, dma>>
    BY <2>2, Zenon DEF memory, InFlight
  <2> QED BY <1>5, <2>1, <2>2, Zenon DEF Program, StartBenchmark, RunBenchmark, EndBenchmark,
     RwBar, memory
<1>6. ASSUME NEW p \in Procs, Ioctl(p) PROVE InFlight'
  <2>1. CASE Down(p)
    BY <1>1, <2>1, Zenon DEF Down, memory
  <2>2. CASE Copy(p)
    BY <1>1, <2>2, Zenon DEF Copy, memory
  <2>3. CASE Access(p)
    BY <1>1, <2>3, Zenon DEF Access, Works, memory
  <2>4. CASE Oops(p)
    BY <1>1, <2>4, Zenon DEF Oops, Works, memory
  <2>5. CASE Up(p)
    BY <1>1, <2>5, Zenon DEF Up, memory
  <2>6. CASE RegisterBuffer(p) \/ UnregisterBuffer(p)
    BY <1>2, <2>6, Zenon DEF RegisterBuffer, UnregisterBuffer, Works
  <2>7. CASE WriteDescriptor(p)
    <3>1. CASE Goto(p, "up") /\ UNCHANGED dma
      BY <1>2, <2>7, <3>1, Zenon DEF WriteDescriptor, Works
    <3>2. CASE /\ dma' = [active |-> TRUE, target |-> Target, owner |-> p]
               /\ Goto(p, "poll")
      <4>1. UNCHANGED memory
        BY <2>7, Zenon DEF WriteDescriptor
      <4>2. buffer.length => Target = pages
        BY DriverAssumption, Zenon DEF Kept, Target
      <4>3. dma'.owner = p /\ dma'.target = Target
        BY <3>2, SMTT(30)
      <4>4. pc'[p] = "poll"
        BY <3>2, Zenon DEF Goto, Exclusion
      <4> QED BY <4>1, <4>2, <4>3, <4>4, Zenon DEF memory, InFlight
    <3> QED BY <2>7, <3>1, <3>2, Zenon DEF WriteDescriptor
  <2>8. CASE Poll(p)
    BY <2>8, Zenon DEF Poll, Quiet, InFlight
  <2> QED BY <1>6, <2>1, <2>2, <2>3, <2>4, <2>5, <2>6, <2>7, <2>8, Zenon DEF Ioctl,
     RegisterFails, Quiet
<1> QED BY <1>3, <1>4, <1>5, <1>6, Zenon DEF IoctlNext, Interrupted, Quiet

(* What the registration of a buffer is for (nfpmem.c: "locked in memory   *)
(* for the duration of the DMA transfer"): for any number of benchmarks,   *)
(* overlapping or not, an operation under a registration in force goes to  *)
(* pinned pages, if no signal, failed registration or timeout intervenes.  *)
THEOREM RegistrationIsSound ==
  ASSUME Quiet
  PROVE  IoctlSpec => []DmaTargetPinned
<1>1. IoctlInit => InFlight
  BY SMTT(30) DEF IoctlInit, Idle, InFlight
<1>2. Exclusion /\ [IoctlNext]_ioctlVars => Exclusion'
  BY ExclusionNext, Zenon DEF Quiet
<1>3. Exclusion /\ Kept /\ InFlight /\ [IoctlNext]_ioctlVars => InFlight'
  BY InFlightNext, Zenon
<1>4. Kept /\ InFlight => DmaTargetPinned
  BY SMTT(30) DEF Kept, InFlight, PinsTracked, DmaTargetPinned
<1> QED BY <1>1, <1>2, <1>3, <1>4, ExclusionInit, KeptInit, KeptNext, PTL DEF IoctlSpec

(* As long as the benchmarks have been orderly, one runs at a time; what   *)
(* is in the driver besides accesses to registers is its, or a release     *)
(* after its end; and the registration in force is its own.                *)
OneRuns == \A p, q \in running : p = q
OwnCalls ==
  \A p \in Procs : pc[p] # "user" /\ cmd[p] \notin Register =>
    \/ p \in running
    \/ cmd[p] = "NFPIOC_UNREGISTER_BUFFER" /\ running = {}
OwnBuffer == buffer.length => running \subseteq {pages}

Turns ==
  /\ pc \in [Procs -> Labels]
  /\ cmd \in [Procs -> Commands]
  /\ orderly => OneRuns /\ OwnCalls /\ OwnBuffer

(* A program enters nfp_ioctl; its start ends the order unless it is alone.*)
LEMMA TurnsProgram ==
  ASSUME Turns, NEW p \in Procs, Program(p)
  PROVE  Turns'
<1>1. UNCHANGED memory
  BY Zenon DEF Program, StartBenchmark, RunBenchmark, EndBenchmark, RwBar, Call, memory
<1>2. ASSUME NEW c \in Commands, Call(p, c)
      PROVE  /\ pc' \in [Procs -> Labels] /\ cmd' \in [Procs -> Commands]
             /\ pc'[p] # "user" /\ cmd'[p] = c
             /\ \A q \in Procs : q # p => pc'[q] = pc[q] /\ cmd'[q] = cmd[q]
  BY <1>2, SMTT(30) DEF Call, Goto, Labels, Turns
<1>3. /\ {"NFPIOC_WINDOW_SIZE", "NFPIOC_REGISTER_BUFFER"} \subseteq Commands
      /\ Register \subseteq Commands /\ Descriptor \subseteq Commands
      /\ "NFPIOC_UNREGISTER_BUFFER" \in Commands
  BY SMTT(30) DEF Commands
<1>4. CASE StartBenchmark(p)
  <2>1. /\ pc' \in [Procs -> Labels] /\ cmd' \in [Procs -> Commands]
        /\ \A q \in Procs : q # p => pc'[q] = pc[q] /\ cmd'[q] = cmd[q]
    BY <1>2, <1>3, <1>4, Zenon DEF StartBenchmark
  <2>2. ASSUME orderly' PROVE OneRuns' /\ OwnCalls' /\ OwnBuffer'
    <3>1. running' = {p} /\ Alone
      <4>1. running' = running \cup {p} /\ Alone
        BY <1>4, <2>2, Zenon DEF StartBenchmark
      <4>2. running = {}
        BY <4>1, Zenon DEF Alone
      <4> QED BY <4>1, <4>2, SMTT(30)
    <3>2. OneRuns'
      BY <3>1, Zenon DEF OneRuns
    <3>3. OwnCalls'
      <4> SUFFICES ASSUME NEW q \in Procs, q # p
                   PROVE  pc[q] = "user" \/ cmd[q] \in Register
        BY <2>1, <3>1, Zenon DEF OwnCalls
      <4> QED BY <3>1, Zenon DEF Alone
    <3>4. OwnBuffer'
      BY <1>1, <3>1, Zenon DEF Alone, OwnBuffer, memory
    <3> QED BY <3>2, <3>3, <3>4, Zenon
  <2> QED BY <2>1, <2>2, Zenon DEF Turns
<1>5. CASE RunBenchmark(p)
  <2>1. /\ pc' \in [Procs -> Labels] /\ cmd' \in [Procs -> Commands]
        /\ \A q \in Procs : q # p => pc'[q] = pc[q] /\ cmd'[q] = cmd[q]
    BY <1>2, <1>3, <1>5, Zenon DEF RunBenchmark
  <2>2. p \in running /\ UNCHANGED <<running, orderly, buffer, pages>>
    BY <1>1, <1>5, Zenon DEF RunBenchmark, programs, memory
  <2>3. OwnCalls => OwnCalls'
    <3> SUFFICES ASSUME OwnCalls, NEW q \in Procs, q # p, pc'[q] # "user",
                        cmd'[q] \notin Register
                 PROVE  \/ q \in running
                        \/ cmd'[q] = "NFPIOC_UNREGISTER_BUFFER" /\ running = {}
      BY <2>2, Zenon DEF OwnCalls
    <3> QED BY <2>1, Zenon DEF OwnCalls
  <2>4. OneRuns /\ OwnBuffer => OneRuns' /\ OwnBuffer'
    BY <2>2, Zenon DEF OneRuns, OwnBuffer
  <2> QED BY <2>1, <2>2, <2>3, <2>4, Zenon DEF Turns
<1>6. CASE EndBenchmark(p)
  <2>1. p \in running /\ running' = running \ {p} /\ orderly' = orderly
    BY <1>6, Zenon DEF EndBenchmark
  <2>2. \/ Call(p, "NFPIOC_UNREGISTER_BUFFER")
        \/ pc[p] = "user" /\ UNCHANGED <<pc, cmd>>
    BY <1>6, Zenon DEF EndBenchmark
  <2>3. /\ pc' \in [Procs -> Labels] /\ cmd' \in [Procs -> Commands]
        /\ pc'[p] = "user" \/ cmd'[p] = "NFPIOC_UNREGISTER_BUFFER"
        /\ \A q \in Procs : q # p => pc'[q] = pc[q] /\ cmd'[q] = cmd[q]
    BY <1>2, <1>3, <2>2, Zenon DEF Turns
  <2>4. ASSUME OneRuns, OwnCalls PROVE OneRuns' /\ OwnCalls' /\ OwnBuffer'
    <3>1. running' = {}
      BY <2>1, <2>4, SMTT(30) DEF OneRuns
    <3>2. \A q \in Procs : q # p => pc[q] = "user" \/ cmd[q] \in Register
      BY <2>1, <2>4, SMTT(30) DEF OneRuns, OwnCalls, Register
    <3>3. OwnCalls'
      BY <2>3, <3>1, <3>2, Zenon DEF OwnCalls
    <3> QED BY <3>1, <3>3, Zenon DEF OneRuns, OwnBuffer
  <2> QED BY <2>1, <2>3, <2>4, Zenon DEF Turns
<1>7. CASE RwBar(p)
  <2>1. /\ pc' \in [Procs -> Labels] /\ cmd' \in [Procs -> Commands]
        /\ cmd'[p] \in Register
        /\ \A q \in Procs : q # p => pc'[q] = pc[q] /\ cmd'[q] = cmd[q]
    BY <1>2, <1>3, <1>7, Zenon DEF RwBar
  <2>2. UNCHANGED <<running, orderly, buffer, pages>>
    BY <1>1, <1>7, Zenon DEF RwBar, programs, memory
  <2>3. OwnCalls => OwnCalls'
    BY <2>1, <2>2, Zenon DEF OwnCalls
  <2>4. OneRuns /\ OwnBuffer => OneRuns' /\ OwnBuffer'
    BY <2>2, Zenon DEF OneRuns, OwnBuffer
  <2> QED BY <2>1, <2>2, <2>3, <2>4, Zenon DEF Turns
<1> QED BY <1>4, <1>5, <1>6, <1>7, Zenon DEF Program

(* Inside nfp_ioctl only a registration puts one in force, and it is that  *)
(* of the benchmark that runs.                                             *)
LEMMA TurnsIoctl ==
  ASSUME Turns, Kept, NEW p \in Procs, Ioctl(p) \/ Interrupted(p)
  PROVE  Turns'
<1>1. /\ UNCHANGED <<cmd, programs>> /\ pc[p] # "user"
      /\ \E l \in Labels : Goto(p, l)
  BY Zenon DEF Ioctl, Interrupted, Down, Copy, Access, Oops, RegisterBuffer, RegisterFails,
     UnregisterBuffer, WriteDescriptor, Poll, Up, Works, Labels
<1>2. /\ pc' \in [Procs -> Labels]
      /\ \A q \in Procs : pc'[q] # "user" => pc[q] # "user"
  BY <1>1, SMTT(30) DEF Goto, Turns
<1>3. buffer'.length => \/ buffer.length /\ pages' = pages
                        \/ Works(p, "NFPIOC_REGISTER_BUFFER") /\ pages' = p
  <2>1. CASE RegisterBuffer(p)
    BY <2>1, Zenon DEF RegisterBuffer
  <2>2. CASE RegisterFails(p)
    <3>1. ~buffer'.length
      BY <2>2, KeptFails, Zenon DEF RegisterFails, Kept
    <3> QED BY <3>1, Zenon
  <2>3. CASE UnregisterBuffer(p)
    BY <2>3, LengthOff, Zenon DEF UnregisterBuffer, Kept, BufferRecord
  <2>4. CASE UNCHANGED memory
    BY <2>4, Zenon DEF memory
  <2> QED BY <2>1, <2>2, <2>3, <2>4, Zenon DEF Ioctl, Interrupted, Down, Copy, Access,
     Oops, WriteDescriptor, Poll, Up
<1>4. OneRuns /\ OwnCalls /\ Works(p, "NFPIOC_REGISTER_BUFFER") => running \subseteq {p}
  BY SMTT(30) DEF OneRuns, OwnCalls, Works, Register
<1>5. OneRuns /\ OwnCalls /\ OwnBuffer => OwnBuffer'
  BY <1>1, <1>3, <1>4, Zenon DEF OwnBuffer, programs
<1>6. OwnCalls => OwnCalls'
  BY <1>1, <1>2, Zenon DEF OwnCalls, programs
<1>7. OneRuns => OneRuns'
  BY <1>1, Zenon DEF OneRuns, programs
<1> QED BY <1>1, <1>2, <1>5, <1>6, <1>7, Zenon DEF programs, Turns

(* Every step keeps the turns.                                             *)
LEMMA TurnsNext ==
  ASSUME Turns, Kept, [IoctlNext]_ioctlVars
  PROVE  Turns'
<1>1. CASE EngineDone \/ UNCHANGED ioctlVars
  BY <1>1, SMTT(30) DEF EngineDone, ioctlVars, programs, memory, Turns, OneRuns, OwnCalls,
     OwnBuffer
<1> QED BY <1>1, TurnsProgram, TurnsIoctl, Zenon DEF IoctlNext

(* An operation under a registration in force is on the buffer of its own  *)
(* program (nfp_ioctl, NFPIOC_WRITE_DMA_DESCRIPTOR), for any number of     *)
(* processes, as long as no benchmark has overlapped another or quit       *)
(* before its release, and no signal, failed registration or timeout       *)
(* intervenes.                                                             *)
THEOREM TargetsAreOwn ==
  ASSUME Quiet
  PROVE  IoctlSpec => []DmaTargetOwn
<1>1. IoctlInit => InFlight /\ Turns /\ DmaTargetOwn
  <2> SUFFICES ASSUME IoctlInit PROVE InFlight /\ Turns /\ DmaTargetOwn
    OBVIOUS
  <2>1. ~dma.active /\ ~buffer.length
    BY SMTT(30) DEF IoctlInit, Idle
  <2> QED BY <2>1, Zenon DEF IoctlInit, InFlight, Turns, OneRuns, OwnCalls, OwnBuffer,
     DmaTargetOwn, Labels, Commands, Register
<1>2. Exclusion /\ [IoctlNext]_ioctlVars => Exclusion'
  BY ExclusionNext, Zenon DEF Quiet
<1>3. ASSUME Exclusion, Kept, InFlight, Turns, DmaTargetOwn, [IoctlNext]_ioctlVars
      PROVE  DmaTargetOwn'
  <2>1. InFlight'
    BY <1>3, InFlightNext, Zenon
  <2>2. CASE \E p \in Procs : WriteDescriptor(p) /\ dma' # dma
    <3>1. PICK p \in Procs : WriteDescriptor(p) /\ dma' # dma
      BY <2>2, Zenon
    <3>2. /\ dma' = [active |-> TRUE, target |-> Target, owner |-> p]
          /\ UNCHANGED <<memory, programs>> /\ Works(p, "NFPIOC_WRITE_DMA_DESCRIPTOR")
      BY <3>1, Zenon DEF WriteDescriptor
    <3>3. dma'.target = Target /\ dma'.owner = p
      BY <3>2, SMTT(30)
    <3>4. buffer.length => Target = pages
      BY <1>3, DriverAssumption, Zenon DEF Kept, Target
    <3>5. orderly /\ buffer.length => p = pages
      BY <1>3, <3>2, SMTT(30) DEF Turns, OneRuns, OwnCalls, OwnBuffer, Works,
         Register
    <3> QED BY <3>2, <3>3, <3>4, <3>5, Zenon DEF memory, programs, DmaTargetOwn
  <2>3. CASE ~dma'.active
    BY <2>3, Zenon DEF DmaTargetOwn
  <2>4. CASE dma' = dma /\ dma.active
    <3>1. orderly' => orderly
      BY <1>3, Zenon DEF IoctlNext, ioctlVars, EngineDone, Program, Ioctl, Interrupted,
         StartBenchmark, RunBenchmark, EndBenchmark, RwBar, Down, Copy, Access, Oops,
         RegisterBuffer, RegisterFails, UnregisterBuffer, WriteDescriptor, Poll, Up, programs
    <3>2. buffer'.length => buffer.length
      <4>1. ASSUME NEW p \in Procs, Works(p, "NFPIOC_REGISTER_BUFFER") PROVE FALSE
        BY <1>3, <2>4, <4>1, Zenon DEF InFlight, Exclusion, OneIoctlAtATime, Inside, Works
      <4>2. ASSUME NEW p \in Procs, UnregisterBuffer(p) PROVE buffer'.length => buffer.length
        BY <1>3, <4>2, LengthOff, Zenon DEF UnregisterBuffer, Kept, BufferRecord
      <4> QED BY <1>3, <4>1, <4>2, Zenon DEF IoctlNext, ioctlVars, EngineDone, Program, Ioctl,
         Interrupted, StartBenchmark, RunBenchmark, EndBenchmark, RwBar, Call, Down, Copy,
         Access, Oops, RegisterBuffer, RegisterFails, WriteDescriptor, Poll, Up, memory
    <3> QED BY <1>3, <2>4, <3>1, <3>2, Zenon DEF DmaTargetOwn
  <2>5. dma' = dma \/ ~dma'.active \/ \E p \in Procs : WriteDescriptor(p) /\ dma' # dma
    <3>1. EngineDone => ~dma'.active
      BY SMTT(30) DEF EngineDone, Idle
    <3> QED BY <1>3, <3>1, Zenon DEF IoctlNext, ioctlVars, Program, Ioctl, Interrupted,
       StartBenchmark, RunBenchmark, EndBenchmark, RwBar, Call, Down, Copy, Access, Oops,
       RegisterBuffer, RegisterFails, UnregisterBuffer, Poll, Up
  <2> QED BY <2>2, <2>3, <2>4, <2>5, Zenon
<1>4. Exclusion /\ Kept /\ InFlight /\ [IoctlNext]_ioctlVars => InFlight'
  BY InFlightNext, Zenon
<1> QED BY <1>1, <1>2, <1>3, <1>4, ExclusionInit, KeptInit, KeptNext, TurnsNext, PTL
   DEF IoctlSpec

-----------------------------------------------------------------------------
(* BAR 0.  For any number of descriptors and any values: as long as the    *)
(* host reads no statistics and no offset below the table right after a    *)
(* write, every completion carries a value that the register has held      *)
(* since its read was taken.  The completer takes the next acknowledge for *)
(* its own, so the argument is about which acknowledges can still be in    *)
(* the pipeline at each of its states.                                     *)

(* Registers of which the value is at hand before any acknowledge.         *)
Prompt == {"engine", "ctrl"}

Reading == state \in {"S_STORE_RD_REQ", "S_WAIT_FOR_RD_CPL", "S_SEND_RD_CPL"}
Waiting == state = "S_WAIT_FOR_RD_CPL"

(* The states hold the request they work on.                               *)
RequestHeld ==
  /\ Reading => req \in Reads
  /\ state = "S_STORE_WR_REQ" => req \in Writes /\ wrote

(* Acknowledges that the pipeline cannot hold.                             *)
NoStrayAck ==
  /\ state \in {"S_RESET", "S_WAIT_FOR_REQ", "S_SEND_UNSUPPORTED_REQ"} /\ ~wrote =>
       ~ack_pipe[1] /\ ~ack_pipe[2]
  /\ state = "S_STORE_RD_REQ" /\ req.kind \notin Prompt =>
       ~ack_pipe[1] /\ ~ack_pipe[2] /\ ~ack_pipe[3]
  /\ Waiting /\ req.kind = "stats" =>
       \A i, j \in 1 .. 4 : ack_pipe[i] /\ ack_pipe[j] => i = j
  /\ Waiting /\ req.kind = "below" => \A i \in 1 .. 4 : ~ack_pipe[i]
  /\ Waiting => (ack_ctrl_r <=> req.kind = "ctrl")
  /\ state = "S_SEND_RD_CPL" => ~ack_pipe[1]

(* The contents of the register are on record, and the value on its way to *)
(* the completer is one of them: of an engine register from the access on, *)
(* of the statistics as far as the acknowledge has come.                   *)
OnRecord ==
  /\ Reading => Contents(req) \in held
  /\ Waiting /\ req.kind = "engine" => is_engine_read_r /\ rdata_engine_r \in held
  /\ Waiting /\ req.kind = "stats" =>
       /\ ~is_engine_read_r /\ addra_time_r = req.index
       /\ ack_pipe[2] \/ ack_pipe[3] \/ ack_pipe[4] => doutb_time.latch \in held
       /\ ack_pipe[3] \/ ack_pipe[4] => doutb_time.out \in held
       /\ ack_pipe[4] => rdata_descriptor_r \in held
  /\ ReadReturnsItsRegister

AccessInv == TypeOK /\ RequestHeld /\ NoStrayAck /\ OnRecord

-----------------------------------------------------------------------------
(* The acknowledges move on by one place.                                  *)
LEMMA AckMoves ==
  ASSUME TypeOK, AckEdge
  PROVE  /\ ack_pipe' \in [1 .. 4 -> BOOLEAN]
         /\ ack_pipe'[1] => en_dma /\ ~user_reset
         /\ ack_pipe'[2] => ack_pipe[1]
         /\ ack_pipe'[3] => ack_pipe[2]
         /\ ack_pipe'[4] => ack_pipe[3]
<1>1. en_dma \in BOOLEAN /\ \A i \in 1 .. 4 : ack_pipe[i] \in BOOLEAN
  BY Zenon DEF en_dma, en, TypeOK
<1>2. CASE user_reset
  <2>1. PICK f \in BOOLEAN : ~f /\ ack_pipe' = <<f, f, f, f>>
    BY <1>2, Zenon DEF AckEdge
  <2> QED BY <2>1, SMTT(30)
<1>3. CASE ~user_reset
  BY <1>1, <1>3, SMTT(30) DEF AckEdge
<1> QED BY <1>2, <1>3, Zenon

(* A decoded request by its kind.                                          *)
LEMMA DecodedKinds ==
  ASSUME NEW r \in Decoded
  PROVE  /\ r \in {NoRequest, Unsupported} \cup Reads \cup Writes
         /\ r.op = "VALID_RD_REQ" => r \in Reads /\ (wrote => r.kind \in ReadAfterWrite)
         /\ r.op = "VALID_WR_REQ" => r \in Writes
  BY SMTT(30) DEF Decoded, NoRequest, Unsupported, Reads, Writes

(* Every request names a descriptor.                                       *)
LEMMA RequestFields ==
  ASSUME NEW r \in {NoRequest, Unsupported} \cup Reads \cup Writes
  PROVE  /\ r.index \in Descriptors /\ r.data \in Nat
         /\ r \in Reads => r.kind \in {"engine", "stats", "ctrl", "below"}
         /\ r \in Writes => r.kind \in {"engine", "ctrl", "below"}
  BY RegisterAssumption, SMTT(30) DEF NoRequest, Unsupported, Reads, Writes, Descriptors

(* What a register holds is a number.                                      *)
LEMMA ContentsNat ==
  ASSUME NEW r \in {NoRequest, Unsupported} \cup Reads \cup Writes,
         NEW c \in Nat, NEW s \in [Descriptors -> Nat]
  PROVE  (CASE r.kind = "engine" -> c [] r.kind = "stats" -> s[r.index]
            [] r.kind = "ctrl" -> CtrlValue [] OTHER -> 0) \in Nat
  BY RequestFields, RegisterAssumption, Zenon

(* The states an edge can lead to.                                         *)
LEMMA StateMoves ==
  ASSUME AccessInv, NEW r \in Decoded, NEW tready \in BOOLEAN, CompleterEdge(r, tready)
  PROVE  /\ state' \in {"S_RESET", "S_WAIT_FOR_REQ", "S_STORE_WR_REQ", "S_STORE_RD_REQ",
                        "S_WAIT_FOR_RD_CPL", "S_SEND_RD_CPL", "S_SEND_UNSUPPORTED_REQ"}
         /\ state' = "S_STORE_RD_REQ" =>
              /\ state = "S_WAIT_FOR_REQ" /\ req' = r /\ req' \in Reads
              /\ wrote => req'.kind \in ReadAfterWrite
         /\ state' = "S_STORE_WR_REQ" => state = "S_WAIT_FOR_REQ" /\ req' \in Writes
         /\ Waiting' => /\ state = "S_STORE_RD_REQ" \/ (Waiting /\ ~ack)
                        /\ req' = req
         /\ state' = "S_SEND_RD_CPL" =>
              /\ req' = req
              /\ \/ state = "S_SEND_RD_CPL" /\ cpl_data' = cpl_data
                 \/ Waiting /\ ack /\ cpl_data' = dout
         /\ state' \in {"S_RESET", "S_WAIT_FOR_REQ", "S_SEND_UNSUPPORTED_REQ"} =>
              state \in {"S_RESET", "S_WAIT_FOR_REQ", "S_SEND_UNSUPPORTED_REQ", "S_STORE_WR_REQ",
                         "S_SEND_RD_CPL"}
<1>1. CASE state \in {"S_RESET", "S_SEND_UNSUPPORTED_REQ", "S_STORE_WR_REQ"}
  BY <1>1, Zenon DEF CompleterEdge, NextState, Waiting
<1>2. CASE state = "S_WAIT_FOR_REQ"
  BY <1>2, DecodedKinds, Zenon DEF CompleterEdge, NextState, Waiting
<1>3. CASE state = "S_STORE_RD_REQ"
  BY <1>3, Zenon DEF CompleterEdge, NextState, Waiting
<1>4. CASE state = "S_WAIT_FOR_RD_CPL"
  <2>1. CASE ack
    BY <1>4, <2>1, Zenon DEF CompleterEdge, NextState, Waiting
  <2>2. CASE ~ack
    BY <1>4, <2>2, Zenon DEF CompleterEdge, NextState, Waiting
  <2> QED BY <2>1, <2>2, Zenon
<1>5. CASE state = "S_SEND_RD_CPL"
  BY <1>5, Zenon DEF CompleterEdge, NextState, Waiting
<1> QED BY <1>1, <1>2, <1>3, <1>4, <1>5, Zenon DEF AccessInv, TypeOK

(* The value on dout is a number.                                          *)
LEMMA DoutNat ==
  ASSUME TypeOK PROVE dout \in Nat
  BY RegisterAssumption, Zenon DEF TypeOK, dout

(* An edge keeps the types, and the states keep their request.             *)
LEMMA EdgeTypes ==
  ASSUME AccessInv, NEW r \in Decoded, NEW tready \in BOOLEAN, ClockEdge(r, tready)
  PROVE  TypeOK' /\ RequestHeld'
<1> USE DEF ClockEdge
<1>1. TypeOK
  BY Zenon DEF AccessInv
<1>2. req' \in {NoRequest, Unsupported} \cup Reads \cup Writes
  BY <1>1, DecodedKinds, Zenon DEF TypeOK, CompleterEdge
<1>3. cpl_data' \in Nat
  BY <1>1, DoutNat, Zenon DEF TypeOK, CompleterEdge
<1>4. we => req.data \in Nat
  BY <1>1, RequestFields, Zenon DEF TypeOK
<1>5. control_r' \in Nat /\ stats' \in [Descriptors -> Nat]
  BY <1>1, <1>4, RegisterAssumption, Zenon DEF TypeOK, RegistersEdge
<1>6. addra_time_r' \in Descriptors /\ rdata_engine_r' \in Nat /\ rdata_descriptor_r' \in Nat
      /\ doutb_time' \in [latch : Nat, out : Nat]
  <2>1. req.index \in Descriptors /\ 0 \in Descriptors
    BY <1>1, RequestFields, RegisterAssumption, SMTT(30) DEF TypeOK, Descriptors
  <2>2. stats[addra_time_r] \in Nat /\ stats'[addra_time_r] \in Nat
        /\ doutb_time.latch \in Nat /\ doutb_time.out \in Nat
    BY <1>1, <1>5, Zenon DEF TypeOK
  <2> QED BY <1>1, <2>1, <2>2, SMTT(30) DEF TypeOK, ReadPathEdge, StatsIndex
<1>7. is_engine_read_r' \in BOOLEAN
  BY <1>1, ZenonT(30) DEF TypeOK, ReadPathEdge
<1>8. ack_ctrl_r' \in BOOLEAN
  BY Zenon DEF CtrlEdge
<1>9. wrote' \in BOOLEAN
  BY <1>1, Zenon DEF TypeOK, HistoryEdge
<1>10. held' \subseteq Nat
  <2>1. Contents(req)' \in Nat
    BY <1>2, <1>5, ContentsNat, Zenon DEF Contents
  <2> QED BY <1>1, <2>1, Zenon DEF TypeOK, HistoryEdge
<1>11. RequestHeld'
  BY <1>1, StateMoves, Zenon DEF RequestHeld, Reading, AccessInv, Waiting, HistoryEdge
<1> QED
  BY <1>1, <1>2, <1>3, <1>5, <1>6, <1>7, <1>8, <1>9, <1>10, <1>11, StateMoves,
     AckMoves, Zenon DEF TypeOK

(* The register contents of a read stay on record, and an edge adds the    *)
(* new ones.                                                               *)
LEMMA RecordGrows ==
  ASSUME AccessInv, NEW r \in Decoded, NEW tready \in BOOLEAN, ClockEdge(r, tready)
  PROVE  /\ Reading' => Contents(req)' \in held'
         /\ state' \in {"S_WAIT_FOR_RD_CPL", "S_SEND_RD_CPL"} =>
              /\ held \subseteq held' /\ Contents(req) \in held /\ req' = req /\ req \in Reads
<1>1. /\ Reading' => Contents(req)' \in held'
      /\ state' \in {"S_WAIT_FOR_RD_CPL", "S_SEND_RD_CPL"} => held \subseteq held'
  BY Zenon DEF ClockEdge, HistoryEdge, Reading
<1>2. state' \in {"S_WAIT_FOR_RD_CPL", "S_SEND_RD_CPL"} => Reading /\ req' = req
  BY StateMoves, Zenon DEF ClockEdge, Reading, Waiting
<1> QED BY <1>1, <1>2, Zenon DEF AccessInv, OnRecord, RequestHeld

(* No acknowledge strays into a read that would take it for its own.       *)
LEMMA EdgeAcks ==
  ASSUME ReadAfterWrite \subseteq Prompt,
         AccessInv, NEW r \in Decoded, NEW tready \in BOOLEAN, ClockEdge(r, tready)
  PROVE  NoStrayAck'
<1> USE DEF ClockEdge
<1>1. /\ ack_pipe \in [1 .. 4 -> BOOLEAN]
      /\ ack_pipe' \in [1 .. 4 -> BOOLEAN]
      /\ ack_pipe'[1] => en_dma /\ ~user_reset
      /\ ack_pipe'[2] => ack_pipe[1]
      /\ ack_pipe'[3] => ack_pipe[2]
      /\ ack_pipe'[4] => ack_pipe[3]
  BY AckMoves, Zenon DEF AccessInv, TypeOK
<1>2. ack_pipe'[1] => state \in {"S_STORE_RD_REQ", "S_STORE_WR_REQ"}
  BY <1>1, Zenon DEF en_dma, en
<1>3. ASSUME state' \in {"S_RESET", "S_WAIT_FOR_REQ", "S_SEND_UNSUPPORTED_REQ"}, ~wrote'
      PROVE  ~ack_pipe'[1] /\ ~ack_pipe'[2]
  <2>1. \/ state = "S_SEND_RD_CPL"
        \/ state \in {"S_RESET", "S_WAIT_FOR_REQ", "S_SEND_UNSUPPORTED_REQ"} /\ ~wrote
        \/ state = "S_STORE_WR_REQ" /\ ~wrote
    BY <1>3, StateMoves, Zenon DEF HistoryEdge
  <2>2. state # "S_STORE_WR_REQ" \/ wrote
    BY Zenon DEF AccessInv, RequestHeld
  <2> QED BY <2>1, <2>2, <1>1, <1>2, Zenon DEF AccessInv, NoStrayAck
<1>4. ASSUME state' = "S_STORE_RD_REQ", req'.kind \notin Prompt
      PROVE  ~ack_pipe'[1] /\ ~ack_pipe'[2] /\ ~ack_pipe'[3]
  <2>1. state = "S_WAIT_FOR_REQ" /\ ~wrote
    BY <1>4, StateMoves, Zenon DEF AccessInv, TypeOK
  <2> QED BY <2>1, <1>1, <1>2, Zenon DEF AccessInv, NoStrayAck
<1>5. ASSUME Waiting', req'.kind = "stats", NEW i \in 1 .. 4, NEW j \in 1 .. 4,
             ack_pipe'[i], ack_pipe'[j]
      PROVE  i = j
  <2>1. req.kind = "stats" /\ (state = "S_STORE_RD_REQ" \/ Waiting)
    BY <1>5, StateMoves, Zenon
  <2>2. CASE state = "S_STORE_RD_REQ"
    BY <2>1, <2>2, <1>1, <1>5, SMTT(30) DEF AccessInv, NoStrayAck, Prompt
  <2>3. CASE Waiting
    BY <2>1, <2>3, <1>1, <1>2, <1>5, SMTT(30) DEF AccessInv, NoStrayAck, Waiting
  <2> QED BY <2>1, <2>2, <2>3, Zenon
<1>6. ASSUME Waiting', req'.kind = "below", NEW i \in 1 .. 4
      PROVE  ~ack_pipe'[i]
  <2>1. req.kind = "below" /\ (state = "S_STORE_RD_REQ" \/ Waiting)
    BY <1>6, StateMoves, Zenon
  <2>2. ~ack_pipe'[1]
    BY <2>1, <1>1, Zenon DEF en_dma
  <2> QED BY <2>1, <2>2, <1>1, SMTT(30) DEF AccessInv, NoStrayAck, Prompt
<1>7. ASSUME Waiting' PROVE ack_ctrl_r' <=> req'.kind = "ctrl"
  <2>1. req' = req /\ (state = "S_STORE_RD_REQ" \/ (Waiting /\ ~ack))
    BY <1>7, StateMoves, Zenon
  <2>2. CASE state = "S_STORE_RD_REQ"
    BY <2>1, <2>2, Zenon DEF CtrlEdge, en_dma, en, we, user_reset
  <2>3. CASE Waiting /\ ~ack
    BY <2>1, <2>3, ZenonT(30) DEF CtrlEdge, en_dma, en, Waiting, ack, AccessInv, NoStrayAck
  <2> QED BY <2>1, <2>2, <2>3, Zenon
<1>8. ASSUME state' = "S_SEND_RD_CPL" PROVE ~ack_pipe'[1]
  BY <1>8, <1>2, StateMoves, Zenon DEF Waiting
<1> QED BY <1>3, <1>4, <1>5, <1>6, <1>7, <1>8, Zenon DEF NoStrayAck

(* The value on its way stays one of those on record.                      *)
LEMMA EdgeRecord ==
  ASSUME AccessInv, NEW r \in Decoded, NEW tready \in BOOLEAN, ClockEdge(r, tready)
  PROVE  OnRecord'
<1> USE DEF ClockEdge
<1>1. /\ ack_pipe \in [1 .. 4 -> BOOLEAN]
      /\ ack_pipe'[2] => ack_pipe[1]
      /\ ack_pipe'[3] => ack_pipe[2]
      /\ ack_pipe'[4] => ack_pipe[3]
  BY AckMoves, Zenon DEF AccessInv, TypeOK
<1>2. ASSUME Waiting', req'.kind = "engine"
      PROVE  is_engine_read_r' /\ rdata_engine_r' \in held'
  <2>1. /\ req.kind = "engine" /\ (state = "S_STORE_RD_REQ" \/ Waiting) /\ ~user_reset
        /\ held \subseteq held' /\ Contents(req) \in held
    BY <1>2, StateMoves, RecordGrows, Zenon DEF Waiting, user_reset, we
  <2>2. CASE state = "S_STORE_RD_REQ"
    BY <2>1, <2>2, ZenonT(30) DEF ReadPathEdge, en_dma, en, Contents
  <2>3. CASE Waiting
    BY <2>1, <2>3, Zenon DEF ReadPathEdge, en_dma, en, Waiting, AccessInv, OnRecord
  <2> QED BY <2>1, <2>2, <2>3, Zenon
<1>3. ASSUME Waiting', req'.kind = "stats"
      PROVE  /\ ~is_engine_read_r' /\ addra_time_r' = req'.index
             /\ ack_pipe'[2] \/ ack_pipe'[3] \/ ack_pipe'[4] => doutb_time'.latch \in held'
             /\ ack_pipe'[3] \/ ack_pipe'[4] => doutb_time'.out \in held'
             /\ ack_pipe'[4] => rdata_descriptor_r' \in held'
  <2>1. /\ req' = req /\ req.kind = "stats" /\ (state = "S_STORE_RD_REQ" \/ Waiting)
        /\ ~user_reset /\ held \subseteq held' /\ Contents(req) \in held
        /\ Contents(req)' \in held'
    BY <1>3, StateMoves, RecordGrows, Zenon DEF Waiting, user_reset, we, Reading
  <2>2. stats[req.index] \in held' /\ stats'[req.index] \in held'
    BY <2>1, Zenon DEF Contents
  <2>3. addra_time_r' = req'.index
    BY <2>1, Zenon DEF ReadPathEdge, StatsIndex
  <2>4. CASE state = "S_STORE_RD_REQ"
    <3>1. ~is_engine_read_r'
      BY <2>1, <2>4, ZenonT(30) DEF ReadPathEdge, en_dma, en
    <3>2. ~ack_pipe'[2] /\ ~ack_pipe'[3] /\ ~ack_pipe'[4]
      BY <1>1, <2>1, <2>4, Zenon DEF AccessInv, NoStrayAck, Prompt
    <3> QED BY <2>3, <3>1, <3>2, Zenon
  <2>5. CASE Waiting
    <3>1. ~is_engine_read_r' /\ addra_time_r = req.index
      BY <2>1, <2>5, ZenonT(30) DEF ReadPathEdge, en_dma, en, Waiting, AccessInv, OnRecord
    <3>2. doutb_time'.latch \in held'
      BY <2>1, <2>2, <3>1, SMTT(30) DEF ReadPathEdge
    <3>3. doutb_time'.out = doutb_time.latch /\ rdata_descriptor_r' = doutb_time.out
      BY <2>1, SMTT(30) DEF ReadPathEdge
    <3> QED BY <1>1, <2>1, <2>3, <2>5, <3>1, <3>2, <3>3, Zenon DEF AccessInv, OnRecord
  <2> QED BY <2>1, <2>4, <2>5, Zenon
<1>4. ASSUME state' = "S_SEND_RD_CPL" PROVE cpl_data' \in held'
  <2>1. held \subseteq held' /\ Contents(req) \in held /\ req \in Reads
    BY <1>4, RecordGrows, Zenon
  <2>2. CASE state = "S_SEND_RD_CPL" /\ cpl_data' = cpl_data
    BY <2>1, <2>2, Zenon DEF AccessInv, OnRecord, ReadReturnsItsRegister
  <2>3. CASE Waiting /\ ack /\ cpl_data' = dout
    <3>1. req.kind \in {"engine", "stats", "ctrl", "below"}
      BY <2>1, RequestFields, Zenon
    <3>2. ack_ctrl_r <=> req.kind = "ctrl"
      BY <2>3, Zenon DEF AccessInv, NoStrayAck
    <3>3. CASE req.kind = "ctrl"
      BY <2>1, <2>3, <3>2, <3>3, Zenon DEF dout, Contents
    <3>4. CASE req.kind = "engine"
      BY <2>1, <2>3, <3>2, <3>4, Zenon DEF dout, AccessInv, OnRecord
    <3>5. CASE req.kind = "stats"
      BY <2>1, <2>3, <3>2, <3>5, Zenon DEF dout, ack, AccessInv, OnRecord
    <3>6. CASE req.kind = "below"
      BY <2>3, <3>2, <3>6, SMTT(30) DEF ack, AccessInv, NoStrayAck
    <3> QED BY <3>1, <3>3, <3>4, <3>5, <3>6, Zenon
  <2> QED BY <1>4, <2>2, <2>3, StateMoves, Zenon
<1> QED BY <1>2, <1>3, <1>4, RecordGrows, Zenon DEF OnRecord, ReadReturnsItsRegister

(* The completer starts with nothing in the pipeline.                      *)
LEMMA AccessInit == Init => AccessInv
<1> SUFFICES ASSUME Init PROVE AccessInv
  BY Zenon
<1>1. /\ ack_pipe \in [1 .. 4 -> BOOLEAN]
      /\ \A i \in 1 .. 4 : ~ack_pipe[i]
  <2>1. PICK f \in BOOLEAN : ~f /\ ack_pipe = <<f, f, f, f>>
    BY ZenonT(30) DEF Init
  <2> QED BY <2>1, SMTT(30)
<1>2. stats \in [Descriptors -> Nat] /\ 0 \in Descriptors
  BY RegisterAssumption, SMTT(30) DEF Init, Descriptors
<1>3. TypeOK
  BY <1>1, <1>2, RegisterAssumption, ZenonT(30) DEF Init, TypeOK
<1> QED
  BY <1>1, <1>3, Zenon DEF Init, AccessInv, RequestHeld, NoStrayAck, OnRecord, Reading,
                    Waiting, ReadReturnsItsRegister

(* An edge keeps the invariant.                                            *)
LEMMA AccessNext ==
  ASSUME ReadAfterWrite \subseteq Prompt, AccessInv, [Next]_vars
  PROVE  AccessInv'
<1>1. CASE Next
  BY <1>1, EdgeTypes, EdgeAcks, EdgeRecord, Zenon DEF Next, AccessInv
<1>2. CASE UNCHANGED vars
  <2>1. TypeOK'
    BY <1>2, Zenon DEF vars, AccessInv, TypeOK
  <2>2. RequestHeld' /\ NoStrayAck'
    BY <1>2, Zenon DEF vars, AccessInv, RequestHeld, NoStrayAck, Reading, Waiting
  <2>3. OnRecord'
    BY <1>2, Zenon DEF vars, AccessInv, OnRecord, Reading, Waiting, Contents,
       ReadReturnsItsRegister
  <2> QED BY <2>1, <2>2, <2>3, Zenon DEF AccessInv
<1> QED BY <1>1, <1>2, Zenon

(* A read returns a value its register has held since it was taken, as     *)
(* long as what is read right after a write is a register of the engine or *)
(* the common block.                                                       *)
THEOREM ReadsAreTrue ==
  ASSUME ReadAfterWrite \subseteq {"engine", "ctrl"}
  PROVE  Spec => [](TypeOK /\ ReadReturnsItsRegister)
<1>1. AccessInv /\ [Next]_vars => AccessInv'
  BY AccessNext, Zenon DEF Prompt
<1>2. AccessInv => TypeOK /\ ReadReturnsItsRegister
  BY Zenon DEF AccessInv, OnRecord
<1> QED BY AccessInit, <1>1, <1>2, PTL DEF Spec

-----------------------------------------------------------------------------
(* BAR 2.  For any tags, registers and depths of the FIFOs a completion    *)
(* carries the tag of a read that is waited for and the data of the        *)
(* register that read named.  The argument follows a read from the latch   *)
(* through d_fifo to the completion: at each of these places its tag is    *)
(* pending, and no tag is at two places.                                   *)

(* The registers that a sequence of descriptors names.                     *)
AddrColumn(d) == [i \in 1 .. Len(d) |-> d[i].addr]

ReadOf(b) == [tag |-> b.tag, addr |-> b.addr]

Latched == cq_state = "S_CQ_STORE_RD_REQ"
Sending == cc_state = "S_CC_SEND_CPL"

(* Every tag inside the requester is one that the host waits for.          *)
TagsPending ==
  /\ Latched => ReadOf(cq_req) \in pending
  /\ \A i \in 1 .. Len(d_fifo) : ReadOf(d_fifo[i]) \in pending
  /\ Sending => [tag |-> cpl.tag, addr |-> cpl.data] \in pending

(* No tag is at two places.                                                *)
TagsApart ==
  /\ \A p, q \in pending : p.tag = q.tag => p = q
  /\ \A i, j \in 1 .. Len(d_fifo) : i # j => d_fifo[i].tag # d_fifo[j].tag
  /\ Latched => \A i \in 1 .. Len(d_fifo) : d_fifo[i].tag # cq_req.tag
  /\ Sending => \A i \in 1 .. Len(d_fifo) : d_fifo[i].tag # cpl.tag
  /\ Latched /\ Sending => cq_req.tag # cpl.tag

(* The places that are in use hold a request and a completion.             *)
PlacesFilled ==
  /\ cq_state \in {"S_CQ_STORE_RD_REQ", "S_CQ_STORE_WR_REQ"} => cq_req \in Requests
  /\ Sending => cpl \in [tag : Tags, data : Addrs]

RequesterInv == AxiTypeOK /\ PlacesFilled /\ InStep /\ TagsPending /\ TagsApart

-----------------------------------------------------------------------------
(* Taking the first of a sequence off a concatenation.                     *)
LEMMA TailOfConcat ==
  ASSUME NEW S, NEW r \in Seq(S), NEW s \in Seq(S), r # << >>
  PROVE  Tail(r) \o s = Tail(r \o s)
  BY SMTT(30)

(* Putting one at the end of a concatenation.                              *)
LEMMA AppendToConcat ==
  ASSUME NEW S, NEW r \in Seq(S), NEW s \in Seq(S), NEW e \in S
  PROVE  r \o Append(s, e) = Append(r \o s, e)
  BY SMTT(30)

(* Handing the first of the second sequence to the first one.              *)
LEMMA HandOver ==
  ASSUME NEW S, NEW r \in Seq(S), NEW s \in Seq(S), s # << >>
  PROVE  Append(r, Head(s)) \o Tail(s) = r \o s
  BY SMTT(30)

(* The column of a shortened sequence.                                     *)
LEMMA ColumnTail ==
  ASSUME NEW d \in Seq(Requests), d # << >>
  PROVE  AddrColumn(Tail(d)) = Tail(AddrColumn(d))
  BY SMTT(30) DEF AddrColumn, Requests

(* The column of an extended sequence.                                     *)
LEMMA ColumnAppend ==
  ASSUME NEW d \in Seq(Requests), NEW e \in Requests
  PROVE  AddrColumn(Append(d, e)) = Append(AddrColumn(d), e.addr)
  BY SMTT(30) DEF AddrColumn, Requests

(* A FIFO after a push.                                                    *)
LEMMA PushedFifo ==
  ASSUME NEW S, NEW s \in Seq(S), NEW store \in BOOLEAN, NEW e, store => e \in S
  PROVE  /\ Pushed(s, store, e) \in Seq(S)
         /\ Len(Pushed(s, store, e)) = Len(s) + (IF store THEN 1 ELSE 0)
         /\ \A i \in 1 .. Len(s) : Pushed(s, store, e)[i] = s[i]
         /\ store => Pushed(s, store, e)[Len(s) + 1] = e
<1>1. CASE store
  <2>1. Pushed(s, store, e) = Append(s, e)
    BY <1>1, Zenon DEF Pushed
  <2>2. /\ Append(s, e) \in Seq(S) /\ Len(Append(s, e)) = Len(s) + 1
        /\ \A i \in 1 .. Len(s) : Append(s, e)[i] = s[i]
        /\ Append(s, e)[Len(s) + 1] = e
    BY <1>1, SMTT(30)
  <2> QED BY <1>1, <2>1, <2>2, Zenon
<1>2. CASE ~store
  <2>1. Pushed(s, store, e) = s
    BY <1>2, Zenon DEF Pushed
  <2> QED BY <1>2, <2>1, SMTT(30)
<1> QED BY <1>1, <1>2, Zenon

(* A FIFO after a pop.                                                     *)
LEMMA PoppedFifo ==
  ASSUME NEW S, NEW s \in Seq(S), NEW pop \in BOOLEAN, pop => s # << >>
  PROVE  LET gone == IF pop THEN 1 ELSE 0 IN
         /\ Popped(s, pop) \in Seq(S)
         /\ Len(Popped(s, pop)) = Len(s) - gone
         /\ \A i \in 1 .. Len(s) - gone : Popped(s, pop)[i] = s[i + gone]
<1>1. CASE pop
  <2>1. Popped(s, pop) = Tail(s)
    BY <1>1, Zenon DEF Popped
  <2>2. /\ Tail(s) \in Seq(S) /\ Len(Tail(s)) = Len(s) - 1
        /\ \A i \in 1 .. Len(s) - 1 : Tail(s)[i] = s[i + 1]
    BY <1>1, SMTT(30)
  <2> QED BY <1>1, <2>1, <2>2, Zenon
<1>2. CASE ~pop
  <2>1. Popped(s, pop) = s
    BY <1>2, Zenon DEF Popped
  <2> QED BY <1>2, <2>1, SMTT(30)
<1> QED BY <1>1, <1>2, Zenon

(* The types of the FIFOs.                                                 *)
LEMMA FifoTypes ==
  ASSUME RequesterInv
  PROVE  /\ wa_fifo \in Seq(Addrs) /\ w_fifo \in Seq(Addrs)
         /\ ra_fifo \in Seq(Addrs) /\ r_fifo \in Seq(Addrs)
         /\ Len(wa_fifo) <= Depth /\ Len(w_fifo) <= Depth
         /\ Len(ra_fifo) <= Depth /\ Len(r_fifo) <= Depth
         /\ d_fifo \in Seq(Requests) /\ Len(d_fifo) <= Depth
         /\ StoresRead \in BOOLEAN /\ StoresWrite \in BOOLEAN
         /\ StoresRead \/ StoresWrite => cq_req \in Requests /\ cq_req.addr \in Addrs
         /\ StoresWrite => Len(wa_fifo) < Depth /\ Len(w_fifo) < Depth
         /\ StoresRead => Len(ra_fifo) < Depth /\ Len(d_fifo) < Depth
         /\ cpl_data_available \in BOOLEAN
         /\ cpl_data_available => r_fifo # << >> /\ d_fifo # << >>
<1>1. StoresRead \/ StoresWrite => cq_req \in Requests
  BY Zenon DEF RequesterInv, PlacesFilled, StoresRead, StoresWrite
<1>2. cq_req \in Requests => cq_req.addr \in Addrs
  BY Zenon DEF Requests
<1> QED BY <1>1, <1>2, Zenon DEF RequesterInv, AxiTypeOK, StoresRead, StoresWrite,
   Tready, cpl_data_available

-----------------------------------------------------------------------------
(* What a clock edge does to d_fifo: the head may leave, and the latched   *)
(* read may come in.                                                       *)
LEMMA EdgeFifo ==
  ASSUME RequesterInv, NEW beat \in HostBeats, NEW ready \in BOOLEAN, UserEdge(beat, ready)
  PROVE  LET d == Popped(d_fifo, cpl_data_available) IN
         /\ d_fifo' = Pushed(d, StoresRead, cq_req)
         /\ d \in Seq(Requests)
         /\ Len(d) = Len(d_fifo) - (IF cpl_data_available THEN 1 ELSE 0)
         /\ d_fifo' \in Seq(Requests) /\ Len(d_fifo') <= Depth
<1> DEFINE d == Popped(d_fifo, cpl_data_available)
<1>1. d_fifo' = Pushed(d, StoresRead, cq_req)
  BY Zenon DEF UserEdge, PopsDescriptor
<1>2. d \in Seq(Requests) /\ Len(d) = Len(d_fifo) - (IF cpl_data_available THEN 1 ELSE 0)
  BY FifoTypes, PoppedFifo, Zenon
<1> HIDE DEF d
<1>3. /\ Pushed(d, StoresRead, cq_req) \in Seq(Requests)
      /\ Len(Pushed(d, StoresRead, cq_req)) = Len(d) + (IF StoresRead THEN 1 ELSE 0)
  <2>1. d \in Seq(Requests) /\ StoresRead \in BOOLEAN /\ (StoresRead => cq_req \in Requests)
    BY <1>2, FifoTypes, Zenon
  <2> QED BY <2>1, PushedFifo, SMTT(30)
<1>4. Len(Pushed(d, StoresRead, cq_req)) <= Depth
  BY <1>2, <1>3, FifoTypes, RequesterAssumption, SMTT(30)
<1> USE DEF d
<1> QED BY <1>1, <1>2, <1>3, <1>4, ZenonT(30)

(* An element of d_fifo after an edge was there before, or is the latched  *)
(* read.                                                                   *)
LEMMA EdgeElements ==
  ASSUME RequesterInv, NEW beat \in HostBeats, NEW ready \in BOOLEAN, UserEdge(beat, ready)
  PROVE  LET gone == IF cpl_data_available THEN 1 ELSE 0 IN
         /\ Len(d_fifo') = Len(d_fifo) - gone + (IF StoresRead THEN 1 ELSE 0)
         /\ \A i \in 1 .. Len(d_fifo) - gone : d_fifo'[i] = d_fifo[i + gone]
         /\ StoresRead => d_fifo'[Len(d_fifo')] = cq_req
<1> DEFINE d == Popped(d_fifo, cpl_data_available)
           gone == IF cpl_data_available THEN 1 ELSE 0
<1>1. /\ d_fifo' = Pushed(d, StoresRead, cq_req)
      /\ d \in Seq(Requests) /\ Len(d) = Len(d_fifo) - gone
  BY EdgeFifo, Zenon
<1>2. \A i \in 1 .. Len(d_fifo) - gone : d[i] = d_fifo[i + gone]
  BY FifoTypes, PoppedFifo, SMTT(30)
<1> HIDE DEF d, gone
<1>3. /\ Len(Pushed(d, StoresRead, cq_req)) = Len(d) + (IF StoresRead THEN 1 ELSE 0)
      /\ \A i \in 1 .. Len(d) : Pushed(d, StoresRead, cq_req)[i] = d[i]
      /\ StoresRead => Pushed(d, StoresRead, cq_req)[Len(d) + 1] = cq_req
  <2>1. d \in Seq(Requests) /\ StoresRead \in BOOLEAN /\ (StoresRead => cq_req \in Requests)
    BY <1>1, FifoTypes, Zenon
  <2> QED BY <2>1, PushedFifo, SMTT(30)
<1>4. /\ Len(d_fifo') = Len(d_fifo) - gone + (IF StoresRead THEN 1 ELSE 0)
      /\ \A i \in 1 .. Len(d_fifo) - gone : d_fifo'[i] = d_fifo[i + gone]
      /\ StoresRead => d_fifo'[Len(d_fifo')] = cq_req
  BY <1>1, <1>2, <1>3, Zenon
<1> USE DEF gone
<1> QED BY <1>4, ZenonT(30)

(* The types of what an edge assigns.                                      *)
LEMMA AxiEdgeTypes ==
  ASSUME RequesterInv, Clock
  PROVE  AxiTypeOK' /\ PlacesFilled'
<1>1. PICK beat \in HostBeats, ready \in BOOLEAN :
        /\ UserEdge(beat, ready)
        /\ pending' = (IF Sends(ready) THEN pending \ Answered ELSE pending)
                      \cup (IF cq_state = "S_CQ_WAIT_FOR_REQ" /\ beat # Nothing
                               /\ beat.op = "C_MEM_RD_REQ"
                            THEN {[tag |-> beat.tag, addr |-> beat.addr]} ELSE {})
  BY Zenon DEF Clock
<1>2. beat \in Requests \cup {Nothing}
  BY Zenon DEF HostBeats
<1>3. cq_state' \in {"S_CQ_RESET", "S_CQ_WAIT_FOR_REQ", "S_CQ_STORE_RD_REQ", "S_CQ_STORE_WR_REQ"}
  BY <1>1, Zenon DEF UserEdge, CqNext, RequesterInv, AxiTypeOK
<1>4. cc_state' \in {"S_CC_RESET", "S_CC_WAIT_FOR_DATA", "S_CC_SEND_CPL"}
  BY <1>1, Zenon DEF UserEdge, CcNext, RequesterInv, AxiTypeOK
<1>5. /\ cq_req' \in Requests \cup {Nothing}
      /\ cq_state' \in {"S_CQ_STORE_RD_REQ", "S_CQ_STORE_WR_REQ"} => cq_req' \in Requests
  BY <1>1, <1>2, Zenon DEF UserEdge, CqNext, Accepts, RequesterInv, AxiTypeOK, PlacesFilled
<1>6. /\ wa_fifo' \in Seq(Addrs) /\ Len(wa_fifo') <= Depth
      /\ w_fifo' \in Seq(Addrs) /\ Len(w_fifo') <= Depth
  <2>1. wa_fifo' = Pushed(wa_fifo, StoresWrite, cq_req.addr) /\ w_fifo' = Pushed(w_fifo, StoresWrite, cq_req.addr)
    BY <1>1, ZenonT(30) DEF UserEdge
  <2>2. StoresWrite \in BOOLEAN /\ (StoresWrite => cq_req.addr \in Addrs)
        /\ wa_fifo \in Seq(Addrs) /\ w_fifo \in Seq(Addrs)
    BY FifoTypes, Zenon
  <2>3. /\ wa_fifo' \in Seq(Addrs) /\ Len(wa_fifo') = Len(wa_fifo) + (IF StoresWrite THEN 1 ELSE 0)
        /\ w_fifo' \in Seq(Addrs) /\ Len(w_fifo') = Len(w_fifo) + (IF StoresWrite THEN 1 ELSE 0)
    BY <2>1, <2>2, PushedFifo, Zenon
  <2> QED BY <2>3, FifoTypes, RequesterAssumption, SMTT(30)
<1>7. ra_fifo' \in Seq(Addrs) /\ Len(ra_fifo') <= Depth
  <2>1. ra_fifo' = Pushed(ra_fifo, StoresRead, cq_req.addr)
    BY <1>1, ZenonT(30) DEF UserEdge
  <2>2. StoresRead \in BOOLEAN /\ (StoresRead => cq_req.addr \in Addrs) /\ ra_fifo \in Seq(Addrs)
    BY FifoTypes, Zenon
  <2>3. ra_fifo' \in Seq(Addrs) /\ Len(ra_fifo') = Len(ra_fifo) + (IF StoresRead THEN 1 ELSE 0)
    BY <2>1, <2>2, PushedFifo, SMTT(30)
  <2> QED BY <2>3, FifoTypes, RequesterAssumption, SMTT(30)
<1>8. r_fifo' \in Seq(Addrs) /\ Len(r_fifo') <= Depth
  <2>1. r_fifo' = Popped(r_fifo, cpl_data_available)
    BY <1>1, ZenonT(30) DEF UserEdge, PopsData
  <2>2. cpl_data_available \in BOOLEAN /\ (cpl_data_available => r_fifo # << >>) /\ r_fifo \in Seq(Addrs)
    BY FifoTypes, Zenon
  <2>3. r_fifo' \in Seq(Addrs) /\ Len(r_fifo') = Len(r_fifo) - (IF cpl_data_available THEN 1 ELSE 0)
    BY <2>1, <2>2, PoppedFifo, Zenon
  <2> QED BY <2>3, FifoTypes, RequesterAssumption, SMTT(30)
<1>9. d_fifo' \in Seq(Requests) /\ Len(d_fifo') <= Depth
  BY <1>1, EdgeFifo, Zenon
<1>10. ASSUME cc_state = "S_CC_WAIT_FOR_DATA", cpl_data_available
       PROVE  [tag |-> Head(d_fifo).tag, data |-> Head(r_fifo)] \in [tag : Tags, data : Addrs]
  <2>1. Head(d_fifo) \in Requests /\ Head(r_fifo) \in Addrs
    BY <1>10, SMTT(30) DEF cpl_data_available, RequesterInv, AxiTypeOK
  <2> QED BY <2>1, Zenon DEF Requests
<1>11. /\ cpl' \in [tag : Tags, data : Addrs] \cup {Nothing}
       /\ Sending' => cpl' \in [tag : Tags, data : Addrs]
  BY <1>1, <1>10, Zenon DEF UserEdge, CcNext, Sending, RequesterInv, AxiTypeOK, PlacesFilled
<1>12. pending' \subseteq HostReads
  BY <1>1, <1>2, SMTT(30) DEF RequesterInv, AxiTypeOK, HostReads, Requests
<1> QED
  BY <1>3, <1>4, <1>5, <1>6, <1>7, <1>8, <1>9, <1>11, <1>12, Zenon DEF AxiTypeOK,
     PlacesFilled

(* An edge takes one register name off each side, and stores the same name *)
(* on each.                                                                *)
LEMMA EdgeInStep ==
  ASSUME RequesterInv, NEW beat \in HostBeats, NEW ready \in BOOLEAN, UserEdge(beat, ready)
  PROVE  InStep'
<1> DEFINE r == Popped(r_fifo, cpl_data_available)
           d == Popped(d_fifo, cpl_data_available)
<1>1. r_fifo \in Seq(Addrs) /\ ra_fifo \in Seq(Addrs) /\ d_fifo \in Seq(Requests)
  BY Zenon DEF RequesterInv, AxiTypeOK
<1>2. r_fifo \o ra_fifo = AddrColumn(d_fifo)
  BY Zenon DEF RequesterInv, InStep, AddrColumn
<1>3. r \in Seq(Addrs) /\ d \in Seq(Requests)
  BY <1>1, SMTT(30) DEF Popped, cpl_data_available
<1>4. r \o ra_fifo = AddrColumn(d)
  <2>1. CASE cpl_data_available
    <3>1. r_fifo # << >> /\ d_fifo # << >>
      BY <2>1, Zenon DEF cpl_data_available
    <3>2. Tail(r_fifo) \o ra_fifo = Tail(r_fifo \o ra_fifo)
      BY <1>1, <3>1, TailOfConcat, Zenon
    <3>3. AddrColumn(Tail(d_fifo)) = Tail(AddrColumn(d_fifo))
      BY <1>1, <3>1, ColumnTail, Zenon
    <3> QED BY <2>1, <1>2, <3>2, <3>3, Zenon DEF Popped
  <2>2. CASE ~cpl_data_available
    BY <2>2, <1>2, Zenon DEF Popped
  <2> QED BY <2>1, <2>2, Zenon
<1>5. r_fifo' = r /\ d_fifo' = Pushed(d, StoresRead, cq_req)
      /\ ra_fifo' = Pushed(ra_fifo, StoresRead, cq_req.addr)
  BY ZenonT(30) DEF UserEdge, PopsData, PopsDescriptor
<1>6. StoresRead => cq_req \in Requests /\ cq_req.addr \in Addrs
  BY FifoTypes, Zenon
<1> HIDE DEF r, d
<1>7. r_fifo' \o ra_fifo' = AddrColumn(d_fifo')
  <2>1. CASE StoresRead
    <3>1. r \o Append(ra_fifo, cq_req.addr) = Append(r \o ra_fifo, cq_req.addr)
      BY <2>1, <1>1, <1>3, <1>6, AppendToConcat, SMTT(30)
    <3>2. AddrColumn(Append(d, cq_req)) = Append(AddrColumn(d), cq_req.addr)
      BY <2>1, <1>3, <1>6, ColumnAppend, Zenon
    <3> QED BY <2>1, <1>4, <1>5, <3>1, <3>2, ZenonT(30) DEF Pushed
  <2>2. CASE ~StoresRead
    BY <2>2, <1>4, <1>5, Zenon DEF Pushed
  <2> QED BY <2>1, <2>2, Zenon
<1> QED BY <1>7, Zenon DEF InStep, AddrColumn

(* What is inside after an edge: the read that was accepted, a read that   *)
(* was inside before, or the completion that was built of the head of      *)
(* d_fifo and of the data that lines up with it.                           *)
LEMMA EdgeMoves ==
  ASSUME RequesterInv, NEW beat \in HostBeats, NEW ready \in BOOLEAN, UserEdge(beat, ready)
  PROVE  /\ Latched' => \/ Latched /\ ~StoresRead /\ cq_req' = cq_req
                        \/ /\ cq_state = "S_CQ_WAIT_FOR_REQ" /\ beat \in Requests
                           /\ beat.op = "C_MEM_RD_REQ" /\ cq_req' = beat
         /\ Sending' => \/ Sending /\ ~Sends(ready) /\ cpl' = cpl
                        \/ /\ ~Sending /\ cpl_data_available /\ d_fifo # << >>
                           /\ cpl'.tag = d_fifo[1].tag /\ cpl'.data = d_fifo[1].addr
<1>1. Latched' => \/ Latched /\ ~StoresRead /\ cq_req' = cq_req
                  \/ /\ cq_state = "S_CQ_WAIT_FOR_REQ" /\ beat \in Requests
                     /\ beat.op = "C_MEM_RD_REQ" /\ cq_req' = beat
  BY Zenon DEF UserEdge, CqNext, Accepts, Latched, StoresWrite, StoresRead, HostBeats,
     RequesterInv, AxiTypeOK
<1>2. ASSUME cpl_data_available
      PROVE  d_fifo # << >> /\ Head(d_fifo).tag = d_fifo[1].tag /\ Head(r_fifo) = d_fifo[1].addr
  <2>1. r_fifo \in Seq(Addrs) /\ ra_fifo \in Seq(Addrs) /\ d_fifo \in Seq(Requests)
        /\ r_fifo # << >> /\ d_fifo # << >>
    BY <1>2, Zenon DEF RequesterInv, AxiTypeOK, cpl_data_available
  <2>2. (r_fifo \o ra_fifo)[1] = r_fifo[1]
    BY <2>1, SMTT(30)
  <2>3. 1 \in 1 .. Len(d_fifo)
    BY <2>1, SMTT(30)
  <2>4. r_fifo[1] = d_fifo[1].addr
    BY <2>2, <2>3, Zenon DEF RequesterInv, InStep
  <2> QED BY <2>1, <2>4, SMTT(30)
<1>3. Sending' => \/ Sending /\ ~Sends(ready) /\ cpl' = cpl
                  \/ /\ ~Sending /\ cpl_data_available
                     /\ cpl' = [tag |-> Head(d_fifo).tag, data |-> Head(r_fifo)]
  BY Zenon DEF UserEdge, CcNext, Sending, Sends, RequesterInv, AxiTypeOK
<1> QED BY <1>1, <1>2, <1>3, SMTT(30)

(* The host takes the read that is answered off its list and puts the one  *)
(* it makes on it; nothing else of the list changes.                       *)
LEMMA EdgePending ==
  ASSUME RequesterInv, Clock
  PROVE  \E beat \in HostBeats, ready \in BOOLEAN :
           /\ UserEdge(beat, ready)
           /\ \A p \in pending : ~(Sends(ready) /\ p.tag = cpl.tag) => p \in pending'
           /\ \A p \in pending' :
                \/ p \in pending /\ ~(Sends(ready) /\ p.tag = cpl.tag)
                \/ /\ cq_state = "S_CQ_WAIT_FOR_REQ" /\ p = ReadOf(beat)
                   /\ \A q \in pending : q.tag # beat.tag
           /\ cq_state = "S_CQ_WAIT_FOR_REQ" /\ beat \in Requests /\ beat.op = "C_MEM_RD_REQ" =>
                ReadOf(beat) \in pending' /\ \A q \in pending : q.tag # beat.tag
<1>1. PICK beat \in HostBeats, ready \in BOOLEAN :
        /\ UserEdge(beat, ready)
        /\ pending' = (IF Sends(ready) THEN pending \ Answered ELSE pending)
                      \cup (IF cq_state = "S_CQ_WAIT_FOR_REQ" /\ beat # Nothing
                               /\ beat.op = "C_MEM_RD_REQ"
                            THEN {[tag |-> beat.tag, addr |-> beat.addr]} ELSE {})
  BY Zenon DEF Clock
<1>2. beat \in Requests => beat # Nothing
  <2>1. \A b \in Requests : b.op # "none"
    BY Zenon DEF Requests
  <2> QED BY <2>1, SMTT(30) DEF Nothing
<1>3. beat # Nothing /\ beat.op = "C_MEM_RD_REQ" => \A q \in pending : q.tag # beat.tag
  BY Zenon DEF HostBeats
<1> QED
  <2> WITNESS beat \in HostBeats, ready \in BOOLEAN
  <2> QED BY <1>1, <1>2, <1>3, Zenon DEF Answered, ReadOf

(* The tags inside stay those of reads that the host waits for.            *)
LEMMA EdgeTags ==
  ASSUME RequesterInv, Clock
  PROVE  TagsPending' /\ TagsApart'
<1>1. PICK beat \in HostBeats, ready \in BOOLEAN :
           /\ UserEdge(beat, ready)
           /\ \A p \in pending : ~(Sends(ready) /\ p.tag = cpl.tag) => p \in pending'
           /\ \A p \in pending' :
                \/ p \in pending /\ ~(Sends(ready) /\ p.tag = cpl.tag)
                \/ /\ cq_state = "S_CQ_WAIT_FOR_REQ" /\ p = ReadOf(beat)
                   /\ \A q \in pending : q.tag # beat.tag
           /\ cq_state = "S_CQ_WAIT_FOR_REQ" /\ beat \in Requests /\ beat.op = "C_MEM_RD_REQ" =>
                ReadOf(beat) \in pending' /\ \A q \in pending : q.tag # beat.tag
  BY EdgePending, Zenon
<1> DEFINE gone == IF cpl_data_available THEN 1 ELSE 0
           kept == Len(d_fifo) - gone
<1>2. /\ Len(d_fifo') = kept + (IF StoresRead THEN 1 ELSE 0)
      /\ \A i \in 1 .. kept : d_fifo'[i] = d_fifo[i + gone]
      /\ StoresRead => d_fifo'[Len(d_fifo')] = cq_req
  BY <1>1, EdgeElements, Zenon
<1>3. /\ Latched' => \/ Latched /\ ~StoresRead /\ cq_req' = cq_req
                     \/ /\ cq_state = "S_CQ_WAIT_FOR_REQ" /\ beat \in Requests
                        /\ beat.op = "C_MEM_RD_REQ" /\ cq_req' = beat
      /\ Sending' => \/ Sending /\ ~Sends(ready) /\ cpl' = cpl
                     \/ /\ ~Sending /\ cpl_data_available /\ d_fifo # << >>
                        /\ cpl'.tag = d_fifo[1].tag /\ cpl'.data = d_fifo[1].addr
  BY <1>1, EdgeMoves, Zenon
<1>4. Len(d_fifo) \in Nat /\ kept \in Nat /\ gone \in {0, 1}
      /\ Len(d_fifo) = kept + gone /\ StoresRead \in BOOLEAN
      /\ (cpl_data_available => gone = 1 /\ 1 \in 1 .. Len(d_fifo))
  BY SMTT(30) DEF RequesterInv, AxiTypeOK, cpl_data_available, StoresRead
<1>5. /\ StoresRead => Latched
      /\ Sends(ready) => Sending
      /\ ~(Latched /\ cq_state = "S_CQ_WAIT_FOR_REQ")
  BY Zenon DEF StoresRead, Latched, Sends, Sending
<1> HIDE DEF gone, kept
<1>6. ASSUME NEW i \in 1 .. Len(d_fifo')
      PROVE  \/ i \in 1 .. kept /\ i + gone \in 1 .. Len(d_fifo) /\ d_fifo'[i] = d_fifo[i + gone]
             \/ i = kept + 1 /\ StoresRead /\ d_fifo'[i] = cq_req
  <2>1. CASE StoresRead
    BY <1>2, <1>4, <2>1, SMTT(30)
  <2>2. CASE ~StoresRead
    BY <1>2, <1>4, <2>2, SMTT(30)
  <2> QED BY <2>1, <2>2, ZenonT(30)
<1>7. TagsPending'
  <2>1. Latched' => ReadOf(cq_req') \in pending'
    BY <1>1, <1>3, <1>5, Zenon DEF RequesterInv, TagsPending, TagsApart, ReadOf
  <2>2. ASSUME NEW i \in 1 .. Len(d_fifo') PROVE ReadOf(d_fifo'[i]) \in pending'
    BY <1>1, <1>5, <1>6, ZenonT(30) DEF RequesterInv, TagsPending, TagsApart, ReadOf
  <2>3. Sending' => [tag |-> cpl'.tag, addr |-> cpl'.data] \in pending'
    BY <1>1, <1>3, <1>4, <1>5, ZenonT(30) DEF RequesterInv, AxiTypeOK, TagsPending,
       TagsApart, ReadOf
  <2> QED BY <2>1, <2>2, <2>3, ZenonT(30) DEF TagsPending
<1>8. TagsApart'
  <2>1. \A p, q \in pending' : p.tag = q.tag => p = q
    <3>1. \A p \in pending' : p \in pending
                            \/ (p = ReadOf(beat) /\ \A q \in pending : q.tag # beat.tag)
      BY <1>1, Zenon
    <3>2. ReadOf(beat).tag = beat.tag
      BY Zenon DEF ReadOf
    <3>3. \A p, q \in pending : p.tag = q.tag => p = q
      BY Zenon DEF RequesterInv, TagsApart
    <3> QED BY <3>1, <3>2, <3>3, ZenonT(30)
  <2>2. ASSUME NEW i \in 1 .. Len(d_fifo'), NEW j \in 1 .. Len(d_fifo'), i # j
        PROVE  d_fifo'[i].tag # d_fifo'[j].tag
    <3>1. CASE i \in 1 .. kept /\ j \in 1 .. kept
      <4>1. i + gone # j + gone
        BY <1>4, <2>2, <3>1, SMTT(30)
      <4>2. i + gone \in 1 .. Len(d_fifo) /\ j + gone \in 1 .. Len(d_fifo)
        BY <1>4, <3>1, SMTT(30)
      <4>3. d_fifo[i + gone].tag # d_fifo[j + gone].tag
        BY <4>1, <4>2, Zenon DEF RequesterInv, TagsApart
      <4> QED BY <1>2, <3>1, <4>3, Zenon
    <3>2. CASE i = kept + 1 /\ j \in 1 .. kept
      BY <1>4, <1>5, <1>6, <3>2, SMTT(30) DEF RequesterInv, TagsApart
    <3>3. CASE i \in 1 .. kept /\ j = kept + 1
      BY <1>4, <1>5, <1>6, <3>3, SMTT(30) DEF RequesterInv, TagsApart
    <3> QED BY <1>6, <2>2, <3>1, <3>2, <3>3, Zenon
  <2>3. ASSUME NEW i \in 1 .. Len(d_fifo'), Latched' PROVE d_fifo'[i].tag # cq_req'.tag
    BY <1>1, <1>3, <1>5, <1>6, <2>3, ZenonT(30) DEF RequesterInv, TagsPending,
       TagsApart, ReadOf
  <2>4. ASSUME NEW i \in 1 .. Len(d_fifo'), Sending' PROVE d_fifo'[i].tag # cpl'.tag
    <3>1. CASE Sending
      BY <1>3, <1>5, <1>6, <2>4, <3>1, ZenonT(30) DEF RequesterInv, TagsApart
    <3>2. CASE ~Sending
      BY <1>3, <1>4, <1>5, <1>6, <2>4, <3>2, SMTT(30) DEF RequesterInv, TagsApart
    <3> QED BY <3>1, <3>2, Zenon
  <2>5. ASSUME Latched', Sending' PROVE cq_req'.tag # cpl'.tag
    <3>1. \E p \in pending : p.tag = cpl'.tag
      BY <1>3, <1>4, <2>5, ZenonT(30) DEF RequesterInv, TagsPending, ReadOf
    <3>2. CASE Latched
      BY <1>3, <1>4, <1>5, <2>5, <3>2, ZenonT(30) DEF RequesterInv, TagsApart
    <3>3. CASE ~Latched
      BY <1>1, <1>3, <2>5, <3>1, <3>3, ZenonT(30)
    <3> QED BY <3>2, <3>3, Zenon
  <2> QED BY <2>1, <2>2, <2>3, <2>4, <2>5, ZenonT(30) DEF TagsApart
<1> QED BY <1>7, <1>8, Zenon

(* The steps of the slave leave the tags alone.                            *)
LEMMA SlaveStep ==
  ASSUME RequesterInv, SlaveWrite \/ SlaveRead
  PROVE  RequesterInv'
<1>1. TagsPending' /\ TagsApart' /\ PlacesFilled'
  BY ZenonT(30) DEF SlaveWrite, SlaveRead, RequesterInv, TagsPending, TagsApart,
     PlacesFilled, Latched, Sending
<1>2. AxiTypeOK'
  <2>1. CASE SlaveWrite
    <3>1. /\ wa_fifo' \in Seq(Addrs) /\ Len(wa_fifo') <= Depth
          /\ w_fifo' \in Seq(Addrs) /\ Len(w_fifo') <= Depth
      BY <2>1, FifoTypes, RequesterAssumption, SMTT(30) DEF SlaveWrite
    <3> QED BY <2>1, <3>1, Zenon DEF SlaveWrite, RequesterInv, AxiTypeOK
  <2>2. CASE SlaveRead
    <3>1. /\ ra_fifo' \in Seq(Addrs) /\ Len(ra_fifo') <= Depth
          /\ r_fifo' \in Seq(Addrs) /\ Len(r_fifo') <= Depth
      BY <2>2, FifoTypes, RequesterAssumption, SMTT(30) DEF SlaveRead, Tready
    <3> QED BY <2>2, <3>1, Zenon DEF SlaveRead, RequesterInv, AxiTypeOK
  <2> QED BY <2>1, <2>2, Zenon
<1>3. InStep'
  <2>1. CASE SlaveWrite
    BY <2>1, Zenon DEF SlaveWrite, RequesterInv, InStep
  <2>2. CASE SlaveRead
    <3>1. Append(r_fifo, Head(ra_fifo)) \o Tail(ra_fifo) = r_fifo \o ra_fifo
      BY <2>2, HandOver, Zenon DEF SlaveRead, RequesterInv, AxiTypeOK
    <3> QED BY <2>2, <3>1, Zenon DEF SlaveRead, RequesterInv, InStep
  <2> QED BY <2>1, <2>2, Zenon
<1> QED BY <1>1, <1>2, <1>3, Zenon DEF RequesterInv

(* At first nothing is inside and nothing is pending.                      *)
LEMMA RequesterInit == AxiInit => RequesterInv
<1> SUFFICES ASSUME AxiInit PROVE RequesterInv
  BY Zenon
<1>1. AxiTypeOK
  BY RequesterAssumption, SMTT(30) DEF AxiInit, AxiTypeOK
<1>2. InStep
  BY SMTT(30) DEF AxiInit, InStep
<1>3. ~Latched /\ ~Sending /\ cq_state # "S_CQ_STORE_WR_REQ" /\ pending = {} /\ Len(d_fifo) = 0
  BY Zenon DEF AxiInit, Latched, Sending
<1>4. PlacesFilled
  BY <1>3, Zenon DEF PlacesFilled, Latched
<1>5. TagsPending /\ TagsApart
  BY <1>3, SMTT(30) DEF TagsPending, TagsApart
<1> QED BY <1>1, <1>2, <1>4, <1>5, Zenon DEF RequesterInv

(* Every step keeps the invariant.                                         *)
LEMMA RequesterNext ==
  ASSUME RequesterInv, [AxiNext]_axiVars
  PROVE  RequesterInv'
<1>1. CASE Clock
  <2>1. InStep'
    BY <1>1, EdgeInStep, Zenon DEF Clock
  <2> QED BY <1>1, <2>1, AxiEdgeTypes, EdgeTags, Zenon DEF RequesterInv
<1>2. CASE SlaveWrite \/ SlaveRead
  BY <1>2, SlaveStep, Zenon
<1>3. CASE UNCHANGED axiVars
  BY <1>3, ZenonT(30) DEF axiVars, RequesterInv, AxiTypeOK, InStep, PlacesFilled,
     TagsPending, TagsApart, Latched, Sending
<1> QED BY <1>1, <1>2, <1>3, Zenon DEF AxiNext

(* What the invariant means.                                               *)
LEMMA RequesterMeans == AxiSpec => [](AxiTypeOK /\ InStep /\ AnswerMatches)
<1>1. RequesterInv => AxiTypeOK /\ InStep /\ AnswerMatches
  BY Zenon DEF RequesterInv, TagsPending, AnswerMatches, Sending
<1> QED BY RequesterInit, RequesterNext, <1>1, PTL DEF AxiSpec

(* The data and the addresses under way line up with the descriptors that  *)
(* wait in their FIFO, and no FIFO overflows.                              *)
THEOREM FifosInStep == AxiSpec => [](AxiTypeOK /\ InStep)
  BY RequesterMeans, PTL

(* A completion carries the tag of a read the host waits for and the data  *)
(* of the register that read asked for.                                    *)
THEOREM CompletionsMatch == AxiSpec => []AnswerMatches
  BY RequesterMeans, PTL

(* The host's list of reads that wait loses a read only to a completion    *)
(* that carries its tag and the data of its register: nobody else's answer *)
(* ends a wait.                                                            *)
EndsByItsAnswer ==
  \A p \in pending : p \notin pending' =>
    Sending /\ p = [tag |-> cpl.tag, addr |-> cpl.data]

(* A wait ends with the right answer only.                                 *)
THEOREM WaitsEndRightly == AxiSpec => [][EndsByItsAnswer]_axiVars
<1>1. ASSUME RequesterInv, [AxiNext]_axiVars PROVE [EndsByItsAnswer]_axiVars
  <2>1. CASE Clock
    <3>1. ASSUME NEW p \in pending, p \notin pending'
          PROVE  Sending /\ p.tag = cpl.tag
      BY <1>1, <2>1, <3>1, EdgePending, ZenonT(30) DEF Sends, Sending
    <3> QED BY <1>1, <3>1, ZenonT(30) DEF EndsByItsAnswer, RequesterInv, TagsPending,
       TagsApart
  <2>2. CASE SlaveWrite \/ SlaveRead
    BY <2>2, ZenonT(30) DEF SlaveWrite, SlaveRead, EndsByItsAnswer
  <2> QED BY <1>1, <2>1, <2>2, Zenon DEF AxiNext
<1>2. RequesterInv /\ [AxiNext]_axiVars => [EndsByItsAnswer]_axiVars
  BY <1>1, Zenon
<1> QED BY RequesterInit, RequesterNext, <1>2, PTL DEF AxiSpec

=============================================================================
