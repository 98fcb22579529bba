----------------------------- MODULE NfpDriver -----------------------------
(***************************************************************************)
(* The IOCTL interface of the driver (nfpioctl.c, nfpmem.c) under several  *)
(* user processes: the semaphore of the card, the registered buffer with   *)
(* its pinned pages, and the DMA operation a descriptor starts.            *)
(*                                                                         *)
(* A process runs benchmark.c over the middleware (transfer.c), built with *)
(* huge pages or with the kernel's buffer, or rwBar.c.  The buffer of a    *)
(* process is named by the process, the driver's own pages by Kernel.  The *)
(* registers of the card are those of DmaLogic and are left out: an        *)
(* operation is in flight until the engine ends it.                        *)
(***************************************************************************)
EXTENDS Naturals, FiniteSets

CONSTANTS
  Procs,            \* user processes
  Kernel,           \* the buffer of mmap_info.page_list
  NoBuffer,         \* a NULL pointer
  HugePages,        \* the processes built with USE_HUGE_PAGES
  FaultCommands,    \* the commands whose argument the driver may fail to copy
  MayInterrupt,     \* a signal may end down_interruptible
  MayNotMap,        \* vmalloc or get_user_pages may fail
  MayTimeOut,       \* the poll of the driver may time out
  MayQuit,          \* benchmark.c may return before it frees the memory
  MaxCount,         \* bound on the count of the semaphore where it grows
  MaxPins           \* bound on the registrations of one process at a time

Buffers == Procs \cup {Kernel}
Register == {"NFPIOC_READ_32", "NFPIOC_WRITE_32"}
Descriptor == {"NFPIOC_WRITE_DMA_DESCRIPTOR", "NFPIOC_READ_DMA_DESCRIPTOR"}
Commands == Register \cup Descriptor \cup
  {"NFPIOC_WINDOW_SIZE", "NFPIOC_REGISTER_BUFFER", "NFPIOC_UNREGISTER_BUFFER"}

ASSUME DriverAssumption ==
  /\ Kernel \notin Procs /\ NoBuffer \notin Procs /\ Kernel # NoBuffer
  /\ HugePages \subseteq Procs
  /\ FaultCommands \subseteq Commands \ {"NFPIOC_UNREGISTER_BUFFER"}
  /\ {MayInterrupt, MayNotMap, MayTimeOut, MayQuit} \subseteq BOOLEAN
  /\ MaxCount \in Nat /\ MaxPins \in Nat

VARIABLES
  sem_op,          \* count of the semaphore
  pc, cmd,         \* where a process is in nfp_ioctl, and its command
  running,         \* the processes whose benchmark runs
  buffer,          \* card->buffer
  pages,           \* the list of pages the driver keeps: a buffer
  num_pages,       \* is it known to hold pages?
  pins,            \* how often the pages of each buffer are pinned
  dma,             \* the operation in flight
  lost,            \* history: lists of each buffer's pages given up unreleased
  orderly          \* history: no benchmark has met another's, or its leavings

ioctlVars ==
  <<sem_op, pc, cmd, running, buffer, pages, num_pages, pins, dma, lost, orderly>>
memory == <<buffer, pages, num_pages, pins, lost>>
programs == <<running, orderly>>

Idle == [active |-> FALSE, target |-> NoBuffer, owner |-> NoBuffer]

IoctlInit ==
  /\ sem_op = 1
  /\ pc = [p \in Procs |-> "user"]
  /\ cmd = [p \in Procs |-> "NFPIOC_READ_32"]
  /\ running = {}
  /\ buffer = [virtual |-> NoBuffer, length |-> FALSE, page_size |-> FALSE,
               page_address |-> NoBuffer]
  /\ pages = NoBuffer /\ num_pages = FALSE
  /\ pins = [b \in Procs |-> 0]
  /\ dma = Idle
  /\ lost = [b \in Procs |-> 0]
  /\ orderly = TRUE

Goto(p, label) == pc' = [pc EXCEPT ![p] = label]

-----------------------------------------------------------------------------
(* The programs.  Nothing keeps two benchmarks apart, and a benchmark that *)
(* quits leaves its registration behind; orderly records whether either    *)
(* has happened.  The middleware ignores what its ioctls return.           *)
Call(p, c) ==
  /\ pc[p] = "user"
  /\ Goto(p, "down")
  /\ cmd' = [cmd EXCEPT ![p] = c]
  /\ UNCHANGED <<sem_op, memory, dma>>

Alone ==
  /\ running = {} /\ ~buffer.length
  /\ \A q \in Procs : pc[q] = "user" \/ cmd[q] \in Register

StartBenchmark(p) ==
  /\ p \notin running
  /\ pins[p] < MaxPins
  /\ running' = running \cup {p}
  /\ orderly' = (orderly /\ Alone)
  /\ IF p \in HugePages THEN Call(p, "NFPIOC_REGISTER_BUFFER")
     ELSE Call(p, "NFPIOC_WINDOW_SIZE")

RunBenchmark(p) ==
  /\ p \in running
  /\ \E c \in Descriptor \cup {"NFPIOC_WINDOW_SIZE"} : Call(p, c)
  /\ UNCHANGED programs

EndBenchmark(p) ==
  /\ p \in running
  /\ running' = running \ {p}
  /\ \/ p \in HugePages /\ Call(p, "NFPIOC_UNREGISTER_BUFFER")
     \/ /\ p \notin HugePages \/ MayQuit
        /\ pc[p] = "user"
        /\ UNCHANGED <<sem_op, pc, cmd, memory, dma>>
  /\ UNCHANGED orderly

RwBar(p) ==
  /\ p \notin running
  /\ \E c \in Register : Call(p, c)
  /\ UNCHANGED programs

-----------------------------------------------------------------------------
(* Mutant: the semaphore is tested, not taken.                             *)
DownTested(p) ==
  /\ pc[p] = "down" /\ sem_op > 0
  /\ Goto(p, "copy")
  /\ UNCHANGED <<sem_op, cmd, programs, memory, dma>>

(* down_interruptible: taken, or ended by a signal.                        *)
Down(p) ==
  /\ pc[p] = "down" /\ sem_op > 0
  /\ sem_op' = sem_op - 1
  /\ Goto(p, "copy")
  /\ UNCHANGED <<cmd, programs, memory, dma>>

Interrupted(p) ==
  /\ MayInterrupt /\ sem_op < MaxCount
  /\ pc[p] = "down"
  /\ sem_op' = sem_op + 1
  /\ Goto(p, "user")
  /\ UNCHANGED <<cmd, programs, memory, dma>>

(* Mutant: the error path returns with the semaphore taken.                *)
CopyNoUp(p) ==
  /\ pc[p] = "copy"
  /\ \/ /\ Goto(p, "work")
        /\ UNCHANGED sem_op
     \/ /\ cmd[p] \in FaultCommands
        /\ Goto(p, "user")
        /\ UNCHANGED sem_op
  /\ UNCHANGED <<cmd, programs, memory, dma>>

(* copy_from_user; NFPIOC_UNREGISTER_BUFFER has no argument to copy.       *)
Copy(p) ==
  /\ pc[p] = "copy"
  /\ \/ /\ Goto(p, "work")
        /\ UNCHANGED sem_op
     \/ /\ cmd[p] \in FaultCommands
        /\ Goto(p, "user")
        /\ sem_op' = sem_op + 1
  /\ UNCHANGED <<cmd, programs, memory, dma>>

Works(p, c) == pc[p] = "work" /\ cmd[p] = c

(* The translation of a descriptor's address divides by the page size as   *)
(* soon as a buffer has been named.                                        *)
Translates == buffer.virtual = NoBuffer \/ buffer.page_size

(* A division by zero: the process dies inside, with the semaphore.        *)
Oops(p) ==
  /\ \E c \in Descriptor : Works(p, c)
  /\ ~Translates
  /\ Goto(p, "oops")
  /\ UNCHANGED <<sem_op, cmd, programs, memory, dma>>

(* Registers, window size and statistics: no state of this module.         *)
Access(p) ==
  /\ \/ \E c \in Register \cup {"NFPIOC_WINDOW_SIZE"} : Works(p, c)
     \/ Works(p, "NFPIOC_READ_DMA_DESCRIPTOR") /\ Translates
  /\ Goto(p, "up")
  /\ UNCHANGED <<sem_op, cmd, programs, memory, dma>>

(* A registration writes over the list of pages, or over their number: if  *)
(* it held pages, nobody can release them any more.                        *)
Forget == lost' = IF num_pages THEN [lost EXCEPT ![pages] = @ + 1] ELSE lost

(* reg_hugemem: getUserHugePages pins the pages and fills the buffer.      *)
RegisterBuffer(p) ==
  /\ Works(p, "NFPIOC_REGISTER_BUFFER")
  /\ pins' = [pins EXCEPT ![p] = @ + 1]
  /\ pages' = p /\ num_pages' = TRUE
  /\ buffer' = [virtual |-> p, length |-> TRUE, page_size |-> TRUE, page_address |-> p]
  /\ Forget
  /\ Goto(p, "up")
  /\ UNCHANGED <<sem_op, cmd, programs, dma>>

(* vmalloc fails, or get_user_pages does: then the buffer has been filled  *)
(* from an array nobody wrote.  Either way its length is zeroed, its page  *)
(* size stays, and the semaphore is released, once here and once at the    *)
(* end of nfp_ioctl.                                                       *)
RegisterFails(p) ==
  /\ MayNotMap /\ sem_op < MaxCount
  /\ Works(p, "NFPIOC_REGISTER_BUFFER")
  /\ num_pages' = FALSE
  /\ \/ /\ buffer' = [buffer EXCEPT !.length = FALSE]
        /\ UNCHANGED pages
     \/ /\ \E b \in Buffers :
             buffer' = [buffer EXCEPT !.virtual = p, !.length = FALSE, !.page_address = b]
        /\ pages' = p
  /\ Forget
  /\ sem_op' = sem_op + 1
  /\ Goto(p, "up")
  /\ UNCHANGED <<cmd, programs, pins, dma>>

(* Mutant: the pages are forgotten, not released.                          *)
UnregisterBufferNoRelease(p) ==
  /\ Works(p, "NFPIOC_UNREGISTER_BUFFER")
  /\ buffer' = [buffer EXCEPT !.length = FALSE]
  /\ num_pages' = FALSE
  /\ Goto(p, "up")
  /\ UNCHANGED <<sem_op, cmd, programs, pages, pins, lost, dma>>

(* unreg_hugemem, once per registration: the pages are released; virtual   *)
(* and page_address keep their values.                                     *)
UnregisterBuffer(p) ==
  /\ Works(p, "NFPIOC_UNREGISTER_BUFFER")
  /\ IF buffer.length
     THEN /\ buffer' = [buffer EXCEPT !.length = FALSE]
          /\ num_pages' = FALSE
          /\ pins' = IF num_pages THEN [pins EXCEPT ![pages] = @ - 1] ELSE pins
     ELSE UNCHANGED <<buffer, num_pages, pins>>
  /\ Goto(p, "up")
  /\ UNCHANGED <<sem_op, cmd, programs, pages, lost, dma>>

(* The address of a descriptor: in the registered buffer if there is one.  *)
(* Mutant: the test for a registered buffer is the other way round.        *)
TargetSwapped == IF buffer.virtual # NoBuffer THEN Kernel ELSE buffer.page_address

Target == IF buffer.virtual = NoBuffer THEN Kernel ELSE buffer.page_address

WriteDescriptor(p) ==
  /\ Works(p, "NFPIOC_WRITE_DMA_DESCRIPTOR")
  /\ Translates
  /\ \/ /\ dma' = [active |-> TRUE, target |-> Target, owner |-> p]
        /\ Goto(p, "poll")
     \/ /\ buffer.virtual # NoBuffer     \* the request crosses a huge page
        /\ Goto(p, "up")
        /\ UNCHANGED dma
  /\ UNCHANGED <<sem_op, cmd, programs, memory>>

(* Mutant: the driver does not wait for the engine.                        *)
PollNot(p) ==
  /\ pc[p] = "poll"
  /\ Goto(p, "up")
  /\ UNCHANGED <<sem_op, cmd, programs, memory, dma>>

Poll(p) ==
  /\ pc[p] = "poll"
  /\ ~dma.active \/ MayTimeOut
  /\ Goto(p, "up")
  /\ UNCHANGED <<sem_op, cmd, programs, memory, dma>>

Up(p) ==
  /\ pc[p] = "up"
  /\ sem_op' = sem_op + 1
  /\ Goto(p, "user")
  /\ UNCHANGED <<cmd, programs, memory, dma>>

(* The engine ends its operation.                                          *)
EngineDone ==
  /\ dma.active
  /\ dma' = Idle
  /\ UNCHANGED <<sem_op, pc, cmd, programs, memory>>

Ioctl(p) ==
  \/ Down(p) \/ Copy(p) \/ Access(p) \/ Oops(p)
  \/ RegisterBuffer(p) \/ RegisterFails(p) \/ UnregisterBuffer(p)
  \/ WriteDescriptor(p) \/ Poll(p) \/ Up(p)

Program(p) == StartBenchmark(p) \/ RunBenchmark(p) \/ EndBenchmark(p) \/ RwBar(p)

IoctlNext == EngineDone \/ \E p \in Procs : Program(p) \/ Ioctl(p) \/ Interrupted(p)

IoctlSpec == IoctlInit /\ [][IoctlNext]_ioctlVars

(* The kernel runs a process in a system call, the semaphore serves its    *)
(* waiters in order of arrival, and the engine ends what it starts.  No    *)
(* signal need ever arrive.                                                *)
IoctlFairSpec ==
  /\ IoctlSpec
  /\ WF_ioctlVars(EngineDone)
  /\ \A p \in Procs : WF_ioctlVars(Ioctl(p)) /\ SF_ioctlVars(Down(p))

-----------------------------------------------------------------------------
IoctlTypeOK ==
  /\ sem_op \in Nat
  /\ pc \in [Procs -> {"user", "down", "copy", "work", "poll", "up", "oops"}]
  /\ cmd \in [Procs -> Commands]
  /\ running \subseteq Procs
  /\ buffer \in [virtual : Procs \cup {NoBuffer}, length : BOOLEAN,
                 page_size : BOOLEAN, page_address : Buffers \cup {NoBuffer}]
  /\ pages \in Procs \cup {NoBuffer}
  /\ num_pages \in BOOLEAN
  /\ pins \in [Procs -> Nat]
  /\ dma \in [active : BOOLEAN, target : Buffers \cup {NoBuffer},
              owner : Procs \cup {NoBuffer}]
  /\ lost \in [Procs -> Nat]
  /\ orderly \in BOOLEAN

Inside(p) == pc[p] \in {"copy", "work", "poll", "up", "oops"}

(* "We accept one IOCTL operation per time" (nfp.c): no two processes are  *)
(* between down_interruptible and up of nfp_ioctl.                         *)
OneIoctlAtATime == \A p, q \in Procs : Inside(p) /\ Inside(q) => p = q

(* "Ensure that all userspace pages are locked in memory for the duration  *)
(* of the DMA transfer" (nfpmem.c): while a registration is in force, an   *)
(* operation in flight goes to pages that are pinned, whoever started it   *)
(* and however the benchmarks overlap.                                     *)
DmaTargetPinned ==
  dma.active /\ buffer.length => dma.target \in Procs /\ pins[dma.target] > 0

(* Benchmarks that do not overlap and free what they registered never meet *)
(* in the driver: with a registration in force, an operation goes to the   *)
(* buffer of the program that asked for it.                                *)
DmaTargetOwn == orderly /\ dma.active /\ buffer.length => dma.target = dma.owner

(* Pinned pages are on the list that unreg_hugemem releases, or were on a  *)
(* list that a later registration wrote over; nothing else loses them, and *)
(* nothing is released twice, in any overlap of benchmarks and failures.   *)
PinsTracked ==
  \A b \in Procs : pins[b] = lost[b] + IF num_pages /\ pages = b THEN 1 ELSE 0

(* Every call of nfp_ioctl returns, unless a process has died inside.      *)
IoctlReturns ==
  \A p \in Procs : pc[p] = "down" ~> pc[p] = "user" \/ \E q \in Procs : pc[q] = "oops"

=============================================================================
