------------------------------- MODULE RwBar --------------------------------
(***************************************************************************)
(* The program rwBar, which reads or writes one register: from the command *)
(* line (Etoi) over the middleware (init.c, writeWord, readWord) and the   *)
(* ioctl to WriteReg32 and ReadReg32 (reg.c), on a card that is bound and  *)
(* unbound meanwhile (NfpProbe).                                           *)
(***************************************************************************)
EXTENDS NfpProbe, Etoi

CONSTANTS
  CHARS,          \* values of a char
  Commands        \* command lines: [argc, op, bar, offset, val]

VARIABLES
  stage,          \* what each process does next
  op,             \* struct memory_op of each process
  asked,          \* what its command line stands for
  touched         \* the access to the card that its ioctl made

rwVars == <<stage, op, asked, touched>>
vars == <<probeVars, ealVars, rwVars>>

NoOp == [dir |-> "none", bar |-> 0, offset |-> 0, val |-> 0]

Init ==
  /\ ProbeInit
  /\ EalInit
  /\ stage = [p \in Procs |-> "begin"]
  /\ op = [p \in Procs |-> NoOp]
  /\ asked = [p \in Procs |-> NoOp]
  /\ touched = [p \in Procs |-> NoOp]

-----------------------------------------------------------------------------
(* readArguments: the command lines it takes.  With R alone it reads       *)
(* arguments that are not there, and the program ends.                     *)
Accepted(c) ==
  \/ c.op = "R" /\ c.argc \in {4, 5}
  \/ c.op = "W" /\ c.argc = 5

(* val stays 0 for a read; bar is a char.                                  *)
readArguments(c) ==
  [dir |-> c.op, bar |-> etoi(c.bar) % CHARS, offset |-> etoi(c.offset),
   val |-> IF c.op = "W" THEN etoi(c.val) ELSE 0]

(* The meaning of a command line in the documented formats.                *)
AllDocumented(c) ==
  /\ Documented(c.bar) /\ Meaning(c.bar) < CHARS
  /\ Documented(c.offset)
  /\ c.op = "W" => Documented(c.val)

Asks(c) ==
  IF AllDocumented(c)
  THEN [dir |-> c.op, bar |-> Meaning(c.bar), offset |-> Meaning(c.offset),
        val |-> IF c.op = "W" THEN Meaning(c.val) ELSE 0]
  ELSE NoOp

(* etoi reads every command line as it is meant.                           *)
ReadAsMeant ==
  \A c \in Commands : Accepted(c) /\ AllDocumented(c) => readArguments(c) = Asks(c)

Start(p) ==
  /\ stage[p] = "begin"
  /\ \E c \in Commands :
       /\ Accepted(c)
       /\ op' = [op EXCEPT ![p] = readArguments(c)]
       /\ asked' = [asked EXCEPT ![p] = Asks(c)]
  /\ stage' = [stage EXCEPT ![p] = "init"]
  /\ UNCHANGED <<probeVars, ealVars, touched>>

(* rte_eal_init opens /dev/nfp, if there is such a device.                 *)
OpenDevice(p) ==
  /\ stage[p] = "init"
  /\ \/ nfp_open(p) /\ rte_eal_init(p, TRUE) /\ stage' = [stage EXCEPT ![p] = "access"]
     \/ UNCHANGED <<opened, stale>> /\ rte_eal_init(p, FALSE) /\ stage' = [stage EXCEPT ![p] = "exit"]
  /\ UNCHANGED <<loaded, pc, ret, held, enable_cnt, drvdata, devctl, clean, op, asked, touched>>

(* WriteReg32 and ReadReg32: no access without such a BAR, or while it is  *)
(* not mapped.  Of a card that was freed the pointers may be anything.     *)
Bar(bar) == CASE bar = 0 -> "bar0" [] bar = 1 -> "bar1" [] bar = 2 -> "bar2" [] OTHER -> "none"

Freed(p) == p \in stale \/ "card" \notin held

(* Mutant: the pointer is not looked at.                                   *)
ReachesAlways(p) == Bar(op[p].bar) # "none"

Reaches(p) == Bar(op[p].bar) # "none" /\ (Bar(op[p].bar) \in held \/ Freed(p))

Misses(p) == Bar(op[p].bar) \notin held \/ Freed(p)

(* writeWord or readWord: the result of the ioctl is not looked at.        *)
Access(p) ==
  /\ stage[p] = "access" /\ getCharDeviceDescriptor(p) = "open"
  /\ \/ Reaches(p) /\ touched' = [touched EXCEPT ![p] = op[p]]
     \/ Misses(p) /\ UNCHANGED touched
  /\ stage' = [stage EXCEPT ![p] = "exit"]
  /\ UNCHANGED <<probeVars, ealVars, op, asked>>

(* The process ends: after rte_exit, or interrupted in the ioctl or killed.*)
Ends(p) ==
  /\ stage[p] # "begin"
  /\ stage[p] = "exit" => rte_vlog(p)
  /\ EalEnds(p) /\ nfp_release(p)
  /\ stage' = [stage EXCEPT ![p] = "begin"]
  /\ op' = [op EXCEPT ![p] = NoOp]
  /\ asked' = [asked EXCEPT ![p] = NoOp]
  /\ touched' = [touched EXCEPT ![p] = NoOp]
  /\ UNCHANGED <<loaded, pc, ret, held, enable_cnt, drvdata, devctl, clean>>

Next ==
  \/ Driver /\ UNCHANGED <<ealVars, rwVars>>
  \/ \E p \in Procs : Start(p) \/ OpenDevice(p) \/ Access(p) \/ Ends(p)

Spec == Init /\ [][Next]_vars

-----------------------------------------------------------------------------
TypeOK ==
  /\ ProbeTypeOK
  /\ stage \in [Procs -> {"begin", "init", "access", "exit"}]
  /\ fd \in [Procs -> {"zero", "open", "failed"}]

(* "R 0 0x9000 ... read a 32 bit word from the offset 0x9000 in the BAR0"  *)
(* (printUsage): the register that rwBar touches is the one its command    *)
(* line names, for numbers in the formats of etoi, and the BAR is mapped   *)
(* from then on, unless the card is freed under the open file, and with    *)
(* the exceptions of OpenFileHasCard.                                      *)
AccessAsAsked ==
  \A p \in Procs :
    touched[p] # NoOp =>
      /\ asked[p] # NoOp => touched[p] = asked[p]
      /\ clean /\ p \notin stale => Bar(touched[p].bar) \in held

=============================================================================
