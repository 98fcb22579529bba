------------------------------ MODULE NfpProbe ------------------------------
(***************************************************************************)
(* Loading the module, binding and unbinding the card: nfp_init, nfp_exit, *)
(* nfp_probe and nfp_remove (nfp.c) with nfpioctl_probe, nfpioctl_remove,  *)
(* pci_set_payload and pcie_set_readrq.  One action per step that acquires  *)
(* something; a step that fails jumps to the label of the code.  held is   *)
(* what the driver has acquired; enable_cnt is the kernel's count of       *)
(* pci_enable_device.  What the kernel does is modelled from its use here: *)
(* a probe that returns zero binds the device, and the module stays loaded *)
(* while a file of the device is open.                                     *)
(***************************************************************************)
EXTENDS Eal, Integers

CONSTANTS
  DevCap,         \* the maximum payload the card can do, as encoded
  OptionalBars,   \* the BARs the card may have besides BAR0
  MaxSurplus      \* bound on the surplus of calls of pci_disable_device

Fixed == {"card", "cdev", "regions", "bar0", "pages"}

ASSUME ProbeAssumption == OptionalBars \cap Fixed = {} /\ MaxSurplus \in Nat /\ DevCap \in Nat

VARIABLES
  loaded,         \* is the module loaded?
  pc,             \* the step of nfp_probe, or the state of the device
  ret,            \* is ret an error code?
  held,
  enable_cnt,
  drvdata,        \* does the device point to the card?
  devctl,         \* payload and read request size of the card, as encoded
  opened,         \* the processes with an open file
  stale,          \* those of them whose file points to a card that was freed
  clean           \* history: no step has failed but those nfp_probe undoes

probeVars == <<loaded, pc, ret, held, enable_cnt, drvdata, devctl, opened, stale, clean>>

Steps == {"kmalloc", "enable", "payload", "readrq", "dma_mask", "ioctl",
          "bar0", "regions", "iomap", "pages"}

ProbeInit ==
  /\ loaded = FALSE
  /\ pc = "unbound" /\ ret = FALSE
  /\ held = {} /\ enable_cnt = 0 /\ drvdata = FALSE
  /\ devctl \in [payload : 0 .. DevCap, readrq : {2, 5}]
  /\ opened = {} /\ stale = {} /\ clean = TRUE

(* nfp_init: the kernel may probe the card from now on.                    *)
Insmod ==
  /\ ~loaded /\ loaded' = TRUE
  /\ UNCHANGED <<pc, ret, held, enable_cnt, drvdata>>

Probe ==
  /\ loaded /\ pc = "unbound"
  /\ pc' = "kmalloc" /\ ret' = TRUE
  /\ UNCHANGED <<held, enable_cnt, drvdata>>

(* nfp_probe returns: the kernel keeps the device bound if ret is zero.    *)
Return(error) == pc' = IF error THEN "unbound" ELSE "bound"

-----------------------------------------------------------------------------
(* The size fields of the device control register: 128 * 2^n bytes.        *)
(* pci_set_payload: the field is only ever raised; -1 when the card cannot *)
(* do that much.  A size of 0 is the maximum possible.                     *)
PayloadField(payload) == IF payload = 0 THEN DevCap ELSE payload \div 256

PayloadFails(payload) ==
  \/ payload # 0 /\ payload \notin 128 .. 512
  \/ PayloadField(payload) > DevCap

WithPayload(payload) ==
  IF PayloadField(payload) > devctl.payload
  THEN [devctl EXCEPT !.payload = PayloadField(payload)] ELSE devctl

(* pcie_set_readrq: the field is ffs (count) - 8; nobody looks whether it  *)
(* could be written.                                                       *)
ReadrqField(count) ==
  CHOOSE n \in 0 .. 5 : count = <<128, 256, 512, 1024, 2048, 4096>>[n + 1]

-----------------------------------------------------------------------------
(* The labels of nfp_probe.  err_iface runs on into err_out_ioctl, and     *)
(* this one into err_out_disable_device.                                   *)
err_out_disable_device(error) ==
  /\ enable_cnt' = enable_cnt - 1
  /\ drvdata' = FALSE
  /\ Return(error)
  /\ UNCHANGED <<ret, held>>

(* Mutant: the error is lost.                                              *)
err_out_ioctl_zero(error) ==
  /\ held' = held \ {"card"}
  /\ enable_cnt' = enable_cnt - 1
  /\ drvdata' = FALSE
  /\ Return(FALSE)
  /\ UNCHANGED ret

err_out_ioctl(error) ==
  /\ held' = held \ {"card"}
  /\ enable_cnt' = enable_cnt - 1
  /\ drvdata' = FALSE
  /\ Return(error)
  /\ UNCHANGED ret

err_iface ==
  /\ held' = held \ ({"bar0", "regions", "cdev", "card"} \cup OptionalBars)
  /\ enable_cnt' = enable_cnt - 2
  /\ drvdata' = FALSE
  /\ Return(ret)
  /\ UNCHANGED ret

(* A step that fails leaves error as the value of ret.                     *)
Fails(step, error) ==
  /\ pc = step
  /\ step = "payload" => PayloadFails(128)
  /\ step = "pages" => enable_cnt + MaxSurplus > 1
  /\ CASE step \in {"kmalloc", "enable"} ->
            /\ Return(error) /\ UNCHANGED <<ret, held, enable_cnt, drvdata>>
       [] step \in {"payload", "readrq", "dma_mask"} -> err_out_disable_device(error)
       [] step \in {"ioctl", "bar0", "regions"} -> err_out_ioctl(error)
       [] step = "pages" -> err_iface

(* The failures after which nfp_probe leaves nothing behind and says so.   *)
Undone == {"kmalloc", "ioctl"}

(* ret is -ENODEV to begin with and zero from pci_enable_device on; only   *)
(* nfpioctl_probe and pci_request_regions set it to an error again.        *)
StepFails ==
  \E step \in Steps \ {"iomap"} :
    /\ Fails(step, step \in {"kmalloc", "enable", "ioctl", "regions"})
    /\ clean' = (clean /\ step \in Undone)

Passes(step, next, resources) ==
  /\ pc = step
  /\ pc' = next
  /\ held' = held \cup resources

(* Mutant: a char device is added before the card.                         *)
KmallocCdev == Passes("kmalloc", "enable", {"cdev"}) /\ UNCHANGED <<ret, enable_cnt, drvdata>>

Kmalloc == Passes("kmalloc", "enable", {"card"}) /\ UNCHANGED <<ret, enable_cnt, drvdata>>

Enable ==
  /\ Passes("enable", "payload", {})
  /\ ret' = FALSE /\ enable_cnt' = enable_cnt + 1
  /\ UNCHANGED drvdata

SetPayload ==
  /\ ~PayloadFails(128)
  /\ Passes("payload", "readrq", {})
  /\ devctl' = WithPayload(128)
  /\ UNCHANGED <<ret, enable_cnt, drvdata>>

SetReadrq ==
  /\ Passes("readrq", "dma_mask", {})
  /\ devctl' = [devctl EXCEPT !.readrq = ReadrqField(4096)]
  /\ UNCHANGED <<ret, enable_cnt, drvdata>>

SetReadrqFails ==
  /\ devctl.readrq # ReadrqField(4096)
  /\ Passes("readrq", "dma_mask", {})
  /\ clean' = FALSE
  /\ UNCHANGED <<ret, enable_cnt, drvdata>>

DmaMask ==
  /\ Passes("dma_mask", "ioctl", {})
  /\ drvdata' = TRUE
  /\ UNCHANGED <<ret, enable_cnt>>

Ioctl == Passes("ioctl", "bar0", {"cdev"}) /\ UNCHANGED <<ret, enable_cnt, drvdata>>

Bar0 == Passes("bar0", "regions", {}) /\ UNCHANGED <<ret, enable_cnt, drvdata>>

Regions == Passes("regions", "iomap", {"regions"}) /\ UNCHANGED <<ret, enable_cnt, drvdata>>

Iomap ==
  /\ \E bars \in SUBSET OptionalBars : Passes("iomap", "pages", {"bar0"} \cup bars)
  /\ UNCHANGED <<ret, enable_cnt, drvdata>>

(* Nobody looks whether BAR0 could be mapped.                              *)
IomapFails ==
  /\ \E bars \in SUBSET OptionalBars : Passes("iomap", "pages", bars)
  /\ clean' = FALSE
  /\ UNCHANGED <<ret, enable_cnt, drvdata>>

AllocPages == Passes("pages", "bound", {"pages"}) /\ UNCHANGED <<ret, enable_cnt, drvdata>>

-----------------------------------------------------------------------------
(* nfp_remove, which does nothing when there is no card.                   *)
(* Mutant: the optional BARs stay mapped.                                  *)
nfp_remove_but_bars ==
  IF drvdata
  THEN held' = held \ Fixed /\ enable_cnt' = enable_cnt - 1 /\ drvdata' = FALSE
  ELSE UNCHANGED <<held, enable_cnt, drvdata>>

nfp_remove ==
  IF drvdata
  THEN /\ held' = held \ (Fixed \cup OptionalBars)
       /\ enable_cnt' = enable_cnt - 1
       /\ drvdata' = FALSE
  ELSE UNCHANGED <<held, enable_cnt, drvdata>>

(* The card is pulled out, or unbound by hand: open files do not prevent   *)
(* it.                                                                     *)
Unbind == pc = "bound" /\ nfp_remove /\ pc' = "unbound" /\ UNCHANGED ret

(* nfp_exit: unregistering the driver removes a card that is bound.  An    *)
(* open file keeps the module.                                             *)
Rmmod ==
  /\ loaded /\ opened = {}
  /\ pc \in {"unbound", "bound"}
  /\ IF pc = "bound" THEN nfp_remove ELSE UNCHANGED <<held, enable_cnt, drvdata>>
  /\ loaded' = FALSE /\ pc' = "unbound" /\ UNCHANGED ret

Suspend == pc = "bound" /\ pc' = "suspended" /\ UNCHANGED <<ret, held, enable_cnt, drvdata>>
Resume == pc = "suspended" /\ pc' = "bound" /\ UNCHANGED <<ret, held, enable_cnt, drvdata>>

(* nfp_open and nfp_release: possible whenever the char device exists.     *)
nfp_open(p) == "cdev" \in held /\ opened' = opened \cup {p} /\ UNCHANGED stale

nfp_release(p) == opened' = opened \ {p} /\ stale' = stale \ {p}

Binding ==
  \/ Probe \/ Kmalloc \/ Enable \/ DmaMask \/ Ioctl \/ Bar0 \/ Regions
  \/ Iomap \/ AllocPages
  \/ Unbind \/ Suspend \/ Resume

Driver ==
  /\ \/ Binding /\ UNCHANGED <<loaded, devctl, clean>>
     \/ (SetPayload \/ SetReadrq) /\ UNCHANGED <<loaded, clean>>
     \/ (Insmod \/ Rmmod) /\ UNCHANGED <<devctl, clean>>
     \/ (StepFails \/ IomapFails \/ SetReadrqFails) /\ UNCHANGED <<loaded, devctl>>
  /\ stale' = IF "card" \in held \ held' THEN opened ELSE stale
  /\ UNCHANGED opened

-----------------------------------------------------------------------------
ProbeTypeOK ==
  /\ loaded \in BOOLEAN
  /\ devctl \in [payload : 0 .. DevCap, readrq : 0 .. 5]
  /\ pc \in Steps \cup {"unbound", "bound", "suspended"}
  /\ ret \in BOOLEAN /\ drvdata \in BOOLEAN
  /\ held \subseteq Fixed \cup OptionalBars
  /\ enable_cnt \in Int
  /\ opened \subseteq Procs /\ stale \subseteq opened
  /\ clean \in BOOLEAN

(* "This routine will free all the resources preallocated" (nfp_remove):   *)
(* an unbound device holds nothing and is as often disabled as enabled,    *)
(* unless a step has failed that nfp_probe does not undo.                  *)
UnboundMeansFree == clean /\ pc = "unbound" => held = {} /\ enable_cnt = 0

(* "@return The possible error code" (nfp_probe): the kernel is told that  *)
(* the card is ready only if it is, with the same exceptions: everything   *)
(* is held, the device is enabled and reads with requests of 4096 bytes.   *)
BoundMeansReady ==
  clean /\ pc = "bound" =>
    Fixed \subseteq held /\ enable_cnt > 0 /\ drvdata /\ devctl.readrq = 5

(* An open file, through which nfp_ioctl reaches the card, has a card if   *)
(* its card has not been freed since nfp_open, with the same exceptions:   *)
(* nfpioctl_probe comes after the card and before the last steps.          *)
OpenFileHasCard == clean /\ opened \ stale # {} => "card" \in held

=============================================================================
