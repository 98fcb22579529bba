---------------------------- MODULE RwBarProofs -----------------------------
(***************************************************************************)
(* The driver gives back what it has taken, and rwBar touches the register *)
(* it was asked for: for any number of processes, any BARs besides BAR0,   *)
(* any card and any command lines.  The argument is the ladder of          *)
(* nfp_probe: as long as only steps have failed that it undoes, the place  *)
(* it has reached determines what it holds.                                *)
(***************************************************************************)
EXTENDS RwBar, TLAPS

USE ProbeAssumption

(* What is held when nfp_probe is about to take a step, BARs aside.        *)
Acquired(step) ==
  CASE step \in {"unbound", "kmalloc"} -> {}
    [] step \in {"enable", "payload", "readrq", "dma_mask", "ioctl"} -> {"card"}
    [] step \in {"bar0", "regions"} -> {"card", "cdev"}
    [] step = "iomap" -> {"card", "cdev", "regions"}
    [] step = "pages" -> {"card", "cdev", "regions", "bar0"}
    [] step \in {"bound", "suspended"} -> Fixed

Mapped == {"pages", "bound", "suspended"}
Claimed == {"ioctl", "bar0", "regions", "iomap"} \cup Mapped

Ladder ==
  /\ held \cap Fixed = Acquired(pc)
  /\ pc \notin Mapped => held \subseteq Fixed
  /\ enable_cnt = IF pc \in {"unbound", "kmalloc", "enable"} THEN 0 ELSE 1
  /\ drvdata <=> pc \in Claimed
  /\ pc \in {"dma_mask"} \cup Claimed => devctl.readrq = 5
  /\ opened \ stale # {} => "cdev" \in held

ProbeInv == ProbeTypeOK /\ (clean => Ladder)

(* A process that has touched the card still has the file open, and its    *)
(* BAR is mapped unless the card has been freed under the file.            *)
ProcInv(p) ==
  /\ stage[p] = "access" => p \in opened
  /\ touched[p] # NoOp => /\ stage[p] = "exit" /\ p \in opened
                          /\ touched[p] = op[p]
                          /\ clean /\ p \notin stale => Bar(touched[p].bar) \in held
  /\ ReadAsMeant /\ asked[p] # NoOp => op[p] = asked[p]

RwInv ==
  /\ ProbeInv
  /\ DOMAIN stage = Procs /\ DOMAIN touched = Procs
  /\ DOMAIN op = Procs /\ DOMAIN asked = Procs
  /\ \A p \in Procs : ProcInv(p)

-----------------------------------------------------------------------------
(* What a step of the driver does to the open files.                       *)
Orphans == stale' = IF "card" \in held \ held' THEN opened ELSE stale

(* The next state is on the ladder, but for enable_cnt, drvdata and devctl. *)
Climbed ==
  /\ held' \subseteq Fixed \cup OptionalBars
  /\ stale' = stale
  /\ clean => /\ held' \cap Fixed = Acquired(pc')
              /\ pc' \notin Mapped => held' \subseteq Fixed
              /\ opened' \ stale' # {} => "cdev" \in held'

(* A step of nfp_probe that succeeds climbs the ladder.                    *)
LEMMA Climb ==
  ASSUME ProbeInv, NEW step \in Steps, NEW next \in Steps \cup {"bound"},
         NEW resources \in SUBSET (Fixed \cup OptionalBars),
         Passes(step, next, resources), clean' = clean, opened' = opened, Orphans,
         Acquired(next) = Acquired(step) \cup (resources \cap Fixed),
         next \in Mapped \/ resources \subseteq Fixed,
         step \in Mapped => next \in Mapped
  PROVE  Climbed
<1>1. /\ pc = step /\ pc' = next /\ held' = held \cup resources
      /\ held \subseteq Fixed \cup OptionalBars
  BY Zenon DEF Passes, ProbeInv, ProbeTypeOK
<1>2. held' \subseteq Fixed \cup OptionalBars /\ stale' = stale
  BY <1>1, Zenon DEF Orphans
<1>3. ASSUME clean
      PROVE  /\ held' \cap Fixed = Acquired(pc')
             /\ pc' \notin Mapped => held' \subseteq Fixed
             /\ opened' \ stale' # {} => "cdev" \in held'
  <2>1. /\ held \cap Fixed = Acquired(step)
        /\ step \notin Mapped => held \subseteq Fixed
        /\ opened \ stale # {} => "cdev" \in held
    BY <1>1, <1>3, Zenon DEF ProbeInv, Ladder
  <2> QED BY <1>1, <1>2, <2>1, Zenon
<1> QED BY <1>2, <1>3, Zenon DEF Climbed

(* nfp_remove gives back everything, the device is unbound and every open  *)
(* file is left without its card.                                          *)
LEMMA Emptied ==
  ASSUME ProbeInv, nfp_remove, pc = "bound", pc' = "unbound",
         opened' = opened, clean' = clean, Orphans
  PROVE  /\ held' \subseteq Fixed \cup OptionalBars
         /\ stale' \subseteq opened'
         /\ clean => stale' = opened'
         /\ enable_cnt' \in Int /\ drvdata' \in BOOLEAN
         /\ clean => held' = {} /\ enable_cnt' = 0 /\ ~drvdata'
<1>1. held \subseteq Fixed \cup OptionalBars /\ enable_cnt \in Int /\ drvdata \in BOOLEAN
  BY Zenon DEF ProbeInv, ProbeTypeOK
<1>2. clean => drvdata /\ enable_cnt = 1 /\ "card" \in held
  BY Zenon DEF ProbeInv, Ladder, Acquired, Fixed, Claimed, Mapped
<1>0. stale' \subseteq opened' /\ ("card" \in held \ held' => stale' = opened')
  BY Zenon DEF Orphans, ProbeInv, ProbeTypeOK
<1>3. CASE drvdata
  <2>1. held' = held \ (Fixed \cup OptionalBars) /\ enable_cnt' = enable_cnt - 1 /\ drvdata' = FALSE
    BY <1>3, Zenon DEF nfp_remove
  <2>2. held' = {} BY <1>1, <2>1, Zenon
  <2>3. enable_cnt' \in Int /\ (enable_cnt = 1 => enable_cnt' = 0) BY <1>1, <2>1, SMTT(30)
  <2> QED BY <1>0, <1>2, <2>1, <2>2, <2>3, Zenon
<1>4. CASE ~drvdata
  BY <1>0, <1>1, <1>2, <1>4, Zenon DEF nfp_remove
<1> QED BY <1>3, <1>4, Zenon

(* The steps that succeed: beside Climb, what is left to show is           *)
(* enable_cnt, drvdata and the size of read requests.                      *)
LEMMA StepUp ==
  ASSUME ProbeInv, (Binding /\ devctl' = devctl) \/ SetPayload \/ SetReadrq,
         loaded' = loaded, opened' = opened, clean' = clean, Orphans
  PROVE  ProbeInv'
<1> USE DEF ProbeInv, ProbeTypeOK, Ladder, Mapped, Claimed, Steps
<1>1. CASE Probe /\ devctl' = devctl
  BY <1>1, Zenon DEF Probe, Acquired, Orphans
<1>2. CASE Kmalloc /\ devctl' = devctl
  <2>1. Passes("kmalloc", "enable", {"card"}) BY <1>2, Zenon DEF Kmalloc
  <2>2. Acquired("enable") = Acquired("kmalloc") \cup ({"card"} \cap Fixed)
    BY Zenon DEF Acquired, Fixed
  <2>3. {"card"} \subseteq Fixed BY Zenon DEF Fixed
  <2>9. Climbed BY <2>1, <2>2, <2>3, Climb, Zenon
  <2> QED BY <1>2, <2>1, <2>9, Zenon DEF Climbed, Kmalloc, Passes
<1>3. CASE Enable /\ devctl' = devctl
  <2>1. Passes("enable", "payload", {}) BY <1>3, Zenon DEF Enable
  <2>2. Acquired("payload") = Acquired("enable") \cup ({} \cap Fixed)
    BY Zenon DEF Acquired
  <2>3. Climbed BY <2>1, <2>2, Climb, Zenon
  <2>4. enable_cnt' \in Int /\ (clean => enable_cnt' = 1) /\ pc' = "payload"
    BY <1>3, SMTT(30) DEF Enable, Passes
  <2> QED BY <1>3, <2>3, <2>4, Zenon DEF Climbed, Enable, Passes
<1>4. CASE SetPayload
  <2>1. Passes("payload", "readrq", {}) BY <1>4, Zenon DEF SetPayload
  <2>2. Acquired("readrq") = Acquired("payload") \cup ({} \cap Fixed)
    BY Zenon DEF Acquired
  <2>3. devctl' \in [payload : 0 .. DevCap, readrq : 0 .. 5]
    BY <1>4, SMTT(30) DEF SetPayload, WithPayload, PayloadField
  <2>9. Climbed BY <2>1, <2>2, Climb, Zenon
  <2> QED BY <1>4, <2>3, <2>1, <2>9, Zenon DEF Climbed, SetPayload, Passes
<1>5. CASE SetReadrq
  <2>1. Passes("readrq", "dma_mask", {}) BY <1>5, SMTT(30) DEF SetReadrq
  <2>2. Acquired("dma_mask") = Acquired("readrq") \cup ({} \cap Fixed)
    BY SMTT(30) DEF Acquired
  <2>3. ReadrqField(4096) = 5 BY SMTT(30) DEF ReadrqField
  <2>4. devctl' \in [payload : 0 .. DevCap, readrq : 0 .. 5] /\ devctl'.readrq = 5
    BY <1>5, <2>3, SMTT(30) DEF SetReadrq
  <2>5. UNCHANGED <<ret, enable_cnt, drvdata>> BY <1>5, SMTT(30) DEF SetReadrq
  <2>9. Climbed BY <2>1, <2>2, Climb, Zenon
  <2> QED BY <2>1, <2>4, <2>5, <2>9, Zenon DEF Climbed, Passes
<1>6. CASE DmaMask /\ devctl' = devctl
  <2>1. Passes("dma_mask", "ioctl", {}) BY <1>6, Zenon DEF DmaMask
  <2>2. Acquired("ioctl") = Acquired("dma_mask") \cup ({} \cap Fixed)
    BY Zenon DEF Acquired
  <2>9. Climbed BY <2>1, <2>2, Climb, Zenon
  <2> QED BY <1>6, <2>1, <2>9, Zenon DEF Climbed, DmaMask, Passes
<1>7. CASE Ioctl /\ devctl' = devctl
  <2>1. Passes("ioctl", "bar0", {"cdev"}) BY <1>7, Zenon DEF Ioctl
  <2>2. Acquired("bar0") = Acquired("ioctl") \cup ({"cdev"} \cap Fixed)
    BY Zenon DEF Acquired, Fixed
  <2>3. {"cdev"} \subseteq Fixed BY Zenon DEF Fixed
  <2>9. Climbed BY <2>1, <2>2, <2>3, Climb, Zenon
  <2> QED BY <1>7, <2>1, <2>9, Zenon DEF Climbed, Ioctl, Passes
<1>8. CASE Bar0 /\ devctl' = devctl
  <2>1. Passes("bar0", "regions", {}) BY <1>8, Zenon DEF Bar0
  <2>2. Acquired("regions") = Acquired("bar0") \cup ({} \cap Fixed)
    BY Zenon DEF Acquired
  <2>9. Climbed BY <2>1, <2>2, Climb, Zenon
  <2> QED BY <1>8, <2>1, <2>9, Zenon DEF Climbed, Bar0, Passes
<1>9. CASE Regions /\ devctl' = devctl
  <2>1. Passes("regions", "iomap", {"regions"}) BY <1>9, SMTT(30) DEF Regions
  <2>2. Acquired("iomap") = Acquired("regions") \cup ({"regions"} \cap Fixed)
    BY Zenon DEF Acquired, Fixed
  <2>3. {"regions"} \subseteq Fixed BY Zenon DEF Fixed
  <2>9. Climbed BY <2>1, <2>2, <2>3, Climb, Zenon
  <2> QED BY <1>9, <2>1, <2>9, Zenon DEF Climbed, Regions, Passes
<1>10. CASE Iomap /\ devctl' = devctl
  <2>1. PICK bars \in SUBSET OptionalBars : Passes("iomap", "pages", {"bar0"} \cup bars)
    BY <1>10, Zenon DEF Iomap
  <2>2. Acquired("pages") = Acquired("iomap") \cup (({"bar0"} \cup bars) \cap Fixed)
    BY Zenon DEF Acquired, Fixed
  <2>3. {"bar0"} \cup bars \in SUBSET (Fixed \cup OptionalBars) BY Zenon DEF Fixed
  <2>9. Climbed BY <2>1, <2>2, <2>3, Climb, Zenon
  <2> QED BY <1>10, <2>1, <2>9, Zenon DEF Climbed, Iomap, Passes
<1>11. CASE AllocPages /\ devctl' = devctl
  <2>1. Passes("pages", "bound", {"pages"}) BY <1>11, Zenon DEF AllocPages
  <2>2. Acquired("bound") = Acquired("pages") \cup ({"pages"} \cap Fixed)
    BY Zenon DEF Acquired, Fixed
  <2>3. {"pages"} \subseteq Fixed BY Zenon DEF Fixed
  <2>9. Climbed BY <2>1, <2>2, <2>3, Climb, Zenon
  <2> QED BY <1>11, <2>1, <2>9, Zenon DEF Climbed, AllocPages, Passes
<1>12. CASE Unbind /\ devctl' = devctl
  <2>1. /\ held' \subseteq Fixed \cup OptionalBars
        /\ enable_cnt' \in Int /\ drvdata' \in BOOLEAN
        /\ stale' \subseteq opened'
        /\ clean => /\ stale' = opened'
                    /\ held' = {} /\ enable_cnt' = 0 /\ ~drvdata'
    BY <1>12, Emptied, Zenon DEF Unbind
  <2>2. Acquired("unbound") = {} BY Zenon DEF Acquired
  <2> QED BY <1>12, <2>1, <2>2, Zenon DEF Unbind
<1>13. CASE (Suspend \/ Resume) /\ devctl' = devctl
  BY <1>13, Zenon DEF Suspend, Resume, Acquired, Orphans
<1> QED
  BY <1>1, <1>2, <1>3, <1>4, <1>5, <1>6, <1>7, <1>8, <1>9, <1>10, <1>11, <1>12,
     <1>13, Zenon DEF Binding

(* The steps that fail: nfp_probe undoes the failures that leave clean as  *)
(* it is, and after the others only the types are claimed.                 *)
LEMMA StepDown ==
  ASSUME ProbeInv, StepFails \/ IomapFails \/ SetReadrqFails,
         loaded' = loaded, devctl' = devctl, opened' = opened, Orphans
  PROVE  ProbeInv' /\ (clean' => held \subseteq held' \/ stale' = opened')
<1>0. stale' \subseteq opened' /\ ("card" \in held \ held' => stale' = opened')
  BY Zenon DEF Orphans, ProbeInv, ProbeTypeOK
<1>4. CASE SetReadrqFails
  <2>1. /\ Passes("readrq", "dma_mask", {}) /\ clean' = FALSE
        /\ UNCHANGED <<ret, enable_cnt, drvdata>>
    BY <1>4, SMTT(30) DEF SetReadrqFails
  <2>2. held' = held /\ pc' = "dma_mask" BY <2>1, Zenon DEF Passes
  <2>3. ProbeTypeOK'
    BY <1>0, <2>1, <2>2, Zenon DEF ProbeInv, ProbeTypeOK, Steps
  <2> QED BY <2>1, <2>2, <2>3, Zenon DEF ProbeInv
<1>1. CASE IomapFails
  <2>1. PICK bars \in SUBSET OptionalBars : Passes("iomap", "pages", bars)
    BY <1>1, Zenon DEF IomapFails
  <2>2. held' \subseteq Fixed \cup OptionalBars /\ pc' = "pages"
    BY <2>1, Zenon DEF Passes, ProbeInv, ProbeTypeOK
  <2>3. clean' = FALSE BY <1>1, Zenon DEF IomapFails
  <2>4. ProbeTypeOK'
    BY <1>0, <1>1, <2>2, <2>3, Zenon DEF IomapFails, ProbeInv, ProbeTypeOK, Steps
  <2> QED BY <2>3, <2>4, Zenon DEF ProbeInv
<1>2. CASE StepFails
  <2>1. PICK step \in Steps \ {"iomap"} :
          /\ Fails(step, step \in {"kmalloc", "enable", "ioctl", "regions"})
          /\ clean' = (clean /\ step \in Undone)
    BY <1>2, Zenon DEF StepFails
  <2>2. pc = step /\ ProbeTypeOK BY <2>1, Zenon DEF Fails, ProbeInv
  <2>3. clean' \in BOOLEAN /\ (clean' => clean /\ step \in {"kmalloc", "ioctl"})
    BY <2>1, Zenon DEF Undone
  <2>4. CASE step = "kmalloc"
    <3>1. pc' = "unbound" /\ UNCHANGED <<ret, held, enable_cnt, drvdata>>
      BY <2>1, <2>4, Zenon DEF Fails, Return
    <3>2. stale' = stale BY <3>1, Zenon DEF Orphans
    <3>3. ProbeTypeOK' BY <2>2, <2>3, <3>1, <3>2, Zenon DEF ProbeTypeOK
    <3>4. clean => Ladder'
      BY <2>2, <2>4, <3>1, <3>2, Zenon DEF ProbeInv, Ladder, Acquired, Mapped, Claimed
    <3> QED BY <2>3, <3>1, <3>3, <3>4, Zenon DEF ProbeInv
  <2>5. CASE step = "ioctl"
    <3>1. /\ pc' = "unbound" /\ held' = held \ {"card"} /\ enable_cnt' = enable_cnt - 1
          /\ drvdata' = FALSE /\ ret' = ret
      BY <2>1, <2>5, Zenon DEF Fails, err_out_ioctl, Return
    <3>2. ProbeTypeOK'
      <4>1. held' \subseteq Fixed \cup OptionalBars /\ enable_cnt' \in Int
        BY <2>2, <3>1, SMTT(30) DEF ProbeTypeOK
      <4> QED BY <1>0, <2>2, <2>3, <3>1, <4>1, Zenon DEF ProbeTypeOK
    <3>3. ASSUME clean PROVE Ladder' /\ stale' = opened'
      <4>1. /\ held \cap Fixed = {"card"} /\ held \subseteq Fixed /\ enable_cnt = 1
        BY <2>2, <2>5, <3>3, Zenon DEF ProbeInv, Ladder, Acquired, Mapped, Claimed
      <4>2. held' = {} /\ enable_cnt' = 0
        BY <3>1, <4>1, SMTT(30) DEF Fixed
      <4>3. stale' = opened'
        BY <1>0, <4>1, <4>2, Zenon
      <4> QED BY <3>1, <4>2, <4>3, Zenon DEF Ladder, Acquired, Mapped, Claimed
    <3> QED BY <2>3, <3>2, <3>3, Zenon DEF ProbeInv
  <2>6. CASE step \notin {"kmalloc", "ioctl"}
    <3> DEFINE error == step \in {"kmalloc", "enable", "ioctl", "regions"}
    <3>1. \/ Return(error) /\ UNCHANGED <<ret, held, enable_cnt, drvdata>>
          \/ err_out_disable_device(error) \/ err_out_ioctl(error) \/ err_iface
      BY <2>1, <2>6, Zenon DEF Fails, Steps
    <3>2. pc' \in {"unbound", "bound"} /\ ret' = ret
      BY <3>1, Zenon DEF err_out_disable_device, err_out_ioctl, err_iface, Return
    <3>3. drvdata' = drvdata \/ drvdata' = FALSE
      BY <3>1, Zenon DEF err_out_disable_device, err_out_ioctl, err_iface
    <3>4. held' \subseteq Fixed \cup OptionalBars
      BY <2>2, <3>1, Zenon DEF err_out_disable_device, err_out_ioctl, err_iface, ProbeTypeOK
    <3>5. enable_cnt' \in Int
      BY <2>2, <3>1, SMTT(30) DEF err_out_disable_device, err_out_ioctl, err_iface, ProbeTypeOK
    <3>6. ProbeTypeOK' BY <1>0, <2>2, <2>3, <3>2, <3>3, <3>4, <3>5, Zenon DEF ProbeTypeOK
    <3> QED BY <2>3, <2>6, <3>6, Zenon DEF ProbeInv
  <2> QED BY <2>4, <2>5, <2>6, Zenon
<1> QED BY <1>1, <1>2, <1>4, Zenon

(* Loading and unloading the module.                                       *)
LEMMA Module ==
  ASSUME ProbeInv, Insmod \/ Rmmod,
         devctl' = devctl, opened' = opened, clean' = clean, Orphans
  PROVE  ProbeInv'
<1>1. CASE Insmod
  <2>1. stale' = stale BY <1>1, Zenon DEF Insmod, Orphans
  <2> QED BY <1>1, <2>1, SMTT(30) DEF Insmod, ProbeInv, ProbeTypeOK, Ladder
<1>2. CASE Rmmod /\ pc = "bound"
  <2>1. /\ held' \subseteq Fixed \cup OptionalBars
        /\ enable_cnt' \in Int /\ drvdata' \in BOOLEAN
        /\ stale' \subseteq opened'
        /\ clean => /\ stale' = opened'
                    /\ held' = {} /\ enable_cnt' = 0 /\ ~drvdata'
    BY <1>2, Emptied, Zenon DEF Rmmod
  <2>2. Acquired("unbound") = {} BY Zenon DEF Acquired
  <2>3. pc' = "unbound" /\ loaded' = FALSE /\ ret' = ret
    BY <1>2, Zenon DEF Rmmod
  <2> QED BY <2>1, <2>2, <2>3, Zenon DEF ProbeInv, ProbeTypeOK, Ladder, Mapped, Claimed
<1>3. CASE Rmmod /\ pc # "bound"
  BY <1>3, Zenon DEF Rmmod, ProbeInv, ProbeTypeOK, Ladder, Orphans
<1> QED BY <1>1, <1>2, <1>3, Zenon

(* Under an open file the driver only adds to what it holds, or leaves     *)
(* the file without its card.                                              *)
LEMMA DriverKeeps ==
  ASSUME ProbeInv, Driver
  PROVE  /\ ProbeInv' /\ stale \subseteq stale'
         /\ clean' => clean
         /\ clean' => held \subseteq held' \/ stale' = opened'
<1>1. opened' = opened /\ Orphans BY Zenon DEF Driver, Orphans
<1>6. stale \subseteq stale' BY <1>1, Zenon DEF Orphans, ProbeInv, ProbeTypeOK
<1>2. CASE Binding /\ UNCHANGED <<loaded, devctl, clean>>
  <2>1. ProbeInv' BY <1>1, <1>2, StepUp, Zenon
  <2>2. Unbind \/ held \subseteq held'
    BY <1>2, Zenon DEF Binding, Probe, Kmalloc, Enable, DmaMask, Ioctl, Bar0, Regions,
       Iomap, AllocPages, Suspend, Resume, Passes
  <2>3. Unbind => (clean => stale' = opened')
    BY <1>1, <1>2, Emptied, Zenon DEF Unbind
  <2> QED BY <1>2, <1>6, <2>1, <2>2, <2>3, Zenon
<1>3. CASE (SetPayload \/ SetReadrq) /\ UNCHANGED <<loaded, clean>>
  <2>1. ProbeInv' BY <1>1, <1>3, StepUp, Zenon
  <2>2. Passes("payload", "readrq", {}) \/ Passes("readrq", "dma_mask", {})
    BY <1>3, SMTT(30) DEF SetPayload, SetReadrq
  <2>3. held \subseteq held' BY <2>2, Zenon DEF Passes
  <2> QED BY <1>3, <1>6, <2>1, <2>3, Zenon
<1>4. CASE (Insmod \/ Rmmod) /\ UNCHANGED <<devctl, clean>>
  <2>1. ProbeInv' BY <1>1, <1>4, Module, Zenon
  <2>2. clean => held \subseteq held' \/ stale' = opened'
    <3>1. CASE Rmmod /\ pc = "bound"
      BY <1>1, <1>4, <3>1, Emptied, Zenon DEF Rmmod
    <3> QED BY <1>4, <3>1, Zenon DEF Insmod, Rmmod
  <2> QED BY <1>4, <1>6, <2>1, <2>2, Zenon
<1>5. CASE (StepFails \/ IomapFails \/ SetReadrqFails) /\ UNCHANGED <<loaded, devctl>>
  <2>1. ProbeInv' /\ (clean' => held \subseteq held' \/ stale' = opened')
    BY <1>1, <1>5, StepDown, Zenon
  <2>2. StepFails => (clean' => clean) BY Zenon DEF StepFails
  <2>3. IomapFails => clean' = FALSE BY Zenon DEF IomapFails
  <2>4. SetReadrqFails => clean' = FALSE BY SMTT(30) DEF SetReadrqFails
  <2> QED BY <1>5, <1>6, <2>1, <2>2, <2>3, <2>4, Zenon
<1> QED BY <1>2, <1>3, <1>4, <1>5, Zenon DEF Driver

-----------------------------------------------------------------------------
(* The steps of a program leave the driver on the ladder.                  *)
LEMMA ProgramKeepsProbe ==
  ASSUME ProbeInv, NEW p \in Procs,
         Start(p) \/ OpenDevice(p) \/ Access(p) \/ Ends(p)
  PROVE  /\ ProbeInv' /\ UNCHANGED <<held, clean>>
<1>1. UNCHANGED <<loaded, pc, ret, held, enable_cnt, drvdata, devctl, clean>>
  BY Zenon DEF Start, OpenDevice, Access, Ends, probeVars
<1>2. /\ opened' \subseteq Procs /\ stale' \subseteq opened'
      /\ opened' \ stale' # {} => opened \ stale # {} \/ "cdev" \in held
  BY Zenon DEF Start, OpenDevice, Access, Ends, probeVars, nfp_open, nfp_release, ProbeInv,
     ProbeTypeOK
<1> QED BY <1>1, <1>2, Zenon DEF ProbeInv, ProbeTypeOK, Ladder

(* Every step of the driver or of a program keeps the ladder.              *)
LEMMA ProbeStep ==
  ASSUME ProbeInv, [Next]_vars
  PROVE  ProbeInv'
<1>1. CASE UNCHANGED vars
  <2>1. UNCHANGED <<loaded, pc, ret, held, enable_cnt, drvdata, devctl, opened, stale, clean>>
    BY <1>1, Zenon DEF vars, probeVars
  <2> QED BY <2>1, Zenon DEF ProbeInv, ProbeTypeOK, Ladder
<1> QED BY <1>1, DriverKeeps, ProgramKeepsProbe, Zenon DEF Next

(* An open file whose card was not freed has it, as long as only undone    *)
(* steps have failed.                                                      *)
LEMMA CardHeld ==
  ASSUME ProbeInv, clean, opened \ stale # {}
  PROVE  "card" \in held
<1>1. "cdev" \in held \cap Fixed BY Zenon DEF ProbeInv, Ladder, Fixed
<1>2. pc \in Steps \cup {"unbound", "bound", "suspended"}
  BY Zenon DEF ProbeInv, ProbeTypeOK
<1>3. "cdev" \in Acquired(pc) BY <1>1, Zenon DEF ProbeInv, Ladder
<1>4. "card" \in Acquired(pc) BY <1>2, <1>3, Zenon DEF Acquired, Steps, Fixed
<1> QED BY <1>4, Zenon DEF ProbeInv, Ladder

(* No module, no card, no program.                                         *)
LEMMA InitHolds == Init => RwInv
<1> SUFFICES ASSUME Init PROVE RwInv BY Zenon
<1>1. ProbeTypeOK
  <2>1. devctl \in [payload : 0 .. DevCap, readrq : 0 .. 5]
    BY SMTT(30) DEF Init, ProbeInit
  <2>2. enable_cnt \in Int /\ pc \in Steps \cup {"unbound", "bound", "suspended"}
    BY SMTT(30) DEF Init, ProbeInit
  <2>3. loaded \in BOOLEAN /\ ret \in BOOLEAN /\ drvdata \in BOOLEAN /\ clean \in BOOLEAN
    BY Zenon DEF Init, ProbeInit
  <2>4. /\ held \subseteq Fixed \cup OptionalBars
        /\ opened \subseteq Procs /\ stale \subseteq opened
    BY Zenon DEF Init, ProbeInit
  <2> QED BY <2>1, <2>2, <2>3, <2>4, Zenon DEF ProbeTypeOK
<1>2. Ladder
  BY Zenon DEF Init, ProbeInit, Ladder, Acquired, Mapped, Claimed
<1>3. \A p \in Procs : ProcInv(p)
  BY Zenon DEF Init, ProcInv
<1>4. DOMAIN stage = Procs /\ DOMAIN touched = Procs /\ DOMAIN op = Procs /\ DOMAIN asked = Procs
  BY Zenon DEF Init
<1> QED BY <1>1, <1>2, <1>3, <1>4, Zenon DEF RwInv, ProbeInv

(* Every step keeps the invariant of the whole: a driver step because it   *)
(* only adds to what an open file relies on, an access because it looks at *)
(* the pointer of its BAR.                                                 *)
LEMMA NextKeeps ==
  ASSUME RwInv, [Next]_vars
  PROVE  RwInv'
<1>1. CASE Driver /\ UNCHANGED <<ealVars, rwVars>>
  <2>1. /\ ProbeInv' /\ (clean' => clean) /\ stale \subseteq stale'
        /\ clean' => held \subseteq held' \/ stale' = opened'
    BY <1>1, DriverKeeps, Zenon DEF RwInv
  <2>2. UNCHANGED <<stage, op, asked, touched, opened>>
    BY <1>1, Zenon DEF rwVars, Driver
  <2>3. ASSUME NEW p \in Procs PROVE ProcInv(p)'
    <3>1. ProcInv(p) BY Zenon DEF RwInv
    <3> QED BY <2>1, <2>2, <3>1, Zenon DEF ProcInv
  <2> QED BY <2>1, <2>2, <2>3, Zenon DEF RwInv
<1>2. ASSUME NEW p \in Procs, Start(p) \/ OpenDevice(p) \/ Access(p) \/ Ends(p)
      PROVE  RwInv'
  <2>1. ProbeInv' /\ UNCHANGED <<held, clean>>
    BY <1>2, ProgramKeepsProbe, Zenon DEF RwInv
  <2>2. /\ DOMAIN stage' = Procs /\ DOMAIN touched' = Procs
        /\ DOMAIN op' = Procs /\ DOMAIN asked' = Procs
    BY <1>2, Zenon DEF RwInv, Start, OpenDevice, Access, Ends
  <2>3. ASSUME NEW q \in Procs, q # p PROVE ProcInv(q)'
    <3>1. ProcInv(q) BY Zenon DEF RwInv
    <3>2. /\ stage'[q] = stage[q] /\ touched'[q] = touched[q]
          /\ op'[q] = op[q] /\ asked'[q] = asked[q]
      BY <1>2, <2>3, Zenon DEF RwInv, Start, OpenDevice, Access, Ends
    <3>3. (q \in opened => q \in opened') /\ (q \in stale => q \in stale')
      BY <1>2, <2>3, Zenon DEF Start, OpenDevice, Access, Ends, probeVars, nfp_open,
         nfp_release
    <3> QED BY <2>1, <3>1, <3>2, <3>3, Zenon DEF ProcInv
  <2>4. ProcInv(p)'
    <3>0. ProcInv(p) BY Zenon DEF RwInv
    <3>1. CASE Start(p)
      <4>1. PICK c \in Commands :
              /\ Accepted(c)
              /\ op' = [op EXCEPT ![p] = readArguments(c)]
              /\ asked' = [asked EXCEPT ![p] = Asks(c)]
        BY <3>1, Zenon DEF Start
      <4>2. op'[p] = readArguments(c) /\ asked'[p] = Asks(c)
        BY <4>1, Zenon DEF RwInv
      <4>3. ReadAsMeant /\ asked'[p] # NoOp => op'[p] = asked'[p]
        BY <4>1, <4>2, Zenon DEF Asks, ReadAsMeant
      <4>4. stage[p] = "begin" /\ stage'[p] = "init" /\ touched'[p] = touched[p]
        BY <3>1, Zenon DEF Start, RwInv
      <4> QED BY <3>0, <4>3, <4>4, Zenon DEF ProcInv
    <3>2. CASE OpenDevice(p)
      <4>1. /\ op'[p] = op[p] /\ asked'[p] = asked[p] /\ touched'[p] = touched[p]
            /\ stage[p] = "init"
            /\ stage'[p] = "access" => p \in opened'
        BY <3>2, Zenon DEF OpenDevice, RwInv, nfp_open
      <4> QED BY <3>0, <4>1, Zenon DEF ProcInv
    <3>3. CASE Access(p)
      <4>1. /\ op'[p] = op[p] /\ asked'[p] = asked[p] /\ stage'[p] = "exit"
            /\ p \in opened /\ p \in opened' /\ (p \in stale => p \in stale')
        BY <3>0, <3>3, Zenon DEF Access, RwInv, probeVars, ProcInv
      <4>2. \/ touched'[p] = op[p] /\ Reaches(p)
            \/ touched'[p] = touched[p]
        BY <3>3, Zenon DEF Access, RwInv
      <4>3. clean /\ p \notin stale => "card" \in held
        BY <4>1, CardHeld, Zenon DEF RwInv
      <4>4. touched[p] = NoOp
        BY <3>0, <3>3, Zenon DEF Access, ProcInv
      <4>5. Reaches(p) /\ clean /\ p \notin stale => Bar(op[p].bar) \in held
        BY <4>3, Zenon DEF Reaches, Freed
      <4>6. /\ stage'[p] = "access" => p \in opened'
            /\ ReadAsMeant /\ asked'[p] # NoOp => op'[p] = asked'[p]
        BY <3>0, <4>1, Zenon DEF ProcInv
      <4>7. touched'[p] # NoOp => /\ stage'[p] = "exit" /\ p \in opened'
                                  /\ touched'[p] = op'[p]
                                  /\ clean' /\ p \notin stale' =>
                                       Bar(touched'[p].bar) \in held'
        BY <2>1, <4>1, <4>2, <4>4, <4>5, SMTT(30) DEF Bar
      <4> QED BY <4>6, <4>7, Zenon DEF ProcInv, Bar
    <3>4. CASE Ends(p)
      <4>1. stage'[p] = "begin" /\ touched'[p] = NoOp /\ asked'[p] = NoOp
        BY <3>4, Zenon DEF Ends, RwInv
      <4> QED BY <4>1, Zenon DEF ProcInv
    <3> QED BY <1>2, <3>1, <3>2, <3>3, <3>4, Zenon
  <2> QED BY <2>1, <2>2, <2>3, <2>4, Zenon DEF RwInv
<1>3. CASE UNCHANGED vars
  <2>1. UNCHANGED <<held, opened, stale, clean>>
    BY <1>3, Zenon DEF vars, probeVars
  <2>2. UNCHANGED <<stage, op, asked, touched>>
    BY <1>3, Zenon DEF vars, rwVars
  <2>3. ProbeInv' BY ProbeStep, Zenon DEF RwInv
  <2>4. \A p \in Procs : ProcInv(p)'
    BY <2>1, <2>2, SMTT(30) DEF RwInv, ProcInv, Bar
  <2> QED BY <2>2, <2>3, <2>4, Zenon DEF RwInv
<1> QED BY <1>1, <1>2, <1>3, Zenon DEF Next

-----------------------------------------------------------------------------
(* The ladder of nfp_probe is an invariant: what the driver holds follows  *)
(* from where it is, as long as clean holds, which is until the first      *)
(* failure of a step other than kmalloc and nfpioctl_probe.                *)
THEOREM LadderInvariant == Spec => []ProbeInv
<1>1. Init => ProbeInv BY InitHolds, Zenon DEF RwInv
<1>2. ProbeInv /\ [Next]_vars => ProbeInv' BY ProbeStep, Zenon
<1> QED BY <1>1, <1>2, PTL DEF Spec

(* While clean holds, nfp_remove and the labels of nfp_probe release       *)
(* everything: an unbound device holds nothing and is not enabled, also    *)
(* after kmalloc or nfpioctl_probe has failed.  The other failures make    *)
(* clean false, and of what they leave behind nothing is claimed.          *)
THEOREM EverythingReleased == Spec => []UnboundMeansFree
<1>1. ProbeInv => UnboundMeansFree
  <2> SUFFICES ASSUME ProbeInv, clean, pc = "unbound" PROVE held = {} /\ enable_cnt = 0
    BY Zenon DEF UnboundMeansFree
  <2> QED BY Zenon DEF ProbeInv, Ladder, Acquired, Mapped
<1> QED BY <1>1, LadderInvariant, PTL

(* While clean holds, a device for which nfp_probe has returned zero is    *)
(* ready.  It also returns zero after failures that make clean false.      *)
THEOREM ReadyWhenBound == Spec => []BoundMeansReady
<1>1. ProbeInv => BoundMeansReady
  <2> SUFFICES ASSUME ProbeInv, clean, pc = "bound"
               PROVE  Fixed \subseteq held /\ enable_cnt > 0 /\ drvdata /\ devctl.readrq = 5
    BY Zenon DEF BoundMeansReady
  <2>1. held \cap Fixed = Fixed BY Zenon DEF ProbeInv, Ladder, Acquired
  <2>2. drvdata BY Zenon DEF ProbeInv, Ladder, Claimed, Mapped
  <2>3. enable_cnt > 0 /\ devctl.readrq = 5 BY SMTT(30) DEF ProbeInv, Ladder, Claimed, Mapped
  <2> QED BY <2>1, <2>2, <2>3, Zenon
<1> QED BY <1>1, LadderInvariant, PTL

(* While clean holds, a card is freed only by nfp_remove or by the label   *)
(* after nfpioctl_probe, and a file that was open then is stale: nfp_ioctl *)
(* finds a card behind every other open file.                              *)
THEOREM CardBehindFile == Spec => []OpenFileHasCard
<1>1. ProbeInv => OpenFileHasCard BY CardHeld, Zenon DEF OpenFileHasCard
<1> QED BY <1>1, LadderInvariant, PTL

(* The invariant of the programs.                                          *)
LEMMA RwInvariant == Spec => []RwInv
<1>1. Init => RwInv BY InitHolds, Zenon
<1>2. RwInv /\ [Next]_vars => RwInv' BY NextKeeps, Zenon
<1> QED BY <1>1, <1>2, PTL DEF Spec

(* What rwBar touches is what readArguments has decoded, through a BAR     *)
(* that is mapped from then on while clean holds and the file is not       *)
(* stale.                                                                  *)
AccessAsRead ==
  \A p \in Procs :
    touched[p] # NoOp =>
      /\ touched[p] = op[p]
      /\ clean /\ p \notin stale => Bar(touched[p].bar) \in held

(* That holds whatever the command lines are and however etoi reads them:  *)
(* WriteReg32 and ReadReg32 look at the pointer of the BAR, and the driver *)
(* unmaps a BAR only together with the card.                               *)
THEOREM AccessThroughMappedBar == Spec => []AccessAsRead
<1>1. RwInv => AccessAsRead BY Zenon DEF RwInv, ProcInv, AccessAsRead
<1> QED BY <1>1, RwInvariant, PTL

(* With the correctness of the parser on these command lines as an         *)
(* assumption (ReadAsMeant, which is evaluated on bounded strings and not  *)
(* proved), the register touched is the one the command line names.        *)
THEOREM RwBarCorrect == ASSUME ReadAsMeant PROVE Spec => []AccessAsAsked
<1>1. RwInv => AccessAsAsked BY Zenon DEF RwInv, ProcInv, AccessAsAsked
<1> QED BY <1>1, RwInvariant, PTL

=============================================================================
