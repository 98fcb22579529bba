--------------------------- MODULE DmaReadProofs ----------------------------
(***************************************************************************)
(* The read path of DmaTransfer: what a clock edge does to the issue of a  *)
(* request, to the host side and to the registers of one tag, the          *)
(* inductive invariant, the properties that follow from it, the measured   *)
(* time and the published statistics.                                      *)
(***************************************************************************)
EXTENDS DmaTransferProofs

(* A tag is taken exactly by the cycle that puts its request into the RQ   *)
(* registers; the request keeps its place until RQ takes it.               *)
LEMMA IssueStep ==
  ASSUME TypeOK, FsmInv, NEW tready \in BOOLEAN, NEW push, NEW keep,
         RqEdge(tready, completed_tags_r, ports, push, keep)
  PROVE  \/ /\ AllocatedTags(tready, ports) = {}
            /\ axis_rq' = axis_rq \/ tready
            /\ \A j \in Tags : Pending(j)' <=> ~tready /\ Pending(j)
         \/ \E f \in Tags \ current_tags_r :
              /\ tready
              /\ AllocatedTags(tready, ports) = {f}
              /\ f < ports.WINDOW
              /\ \A k \in Tags : k < f => k \in current_tags_r
              /\ \A j \in Tags : Pending(j)' <=> j = f
              /\ axis_rq'.words = current_rd_tlp_words_s(ports)
              /\ current_rd_tlp_words_s(ports) > 0
              /\ current_rd_tlp_words_s(ports) < CountLimit
              /\ ports.s2c /\ wr_state = "INIT_READ" /\ wr_state' # "IDLE"
<1> DEFINE Quiet == /\ AllocatedTags(tready, ports) = {}
                    /\ axis_rq' = axis_rq \/ tready
                    /\ \A j \in Tags : Pending(j)' <=> ~tready /\ Pending(j)
           Issue(f) == /\ tready
                       /\ AllocatedTags(tready, ports) = {f}
                       /\ f < ports.WINDOW
                       /\ \A k \in Tags : k < f => k \in current_tags_r
                       /\ \A j \in Tags : Pending(j)' <=> j = f
                       /\ axis_rq'.words = current_rd_tlp_words_s(ports)
                       /\ current_rd_tlp_words_s(ports) > 0
                       /\ current_rd_tlp_words_s(ports) < CountLimit
                       /\ ports.s2c /\ wr_state = "INIT_READ" /\ wr_state' # "IDLE"
<1> SUFFICES Quiet \/ \E f \in Tags \ current_tags_r : Issue(f)
  BY Zenon
<1>1. ASSUME wr_state # "INIT_READ" PROVE AllocatedTags(tready, ports) = {}
  BY <1>1, Zenon DEF AllocatedTags
<1>2. ASSUME axis_rq' = (IF tready THEN NoBeat ELSE axis_rq),
             AllocatedTags(tready, ports) = {}
      PROVE  Quiet
  BY <1>2, Zenon DEF Pending, NoBeat
<1>3. CASE \/ StartWrite(tready, ports, push) \/ StartRead(tready, ports, push)
           \/ StayIdle(tready, ports, push) \/ WriteWaits(tready, push)
           \/ WaitRead(tready, push)
  <2>1. wr_state # "INIT_READ" /\ axis_rq' = (IF tready THEN NoBeat ELSE axis_rq)
    BY <1>3, Zenon DEF StartWrite, StartRead, StayIdle, IdleEdge, WriteWaits, WaitRead
  <2> QED
    BY <1>1, <1>2, <2>1, Zenon
<1>4. CASE \/ WriteHeader(tready, ports, push) \/ WriteData(tready, ports, push)
           \/ WriteLastData(tready, ports, push)
  <2>1. wr_state # "INIT_READ" /\ tready
    BY <1>4, Zenon DEF WriteHeader, WriteData, WriteLastData
  <2>2. axis_rq'.kind # "rd"
    <3>1. CASE WriteHeader(tready, ports, push)
      <4>1. PICK n, l, e : axis_rq' = [tvalid |-> TRUE, kind |-> "wr", tag |-> 0,
                words |-> current_wr_tlp_words_s, keep |-> n, tlast |-> l, last_be |-> e]
        BY <3>1, Zenon DEF WriteHeader
      <4> QED
        BY <4>1, Zenon
    <3>2. CASE WriteData(tready, ports, push)
      BY <3>2, Zenon DEF WriteData, NoBeat
    <3>3. CASE WriteLastData(tready, ports, push)
      BY <3>3, Zenon DEF WriteLastData, NoBeat
    <3> QED
      BY <1>4, <3>1, <3>2, <3>3, Zenon
  <2>3. \A j \in Tags : ~Pending(j)'
    BY <2>2, Zenon DEF Pending
  <2> QED
    BY <1>1, <2>1, <2>3, Zenon
<1>5. CASE ReadWaits(tready, push)
  <2>1. wr_state = "INIT_READ" /\ window_size_mask_r = ports.WINDOW
    BY <1>5, Zenon DEF ReadWaits, FsmInv
  <2>2. AllocatedTags(tready, ports) = {}
    BY <1>5, <2>1, Zenon DEF ReadWaits, TagAvailable, InMask, AllocatedTags
  <2> QED
    BY <1>2, <1>5, <2>2, Zenon DEF ReadWaits
<1>6. CASE ReadRequest(tready, ports, push)
  <2>1. /\ wr_state = "INIT_READ" /\ tready /\ wr_state' # "IDLE"
        /\ window_size_mask_r = ports.WINDOW /\ ports.s2c
        /\ boundaries.rd_odd > 0 /\ boundaries.rd_odd < CountLimit
    BY <1>6, Zenon DEF ReadRequest, FsmInv
  <2>2. PICK m \in Tags \ current_tags_r : m < ports.WINDOW
    BY <1>6, <2>1, Zenon DEF ReadRequest, TagAvailable, InMask
  <2>3. /\ firstFree \in Tags \ current_tags_r
        /\ \A k \in Tags \ current_tags_r : firstFree <= k
    BY <2>2, FirstFreeLeast, Zenon
  <2>4. PICK f \in Tags \ current_tags_r :
          f = firstFree /\ \A k \in Tags \ current_tags_r : f <= k
    BY <2>3, Zenon
  <2>5. Tags \subseteq Int /\ ports.WINDOW \in Nat
    BY DEF Tags, TypeOK, EnvTypeOK, Ports
  <2>6. f < ports.WINDOW /\ \A k \in Tags : k < f => k \in current_tags_r
    BY <2>2, <2>4, <2>5
  <2>7. AllocatedTags(tready, ports) = {f}
    <3>1. f \in AllocatedTags(tready, ports)
      BY <2>1, <2>6, Zenon DEF AllocatedTags
    <3>2. ASSUME NEW j \in AllocatedTags(tready, ports) PROVE j = f
      <4>1. /\ j \in Tags \ current_tags_r
            /\ \A k \in Tags : k < j => k \in current_tags_r
        BY <3>2, Zenon DEF AllocatedTags
      <4>2. j <= f /\ f <= j
        BY <2>4, <2>5, <4>1
      <4> QED
        BY <2>5, <4>1, <4>2
    <3> QED
      BY <3>1, <3>2, Zenon
  <2>8. /\ axis_rq'.words = current_rd_tlp_words_s(ports)
        /\ axis_rq'.tvalid /\ axis_rq'.kind = "rd" /\ axis_rq'.tag = f
    BY <1>6, <2>4, Zenon DEF ReadRequest
  <2>9. current_rd_tlp_words_s(ports) > 0 /\ current_rd_tlp_words_s(ports) < CountLimit
    BY <2>1, BoundariesWellTyped, Zenon DEF current_rd_tlp_words_s, TypeOK, EnvTypeOK
  <2>10. \A j \in Tags : Pending(j)' <=> j = f
    BY <2>8, Zenon DEF Pending
  <2>11. Issue(f)
    BY <2>1, <2>6, <2>7, <2>8, <2>9, <2>10, Zenon
  <2> HIDE DEF Issue
  <2> QED
    BY <2>11, Zenon
<1> QED
  BY <1>3, <1>4, <1>5, <1>6, Zenon DEF RqEdge

(* While a request is outstanding the operation goes on and the ports of   *)
(* the manager hold still.                                                 *)
LEMMA KeepsRunning ==
  ASSUME TypeOK, FsmInv, NEW tready \in BOOLEAN, NEW beat \in Beats,
         NEW push \in Pushes, ClockEdge(tready, beat, push),
         NEW j \in Tags, TagInv(j), Outstanding(j)
  PROVE  wr_state' # "IDLE" /\ ports' = ports
<1>1. /\ j \in current_tags_r /\ wr_state # "IDLE" /\ ports.s2c
      /\ j < ports.WINDOW /\ ports.ENGINE_VALID
      /\ window_size_mask_r = ports.WINDOW
  BY Zenon DEF TagInv, FsmInv
<1>2. ~end_of_operation
  BY <1>1, Zenon DEF end_of_operation, EndOfRead, EndOfWrite, InMask
<1>3. ports' = ports
  BY <1>1, <1>2, Zenon DEF ClockEdge, ManagerEdge, PortsHold, PortsConfigure,
                    PortsRaise, PortsDrop
<1>4. wr_state' # "IDLE"
  BY <1>1, <1>2, FsmMoves, Zenon DEF ClockEdge, end_of_operation
<1> QED
  BY <1>3, <1>4, Zenon

(* What a clock edge does to the host side of tag j: the words due, and   *)
(* the completion that is arriving.                                       *)
TagHost(j, tready, beat) ==
  /\ due[j] = 0 => ~Starts(j, beat)
  /\ ~(tready /\ Pending(j)) /\ ~Starts(j, beat) => due'[j] = due[j]
  /\ tready /\ Pending(j) /\ due[j] = 0 => due'[j] = axis_rq.words
  /\ ~(tready /\ Pending(j)) /\ Starts(j, beat) =>
       due'[j] = due[j] - beat.dwords /\ due'[j] \in Nat
  /\ Starts(j, beat) => /\ beat.dwords > 0 /\ beat.dwords <= due[j]
                        /\ beat.tlast = (beat.dwords <= 5)
                        /\ Arriving(j)' <=> beat.dwords > 5
                        /\ rcTlp.left = 0
  /\ ~Starts(j, beat) /\ ~Arriving(j) => ~Arriving(j)'
  /\ Arriving(j) => /\ ~Starts(j, beat)
                    /\ Arriving(j)' <=> ~(beat.tvalid /\ beat.tlast)
                    /\ tlp_tag_r = j

(* What one clock edge means for tag j on the host side.                   *)
LEMMA TagEnv ==
  ASSUME TypeOK, StreamInv, NEW tready \in BOOLEAN, NEW beat \in Beats,
         NEW push \in Pushes, ClockEdge(tready, beat, push), NEW j \in Tags
  PROVE  TagHost(j, tready, beat)
<1>1. /\ rcTlp \in [tag : Tags, left : Nat] /\ due \in [Tags -> Nat]
      /\ is_rc_sop_r \in BOOLEAN
  BY Zenon DEF TypeOK, EnvTypeOK, RcTypeOK
<1>2. /\ beat.tvalid \in BOOLEAN /\ beat.tlast \in BOOLEAN
      /\ beat.tag \in Tags /\ beat.dwords \in Nat
      /\ beat.tvalid /\ rcTlp.left > 0 => beat.tlast = (rcTlp.left <= 8)
      /\ beat.tvalid /\ rcTlp.left = 0 =>
           /\ beat.dwords > 0
           /\ beat.dwords <= due[beat.tag]
           /\ beat.tlast = (beat.dwords <= 5)
  BY BeatFacts, ZenonT(30)
<1>3. Starts(j, beat) <=> beat.tvalid /\ rcTlp.left = 0 /\ beat.tag = j
  BY Zenon DEF Starts, StreamInv
<1>4. due'[j] = due[j] + (IF tready /\ Pending(j) THEN axis_rq.words ELSE 0)
                       - (IF Starts(j, beat) THEN beat.dwords ELSE 0)
  <2>1. AcceptedRead(j, tready) <=> tready /\ Pending(j)
    BY Zenon DEF AcceptedRead, Pending
  <2> QED
    BY <1>3, <2>1, ZenonT(30) DEF ClockEdge, DueEdge
<1>5. rcTlp' = IF ~beat.tvalid THEN rcTlp
               ELSE IF rcTlp.left > 0
                    THEN [rcTlp EXCEPT !.left = IF beat.tlast THEN 0 ELSE @ - 8]
                    ELSE [tag |-> beat.tag,
                          left |-> IF beat.tlast THEN 0 ELSE beat.dwords - 5]
  BY Zenon DEF ClockEdge, RcStreamEdge
<1>6. /\ ~beat.tvalid => rcTlp' = rcTlp
      /\ beat.tvalid /\ rcTlp.left > 0 =>
           /\ rcTlp'.tag = rcTlp.tag
           /\ rcTlp'.left > 0 <=> ~beat.tlast
      /\ beat.tvalid /\ rcTlp.left = 0 =>
           /\ rcTlp'.tag = beat.tag
           /\ rcTlp'.left > 0 <=> ~beat.tlast
  <2>1. CASE ~beat.tvalid
    BY <1>5, <2>1, Zenon
  <2>2. CASE beat.tvalid /\ rcTlp.left > 0
    <3>1. rcTlp' = [rcTlp EXCEPT !.left = IF beat.tlast THEN 0 ELSE rcTlp.left - 8]
      BY <1>5, <2>2, Zenon
    <3>2. /\ rcTlp'.tag = rcTlp.tag
          /\ rcTlp'.left = IF beat.tlast THEN 0 ELSE rcTlp.left - 8
      BY <1>1, <3>1, Zenon
    <3> QED
      BY <1>1, <1>2, <2>2, <3>2
  <2>3. CASE beat.tvalid /\ rcTlp.left = 0
    <3>1. /\ rcTlp'.tag = beat.tag
          /\ rcTlp'.left = IF beat.tlast THEN 0 ELSE beat.dwords - 5
      BY <1>5, <2>3
    <3> QED
      BY <1>2, <2>3, <3>1
  <2> QED
    BY <1>1, <1>2, <2>1, <2>2, <2>3, Zenon
<1>7. Arriving(j)' <=> rcTlp'.left > 0 /\ rcTlp'.tag = j
  BY Zenon DEF Arriving
<1>8. Starts(j, beat) => /\ beat.dwords > 0 /\ beat.dwords <= due[j]
                         /\ beat.tlast = (beat.dwords <= 5)
                         /\ Arriving(j)' <=> beat.dwords > 5
                         /\ rcTlp.left = 0
  BY <1>2, <1>3, <1>6, <1>7
<1>9. ~Starts(j, beat) /\ ~Arriving(j) => ~Arriving(j)'
  BY <1>1, <1>2, <1>3, <1>6, <1>7 DEF Arriving
<1>10. Arriving(j) => /\ ~Starts(j, beat)
                      /\ Arriving(j)' <=> ~(beat.tvalid /\ beat.tlast)
                      /\ tlp_tag_r = j
  BY <1>1, <1>2, <1>3, <1>6, <1>7 DEF Arriving, StreamInv
<1>11. due[j] \in Nat /\ axis_rq.words \in Nat
  BY <1>1, Zenon DEF TypeOK, RqTypeOK, RqBeats
<1>12. due[j] = 0 => ~Starts(j, beat)
  BY <1>2, <1>8, Dues, Zenon
<1>13. ~(tready /\ Pending(j)) /\ ~Starts(j, beat) => due'[j] = due[j]
  BY <1>4, <1>11, Dues, Zenon
<1>14. tready /\ Pending(j) /\ due[j] = 0 => due'[j] = axis_rq.words
  BY <1>4, <1>11, <1>12, Dues, Zenon
<1>15. ~(tready /\ Pending(j)) /\ Starts(j, beat) =>
         due'[j] = due[j] - beat.dwords /\ due'[j] \in Nat
  <2>1. beat.dwords \in Nat
    BY <1>2, Zenon
  <2>2. Starts(j, beat) => beat.dwords <= due[j]
    BY <1>8, Zenon
  <2>3. ~(tready /\ Pending(j)) /\ Starts(j, beat) => due'[j] = due[j] + 0 - beat.dwords
    BY <1>4, Zenon
  <2>4. beat.dwords <= due[j] =>
          due[j] + 0 - beat.dwords = due[j] - beat.dwords /\ due[j] - beat.dwords \in Nat
    BY <1>11, <2>1, Dues, Zenon
  <2> QED BY <2>2, <2>3, <2>4, Zenon
<1> QED
  BY <1>8, <1>9, <1>10, <1>12, <1>13, <1>14, <1>15, ZenonT(30) DEF TagHost

-----------------------------------------------------------------------------
(***************************************************************************)
(* The life of one tag: every clock edge preserves its part of the         *)
(* inductive invariant, in each of its phases.                             *)
(***************************************************************************)

(* Nothing can arrive when nothing is due.                                 *)
LEMMA NoBeatWithoutDue ==
  ASSUME TypeOK, NEW beat \in Beats, rcTlp.left = 0, \A k \in Tags : due[k] = 0
  PROVE  ~beat.tvalid
<1>1. /\ beat.tag \in Tags /\ beat.dwords \in Nat
      /\ beat.tvalid => beat.dwords > 0 /\ beat.dwords <= due[beat.tag]
  BY BeatFacts, Zenon
<1>2. due[beat.tag] = 0
  BY <1>1, Zenon
<1> QED
  BY <1>1, <1>2

(* The next value of the registers of tag j.                               *)
TagRegisters(j, tready, beat) ==
  /\ word_count_tag_r'[j] = NextWordCount(j, beat)
  /\ difference_r'[j] = NextDifference(j, beat, size_tags_r)
  /\ j \in is_tag_count_exceeded_r'
       <=> NextExceeded(j, beat, current_tags_r, size_tags_r)
  /\ j \in completed_tags_r' <=> TagCompletes(j, beat, current_tags_r)
  /\ size_tags_r'[j] = IF j \in AllocatedTags(tready, ports)
                       THEN current_rd_tlp_words_s(ports) ELSE size_tags_r[j]
  /\ j \in current_tags_r /\ j \notin completed_tags_r => j \in current_tags_r'
  /\ j \in AllocatedTags(tready, ports) => j \in current_tags_r'

(* Every clock edge gives them that value.                                 *)
LEMMA TagNext ==
  ASSUME NEW tready \in BOOLEAN, NEW beat, NEW push,
         ClockEdge(tready, beat, push), NEW j \in Tags
  PROVE  TagRegisters(j, tready, beat)
  BY Zenon DEF TagRegisters, ClockEdge, RcEdge, RqEdge, FreeRunning, TagsEdge

(* The types of the registers of tag j.                                    *)
LEMMA TagTypes ==
  ASSUME TypeOK, NEW j \in Tags
  PROVE  /\ due[j] \in Nat /\ size_tags_r[j] \in Nat
         /\ word_count_tag_r[j] \in Nat /\ difference_r[j] \in Nat
         /\ axis_rq.words \in Nat /\ CountLimit \in Nat
  BY RcAssumption, Zenon DEF TypeOK, EnvTypeOK, RqTypeOK, RcTypeOK, RqBeats

(* A tag that is between two requests stays so unless it is taken.         *)
LEMMA QuietTagStep ==
  ASSUME TypeOK, StreamInv, NEW tready \in BOOLEAN, NEW beat \in Beats,
         NEW push \in Pushes, ClockEdge(tready, beat, push),
         NEW j \in Tags, TagInv(j), ~Outstanding(j)
  PROVE  /\ due'[j] = 0 /\ ~Arriving(j)' /\ word_count_tag_r'[j] = 0
         /\ ~Starts(j, beat)
<1>h. TagHost(j, tready, beat)
  BY TagEnv, Zenon
<1>r. TagRegisters(j, tready, beat)
  BY TagNext, Zenon
<1>t. /\ due[j] \in Nat /\ size_tags_r[j] \in Nat
      /\ word_count_tag_r[j] \in Nat /\ difference_r[j] \in Nat
      /\ axis_rq.words \in Nat /\ CountLimit \in Nat
  BY TagTypes, Zenon
<1>1. due[j] = 0 /\ ~Arriving(j) /\ ~Pending(j)
  BY <1>t DEF Outstanding
<1>2. ~Starts(j, beat)
  BY <1>1, <1>h, Zenon DEF TagHost
<1>3. due'[j] = 0 /\ ~Arriving(j)'
  BY <1>1, <1>2, <1>h, Zenon DEF TagHost
<1>4. word_count_tag_r'[j] = 0
  BY <1>2, <1>r, Zenon DEF NextWordCount, TagInv, TagRegisters
<1> QED
  BY <1>2, <1>3, <1>4, ZenonT(30)

(* A request waits in the RQ registers, or is taken by RQ.                 *)
LEMMA PendingTagStep ==
  ASSUME TypeOK, StreamInv, FsmInv, NEW tready \in BOOLEAN, NEW beat \in Beats,
         NEW push \in Pushes, ClockEdge(tready, beat, push),
         NEW j \in Tags, TagInv(j), Pending(j),
         j \notin AllocatedTags(tready, ports),
         Pending(j)' <=> ~tready /\ Pending(j),
         axis_rq' = axis_rq \/ tready
  PROVE  TagInv(j)'
<1>h. TagHost(j, tready, beat)
  BY TagEnv, Zenon
<1>r. TagRegisters(j, tready, beat)
  BY TagNext, Zenon
<1>t. /\ due[j] \in Nat /\ size_tags_r[j] \in Nat
      /\ word_count_tag_r[j] \in Nat /\ difference_r[j] \in Nat
      /\ axis_rq.words \in Nat /\ CountLimit \in Nat
  BY TagTypes, Zenon
<1>1. /\ due[j] = 0 /\ ~Arriving(j) /\ word_count_tag_r[j] = 0
      /\ axis_rq.words = size_tags_r[j] /\ size_tags_r[j] > 0
      /\ size_tags_r[j] < CountLimit
      /\ j \in current_tags_r /\ j \notin completed_tags_r
      /\ Outstanding(j) /\ ports.s2c /\ j < ports.WINDOW
  BY Zenon DEF TagInv, Outstanding
<1>2. ~Starts(j, beat)
  BY <1>1, <1>h, Zenon DEF TagHost
<1>3. wr_state' # "IDLE" /\ ports' = ports
  BY <1>1, KeepsRunning, Zenon
<1>4. j \notin completed_tags_r'
  <2>1. ASSUME j \in is_tag_count_exceeded_r, j = tlp_tag_r PROVE ~beat.tvalid
    <3>1. rcTlp.left = 0 /\ \A k \in Tags : due[k] = 0
      BY <2>1, Zenon DEF TagInv
    <3> QED
      BY <3>1, NoBeatWithoutDue, Zenon
  <2>2. ~TagCompletes(j, beat, current_tags_r)
    BY <1>2, <2>1, Zenon DEF TagCompletes, Starts
  <2> QED
    BY <2>2, <1>r, ZenonT(30) DEF TagRegisters
<1>5. word_count_tag_r'[j] = 0
  BY <1>1, <1>2, <1>r, Zenon DEF NextWordCount, TagRegisters
<1>6. j \notin is_tag_count_exceeded_r'
  BY <1>1, <1>2, <1>r, <1>t DEF NextExceeded, TagRegisters
<1>7. size_tags_r'[j] = size_tags_r[j] /\ j \in current_tags_r'
  BY <1>1, <1>r, Zenon DEF TagRegisters
<1>8. ~Arriving(j)'
  BY <1>1, <1>2, <1>h, Zenon DEF TagHost
<1>9. CASE tready
  <2>1. due'[j] = size_tags_r[j] /\ ~Pending(j)'
    BY <1>1, <1>9, <1>h, Zenon DEF TagHost
  <2>2. difference_r'[j] = size_tags_r[j]
    <3>1. NextDifference(j, beat, size_tags_r) = Wrap(size_tags_r[j])
      BY <1>1, <1>2, <1>t DEF NextDifference
    <3> QED
      BY <1>1, <3>1, WrapSmall, <1>r, <1>t, Zenon DEF TagRegisters
  <2> QED
    BY <1>1, <1>3, <1>4, <1>5, <1>6, <1>7, <1>8, <2>1, <2>2, <1>t
       DEF TagInv, Outstanding
<1>10. CASE ~tready
  <2>1. due'[j] = 0 /\ axis_rq' = axis_rq /\ Pending(j)' /\ Outstanding(j)'
    <3>1. due'[j] = 0 /\ axis_rq' = axis_rq /\ Pending(j)'
      BY <1>1, <1>2, <1>10, <1>h, Zenon DEF TagHost
    <3> QED
      BY <3>1, Zenon DEF Outstanding
  <2> QED
    BY <1>1, <1>3, <1>4, <1>5, <1>6, <1>7, <1>8, <2>1 DEF TagInv
<1> QED
  BY <1>9, <1>10, Zenon

(* The last completion of the request is arriving.                         *)
LEMMA ArrivingTagStep ==
  ASSUME TypeOK, StreamInv, FsmInv, NEW tready \in BOOLEAN, NEW beat \in Beats,
         NEW push \in Pushes, ClockEdge(tready, beat, push),
         NEW j \in Tags, TagInv(j), ~Pending(j), due[j] = 0, Arriving(j),
         j \notin AllocatedTags(tready, ports), ~Pending(j)'
  PROVE  TagInv(j)'
<1>h. TagHost(j, tready, beat)
  BY TagEnv, Zenon
<1>r. TagRegisters(j, tready, beat)
  BY TagNext, Zenon
<1>t. /\ due[j] \in Nat /\ size_tags_r[j] \in Nat
      /\ word_count_tag_r[j] \in Nat /\ difference_r[j] \in Nat
      /\ axis_rq.words \in Nat /\ CountLimit \in Nat
  BY TagTypes, Zenon
<1>1. /\ word_count_tag_r[j] = size_tags_r[j] /\ size_tags_r[j] > 0
      /\ size_tags_r[j] < CountLimit /\ j \in is_tag_count_exceeded_r
      /\ j \in current_tags_r /\ j \notin completed_tags_r
      /\ Outstanding(j) /\ ports.s2c /\ j < ports.WINDOW
  BY Zenon DEF TagInv, Outstanding
<1>2. /\ ~Starts(j, beat) /\ tlp_tag_r = j
      /\ Arriving(j)' <=> ~(beat.tvalid /\ beat.tlast)
  BY <1>h, ZenonT(30) DEF TagHost
<1>3. wr_state' # "IDLE" /\ ports' = ports
  BY <1>1, KeepsRunning, Zenon
<1>4. due'[j] = 0
  BY <1>2, <1>h, Zenon DEF TagHost
<1>5. j \in completed_tags_r' <=> ~Arriving(j)'
  BY <1>1, <1>2, <1>r, Zenon DEF TagCompletes, TagRegisters
<1>6. word_count_tag_r'[j] = size_tags_r[j]
  BY <1>1, <1>2, <1>r, Zenon DEF NextWordCount, TagRegisters
<1>7. j \in is_tag_count_exceeded_r'
  BY <1>1, <1>2, <1>r, <1>t DEF NextExceeded, TagRegisters
<1>8. size_tags_r'[j] = size_tags_r[j] /\ j \in current_tags_r'
  BY <1>1, <1>r, Zenon DEF TagRegisters
<1> QED
  BY <1>1, <1>3, <1>4, <1>5, <1>6, <1>7, <1>8, Zenon DEF TagInv, Outstanding


(* Words of the request are due: a completion starts, or none does.        *)
LEMMA DueTagStep ==
  ASSUME TypeOK, StreamInv, FsmInv, NEW tready \in BOOLEAN, NEW beat \in Beats,
         NEW push \in Pushes, ClockEdge(tready, beat, push),
         NEW j \in Tags, TagInv(j), ~Pending(j), due[j] > 0,
         j \notin AllocatedTags(tready, ports), ~Pending(j)'
  PROVE  TagInv(j)'
<1>h. TagHost(j, tready, beat)
  BY TagEnv, Zenon
<1>r. TagRegisters(j, tready, beat)
  BY TagNext, Zenon
<1>t. /\ due[j] \in Nat /\ size_tags_r[j] \in Nat
      /\ word_count_tag_r[j] \in Nat /\ difference_r[j] \in Nat
      /\ axis_rq.words \in Nat /\ CountLimit \in Nat
  BY TagTypes, Zenon
<1>0. /\ due[j] \in Nat /\ size_tags_r[j] \in Nat /\ word_count_tag_r[j] \in Nat
      /\ beat.dwords \in Nat /\ CountLimit \in Nat
  BY <1>t, BeatFacts, ZenonT(30)
<1>1. /\ word_count_tag_r[j] + due[j] = size_tags_r[j] /\ difference_r[j] = due[j]
      /\ size_tags_r[j] < CountLimit /\ size_tags_r[j] > 0
      /\ j \notin is_tag_count_exceeded_r
      /\ j \in current_tags_r /\ j \notin completed_tags_r
      /\ Outstanding(j) /\ ports.s2c /\ j < ports.WINDOW
  BY Zenon DEF TagInv, Outstanding
<1>2. wr_state' # "IDLE" /\ ports' = ports
  BY <1>1, KeepsRunning, Zenon
<1>3. size_tags_r'[j] = size_tags_r[j] /\ j \in current_tags_r'
  BY <1>1, <1>r, SMTT(30) DEF TagRegisters
<1>5. CASE ~Starts(j, beat)
  <2>1. due'[j] = due[j]
    BY <1>5, <1>h, Zenon DEF TagHost
  <2>2. word_count_tag_r'[j] = word_count_tag_r[j]
    BY <1>1, <1>5, <1>r, Zenon DEF NextWordCount, TagRegisters
  <2>3. difference_r'[j] = due[j]
    <3>1. NextDifference(j, beat, size_tags_r) = Wrap(due[j])
      <4>1. size_tags_r[j] - word_count_tag_r[j] = due[j]
        BY <1>0, <1>1
      <4> QED
        BY <1>5, <4>1, ZenonT(30) DEF NextDifference
    <3> QED
      BY <1>0, <1>1, <3>1, WrapSmall, <1>r DEF TagRegisters
  <2>4. j \notin is_tag_count_exceeded_r'
    BY <1>0, <1>1, <1>5, <1>r DEF NextExceeded, TagRegisters
  <2>5. j \notin completed_tags_r'
    BY <1>1, <1>5, <1>r, Zenon DEF TagCompletes, Starts, TagRegisters
  <2> QED
    BY <1>0, <1>1, <1>2, <1>3, <2>1, <2>2, <2>3, <2>4, <2>5, SMTT(30) DEF TagInv,
       Outstanding
<1>6. CASE Starts(j, beat)
  <2>1. /\ beat.dwords > 0 /\ beat.dwords <= due[j]
        /\ beat.tlast = (beat.dwords <= 5)
        /\ Arriving(j)' <=> beat.dwords > 5
    BY <1>6, <1>h, ZenonT(30) DEF TagHost
  <2>2. due'[j] = due[j] - beat.dwords /\ due'[j] \in Nat
    BY <1>6, <1>h, Zenon DEF TagHost
  <2>3. EndsInOnePulse(j, beat) <=> beat.dwords <= 5 /\ beat.dwords = due[j]
    <3>1. beat.dwords >= difference_r[j] <=> beat.dwords = due[j]
      BY <1>0, <1>1, <2>1
    <3>2. beat.tlast <=> beat.dwords <= 5
      BY <2>1, Zenon
    <3> QED
      BY <3>1, <3>2, Zenon DEF EndsInOnePulse
  <2>4. CASE EndsInOnePulse(j, beat)
    <3>1. due'[j] = 0 /\ ~Arriving(j)'
      <4>1. beat.dwords = due[j] /\ beat.dwords <= 5 /\ due'[j] = due[j] - beat.dwords
        BY <2>2, <2>3, <2>4, Zenon
      <4>2. due'[j] = 0 /\ ~(beat.dwords > 5)
        BY <1>0, <4>1
      <4> QED
        BY <2>1, <4>2, Zenon
    <3>2. word_count_tag_r'[j] = 0
      BY <1>6, <2>4, <1>r, ZenonT(30) DEF NextWordCount, TagRegisters
    <3>3. ~Outstanding(j)'
      BY <3>1, SMTT(30) DEF Outstanding
    <3> QED
      BY <1>1, <1>3, <3>1, <3>2, <3>3, SMTT(30) DEF TagInv
  <2>5. CASE ~EndsInOnePulse(j, beat)
    <3>1. word_count_tag_r'[j] = word_count_tag_r[j] + beat.dwords
      <4>1. word_count_tag_r'[j] = Wrap(word_count_tag_r[j] + beat.dwords)
        BY <1>1, <1>6, <2>5, <1>r, Zenon DEF NextWordCount, TagRegisters
      <4>2. /\ word_count_tag_r[j] + beat.dwords \in Nat
            /\ word_count_tag_r[j] + beat.dwords < CountLimit
        BY <1>0, <1>1, <2>1
      <4> QED
        BY <4>1, <4>2, WrapSmall, ZenonT(30)
    <3>2. difference_r'[j] = due'[j]
      <4>1. size_tags_r[j] - word_count_tag_r[j] - beat.dwords = due'[j]
        BY <1>0, <1>1, <2>2, SMTT(30)
      <4>2. difference_r'[j] = Wrap(due'[j])
        BY <1>6, <4>1, <1>r, ZenonT(30) DEF NextDifference, TagRegisters
      <4> QED
        BY <1>0, <1>1, <2>1, <2>2, <4>2, WrapSmall
    <3>3. j \in is_tag_count_exceeded_r' <=> due'[j] = 0
      <4>1. size_tags_r[j] - word_count_tag_r[j] = due[j] /\ Wrap(due[j]) = due[j]
        <5>1. size_tags_r[j] - word_count_tag_r[j] = due[j] /\ due[j] < CountLimit
          BY <1>0, <1>1
        <5> QED
          BY <1>0, <5>1, WrapSmall, ZenonT(30)
      <4>2. j \in is_tag_count_exceeded_r' <=> due[j] <= beat.dwords
        BY <1>1, <1>6, <2>5, <4>1, <1>r, Zenon DEF NextExceeded, TagRegisters
      <4> QED
        BY <1>0, <2>1, <2>2, <4>2, SMTT(30)
    <3>4. j \notin completed_tags_r'
      BY <1>1, <2>5, <1>r, SMTT(30) DEF TagCompletes, TagRegisters
    <3>5. due'[j] = 0 => Arriving(j)'
      <4>1. ASSUME due'[j] = 0 PROVE beat.dwords = due[j]
        BY <1>0, <2>2, <4>1
      <4>2. beat.dwords <= 5 \/ beat.dwords > 5
        BY <1>0
      <4> QED
        BY <2>1, <2>3, <2>5, <4>1, <4>2, Zenon
    <3>6. Outstanding(j)'
      BY <2>2, <3>5 DEF Outstanding
    <3>7. word_count_tag_r'[j] + due'[j] = size_tags_r[j]
      BY <1>0, <1>1, <2>2, <3>1
    <3> QED
      BY <1>0, <1>1, <1>2, <1>3, <2>2, <3>1, <3>2, <3>3, <3>4, <3>6, <3>7, SMTT(30)
         DEF TagInv
  <2> QED
    BY <2>4, <2>5, SMTT(30)
<1> QED
  BY <1>5, <1>6, SMTT(30)

(* A free tag is taken.  is_tag_count_exceeded_r may still be high from    *)
(* its unused state, but then tlp_tag_r names another tag, or nothing can  *)
(* arrive: this is where the idle value of TDATA matters.                  *)
LEMMA NewTagStep ==
  ASSUME IdleTags \subseteq {0},
         TypeOK, ReadInv, NEW tready \in BOOLEAN, NEW beat \in Beats,
         NEW push \in Pushes, ClockEdge(tready, beat, push),
         NEW j \in Tags \ current_tags_r,
         tready, AllocatedTags(tready, ports) = {j}, j < ports.WINDOW,
         \A k \in Tags : Pending(k)' <=> k = j,
         axis_rq'.words = current_rd_tlp_words_s(ports),
         current_rd_tlp_words_s(ports) > 0,
         current_rd_tlp_words_s(ports) < CountLimit,
         ports.s2c, wr_state = "INIT_READ", wr_state' # "IDLE"
  PROVE  TagInv(j)'
<1>1. FsmInv /\ StreamInv /\ FirstUseInv /\ TagInv(j)
  BY Zenon DEF ReadInv
<1>2. ~Outstanding(j)
  BY <1>1, Zenon DEF TagInv
<1>3. /\ due'[j] = 0 /\ ~Arriving(j)' /\ word_count_tag_r'[j] = 0
      /\ ~Starts(j, beat)
  BY <1>1, <1>2, QuietTagStep, Zenon
<1>4. /\ size_tags_r'[j] = current_rd_tlp_words_s(ports) /\ j \in current_tags_r'
  BY TagNext, Zenon DEF TagRegisters
<1>5. j \notin completed_tags_r'
  BY TagNext, Zenon DEF TagRegisters, TagCompletes
<1>6. ports' = ports
  <2>1. ports.ENGINE_VALID /\ wr_state # "IDLE"
    BY <1>1, Zenon DEF FsmInv
  <2>2. ~end_of_operation
    BY Zenon DEF end_of_operation, EndOfRead, EndOfWrite
  <2> QED
    BY <2>1, <2>2, Zenon DEF ClockEdge, ManagerEdge, PortsHold, PortsConfigure,
                      PortsRaise, PortsDrop
<1>7. ASSUME j \in is_tag_count_exceeded_r'
      PROVE  \/ tlp_tag_r' # j
             \/ rcTlp'.left = 0 /\ \A k \in Tags : due'[k] = 0
  <2>1. word_count_tag_r[j] >= size_tags_r[j] /\ j \notin completed_tags_r
    BY <1>3, <1>7, TagNext, Zenon DEF TagRegisters, NextExceeded
  <2>2. size_tags_r[j] = 0
    BY <1>1, <1>2, <2>1, TagTypes DEF TagInv
  <2>3. CASE j # 0
    <3>1. tlp_tag_r # j
      BY <1>1, <2>2, <2>3 DEF StreamInv
    <3>2. is_rc_sop_r => beat.tag # j
      <4>1. CASE ~beat.tvalid
        BY <2>3, <4>1, BeatFacts, Zenon
      <4>2. CASE beat.tvalid
        BY <1>3, <4>2, Zenon DEF Starts
      <4> QED
        BY <4>1, <4>2, Zenon
    <3>3. tlp_tag_r' # j
      BY <3>1, <3>2, Zenon DEF ClockEdge, RcEdge
    <3> QED
      BY <3>3, Zenon
  <2>4. CASE j = 0
    <3>1. \A k \in Tags : ~Outstanding(k)
      BY <1>1, <2>2, <2>4, Zenon DEF FirstUseInv
    <3>2. \A k \in Tags : due[k] = 0 /\ ~Pending(k) /\ ~Arriving(k)
      BY <3>1, TagTypes DEF Outstanding
    <3>3. rcTlp.left = 0
      <4>1. rcTlp.tag \in Tags /\ rcTlp.left \in Nat
        BY Zenon DEF TypeOK, EnvTypeOK
      <4> QED
        BY <3>2, <4>1 DEF Arriving
    <3>4. ~beat.tvalid
      BY <3>2, <3>3, NoBeatWithoutDue, Zenon
    <3>5. rcTlp' = rcTlp
      BY <3>4, Zenon DEF ClockEdge, RcStreamEdge
    <3>6. ASSUME NEW k \in Tags PROVE due'[k] = 0
      <4>1. ~Starts(k, beat)
        BY <3>4, Zenon DEF Starts
      <4>2. TagHost(k, tready, beat)
        BY <1>1, TagEnv, Zenon
      <4> QED
        BY <3>2, <4>1, <4>2, Zenon DEF TagHost
    <3> QED
      BY <3>3, <3>5, <3>6, Zenon
  <2> QED
    BY <2>3, <2>4, Zenon
<1>8. Pending(j)' /\ Outstanding(j)'
  BY Zenon DEF Outstanding
<1> QED
  BY <1>3, <1>4, <1>5, <1>6, <1>7, <1>8 DEF TagInv

(* The life of one tag goes on correctly through every clock edge.         *)
LEMMA TagStep ==
  ASSUME IdleTags \subseteq {0},
         TypeOK, ReadInv, NEW tready \in BOOLEAN, NEW beat \in Beats,
         NEW push \in Pushes, ClockEdge(tready, beat, push), NEW j \in Tags
  PROVE  TagInv(j)'
<1>1. FsmInv /\ StreamInv /\ TagInv(j)
  BY SMTT(30) DEF ReadInv
<1>2. ASSUME j \notin AllocatedTags(tready, ports),
             Pending(j)' <=> ~tready /\ Pending(j),
             axis_rq' = axis_rq \/ tready
      PROVE  TagInv(j)'
  <2>1. CASE Pending(j)
    BY <1>1, <1>2, <2>1, PendingTagStep, Zenon
  <2>2. CASE ~Pending(j) /\ due[j] > 0
    BY <1>1, <1>2, <2>2, DueTagStep, Zenon
  <2>3. CASE ~Pending(j) /\ due[j] = 0 /\ Arriving(j)
    BY <1>1, <1>2, <2>3, ArrivingTagStep, Zenon
  <2>4. CASE ~Outstanding(j)
    <3>1. /\ due'[j] = 0 /\ ~Arriving(j)' /\ word_count_tag_r'[j] = 0
      BY <1>1, <2>4, QuietTagStep, Zenon
    <3>2. ~Outstanding(j)' /\ ~Pending(j)'
      BY <1>2, <2>4, <3>1 DEF Outstanding
    <3>3. size_tags_r'[j] < CountLimit
      BY <1>1, <1>2, TagNext, Zenon DEF TagRegisters, TagInv
    <3> QED
      BY <3>1, <3>2, <3>3 DEF TagInv
  <2> QED
    <3>1. due[j] = 0 \/ due[j] > 0
      BY TagTypes
    <3> QED
      BY <2>1, <2>2, <2>3, <2>4, <3>1, Zenon DEF Outstanding
<1>3. CASE /\ AllocatedTags(tready, ports) = {}
           /\ axis_rq' = axis_rq \/ tready
           /\ \A k \in Tags : Pending(k)' <=> ~tready /\ Pending(k)
  BY <1>2, <1>3, Zenon
<1>4. ASSUME NEW f \in Tags \ current_tags_r,
             tready, AllocatedTags(tready, ports) = {f}, f < ports.WINDOW,
             \A k \in Tags : Pending(k)' <=> k = f,
             axis_rq'.words = current_rd_tlp_words_s(ports),
             current_rd_tlp_words_s(ports) > 0,
             current_rd_tlp_words_s(ports) < CountLimit,
             ports.s2c, wr_state = "INIT_READ", wr_state' # "IDLE"
      PROVE  TagInv(j)'
  <2>1. CASE j = f
    BY <1>4, <2>1, NewTagStep, Zenon
  <2>2. CASE j # f
    BY <1>2, <1>4, <2>2, Zenon
  <2> QED
    BY <2>1, <2>2, Zenon
<1> QED
  BY <1>1, <1>3, <1>4, IssueStep, Zenon DEF ClockEdge

-----------------------------------------------------------------------------
(***************************************************************************)
(* The inductive invariant of the read path, and the safety of every       *)
(* read operation that follows from it.                                    *)
(***************************************************************************)

(* A size once recorded stays positive.                                    *)
LEMMA SizesStayPositive ==
  ASSUME TypeOK, FsmInv, NEW tready \in BOOLEAN, NEW beat, NEW push,
         ClockEdge(tready, beat, push), NEW j \in Tags,
         size_tags_r[j] > 0 \/ j \in AllocatedTags(tready, ports)
  PROVE  size_tags_r'[j] > 0
<1>1. j \in AllocatedTags(tready, ports) => current_rd_tlp_words_s(ports) > 0
  BY IssueStep, Zenon DEF ClockEdge
<1> QED
  BY <1>1, TagNext, ZenonT(30) DEF TagRegisters

(* The completion logic stays in step with the RC stream.                  *)
LEMMA StreamStep ==
  ASSUME IdleTags \subseteq {0},
         TypeOK, ReadInv, NEW tready \in BOOLEAN, NEW beat \in Beats,
         NEW push \in Pushes, ClockEdge(tready, beat, push)
  PROVE  StreamInv'
<1>1. StreamInv /\ FsmInv
  BY Zenon DEF ReadInv
<1>2. /\ rcTlp.left \in Nat /\ rcTlp \in [tag : Tags, left : Nat]
      /\ is_rc_sop_r \in BOOLEAN /\ tlp_tag_r \in Tags
  BY Zenon DEF TypeOK, EnvTypeOK, RcTypeOK
<1>3. /\ beat.tvalid \in BOOLEAN /\ beat.tlast \in BOOLEAN
      /\ beat.tag \in Tags /\ beat.dwords \in Nat
      /\ ~beat.tvalid => beat.tag \in IdleTags
      /\ beat.tvalid /\ rcTlp.left > 0 => beat.tlast = (rcTlp.left <= 8)
      /\ beat.tvalid /\ rcTlp.left = 0 =>
           /\ beat.dwords > 0
           /\ beat.dwords <= due[beat.tag]
           /\ beat.tlast = (beat.dwords <= 5)
  BY BeatFacts, Zenon
<1>4. /\ is_rc_sop_r' = (IF beat.tvalid THEN beat.tlast ELSE is_rc_sop_r)
      /\ tlp_tag_r' = (IF is_rc_sop_r THEN beat.tag ELSE tlp_tag_r)
  BY Zenon DEF ClockEdge, RcEdge
<1>5. rcTlp' = IF ~beat.tvalid THEN rcTlp
               ELSE IF rcTlp.left > 0
                    THEN [rcTlp EXCEPT !.left = IF beat.tlast THEN 0 ELSE @ - 8]
                    ELSE [tag |-> beat.tag,
                          left |-> IF beat.tlast THEN 0 ELSE beat.dwords - 5]
  BY Zenon DEF ClockEdge, RcStreamEdge
<1>6. (is_rc_sop_r' <=> rcTlp'.left = 0) /\ (~is_rc_sop_r' => tlp_tag_r' = rcTlp'.tag)
  <2>1. CASE ~beat.tvalid
    BY <1>1, <1>2, <1>4, <1>5, <2>1, Zenon DEF StreamInv
  <2>2. CASE beat.tvalid /\ rcTlp.left > 0
    <3>1. rcTlp' = [rcTlp EXCEPT !.left = IF beat.tlast THEN 0 ELSE rcTlp.left - 8]
      BY <1>5, <2>2, Zenon
    <3>2. /\ rcTlp'.tag = rcTlp.tag
          /\ rcTlp'.left = IF beat.tlast THEN 0 ELSE rcTlp.left - 8
      BY <1>2, <3>1, Zenon
    <3>3. ~is_rc_sop_r /\ tlp_tag_r = rcTlp.tag
      BY <1>1, <1>2, <2>2 DEF StreamInv
    <3>4. is_rc_sop_r' = beat.tlast /\ tlp_tag_r' = rcTlp.tag
      BY <1>4, <2>2, <3>3, Zenon
    <3> QED
      BY <1>2, <1>3, <2>2, <3>2, <3>4
  <2>3. CASE beat.tvalid /\ rcTlp.left = 0
    <3>1. /\ rcTlp'.tag = beat.tag
          /\ rcTlp'.left = IF beat.tlast THEN 0 ELSE beat.dwords - 5
      BY <1>5, <2>3
    <3>2. is_rc_sop_r
      BY <1>1, <2>3, Zenon DEF StreamInv
    <3>3. is_rc_sop_r' = beat.tlast /\ tlp_tag_r' = beat.tag
      BY <1>4, <2>3, <3>2, Zenon
    <3> QED
      BY <1>3, <2>3, <3>1, <3>3
  <2> QED
    BY <1>2, <1>3, <2>1, <2>2, <2>3
<1>7. tlp_tag_r' = 0 \/ size_tags_r'[tlp_tag_r'] > 0
  <2>1. ASSUME NEW t \in Tags, t = 0 \/ size_tags_r[t] > 0
        PROVE  t = 0 \/ size_tags_r'[t] > 0
    BY <1>1, <2>1, SizesStayPositive, Zenon
  <2>2. tlp_tag_r = 0 \/ size_tags_r[tlp_tag_r] > 0
    BY <1>1, Zenon DEF StreamInv
  <2>3. is_rc_sop_r => beat.tag = 0 \/ size_tags_r[beat.tag] > 0
    <3>1. CASE ~beat.tvalid
      BY <1>3, <3>1, Zenon
    <3>2. CASE beat.tvalid /\ is_rc_sop_r
      <4>1. due[beat.tag] > 0
        BY <1>1, <1>3, <3>2, TagTypes DEF StreamInv
      <4>2. Outstanding(beat.tag) /\ TagInv(beat.tag)
        BY <1>3, <4>1, Zenon DEF Outstanding, ReadInv
      <4> QED
        BY <4>2, Zenon DEF TagInv
    <3> QED
      BY <1>3, <3>1, <3>2, Zenon
  <2> QED
    BY <1>2, <1>3, <1>4, <2>1, <2>2, <2>3, Zenon
<1> QED
  BY <1>6, <1>7, Zenon DEF StreamInv

(* Tag 0 is the first to be used.                                          *)
LEMMA FirstUseStep ==
  ASSUME TypeOK, ReadInv, NEW tready \in BOOLEAN, NEW beat \in Beats,
         NEW push \in Pushes, ClockEdge(tready, beat, push)
  PROVE  FirstUseInv'
<1>1. StreamInv /\ FsmInv /\ FirstUseInv /\ 0 \in Tags
  BY ZeroTag, Zenon DEF ReadInv
<1>2. ASSUME 0 \in current_tags_r' PROVE size_tags_r'[0] > 0
  <2>1. 0 \in current_tags_r \/ 0 \in AllocatedTags(tready, ports)
    BY <1>2, Zenon DEF ClockEdge, RqEdge, FreeRunning, TagsEdge
  <2> QED
    BY <1>1, <2>1, SizesStayPositive, Zenon DEF FirstUseInv
<1>3. ASSUME size_tags_r'[0] = 0, NEW k \in Tags PROVE ~Outstanding(k)'
  <2>1. size_tags_r[0] \in Nat /\ 0 \notin AllocatedTags(tready, ports)
    BY <1>1, <1>3, SizesStayPositive, TagTypes
  <2>2. size_tags_r[0] = 0
    BY <1>1, <1>3, <2>1, TagNext, Zenon DEF TagRegisters
  <2>3. 0 \notin current_tags_r /\ ~Outstanding(k)
    BY <1>1, <2>2 DEF FirstUseInv
  <2>4. due'[k] = 0 /\ ~Arriving(k)'
    BY <1>1, <2>3, QuietTagStep, Zenon DEF ReadInv
  <2>5. ~Pending(k)'
    <3>1. ASSUME NEW f \in Tags \ current_tags_r,
                 AllocatedTags(tready, ports) = {f},
                 \A i \in Tags : i < f => i \in current_tags_r
          PROVE  FALSE
      <4>1. f # 0
        BY <2>1, <3>1, Zenon
      <4>2. 0 < f
        BY <4>1 DEF Tags
      <4> QED
        BY <1>1, <2>3, <3>1, <4>2, Zenon
    <3>2. \A i \in Tags : Pending(i)' <=> ~tready /\ Pending(i)
      BY <1>1, <3>1, IssueStep, Zenon DEF ClockEdge
    <3> QED
      BY <2>3, <3>2, Zenon DEF Outstanding
  <2> QED
    BY <2>4, <2>5 DEF Outstanding
<1> QED
  BY <1>2, <1>3, Zenon DEF FirstUseInv

(* After a reset nothing is outstanding.                                   *)
LEMMA InitRead == Init => ReadInv
<1> SUFFICES ASSUME Init PROVE ReadInv
  BY Zenon
<1>1. FsmInv
  BY TagsAssumption DEF Init, RqInit, ResetPorts, FsmInv
<1>2. StreamInv
  BY Zenon DEF Init, RcInit, StreamInv
<1>3. ASSUME NEW k \in Tags PROVE ~Outstanding(k) /\ ~Pending(k) /\ ~Arriving(k)
  BY DEF Init, RqInit, NoBeat, Outstanding, Pending, Arriving
<1>4. FirstUseInv
  BY <1>3, Zenon DEF Init, RqInit, FirstUseInv
<1>5. ASSUME NEW k \in Tags PROVE TagInv(k)
  BY <1>3, RcAssumption DEF Init, RqInit, RcInit, TagInv
<1> QED
  BY <1>1, <1>2, <1>4, <1>5, Zenon DEF ReadInv

(* Every step preserves the invariant, a reset only when nothing is under  *)
(* way.                                                                    *)
LEMMA NextRead ==
  ASSUME ~ResetMidFlight, IdleTags \subseteq {0}
  PROVE  TypeOK /\ ReadInv /\ [Next]_vars => ReadInv'
<1> SUFFICES ASSUME TypeOK, ReadInv, [Next]_vars PROVE ReadInv'
  BY Zenon
<1>1. ASSUME NEW tready \in BOOLEAN, NEW beat \in Beats, NEW push \in Pushes,
             ClockEdge(tready, beat, push)
      PROVE  ReadInv'
  <2>1. FsmInv'
    BY <1>1, FsmStep, Zenon DEF ReadInv
  <2>2. StreamInv'
    BY <1>1, StreamStep, Zenon
  <2>3. FirstUseInv'
    BY <1>1, FirstUseStep, Zenon
  <2>4. \A j \in Tags : TagInv(j)'
    BY <1>1, TagStep, Zenon
  <2> QED
    BY <2>1, <2>2, <2>3, <2>4, Zenon DEF ReadInv
<1>2. CASE UserReset
  <2>1. rcTlp' = rcTlp /\ due' = due /\ rcTlp.left = 0 /\ \A k \in Tags : due[k] = 0
    BY <1>2, Zenon DEF UserReset, Quiescent
  <2>2. FsmInv'
    BY <1>2, TagsAssumption DEF UserReset, RqReset, ResetPorts, FsmInv
  <2>3. StreamInv'
    BY <1>2, <2>1, Zenon DEF UserReset, RcReset, StreamInv
  <2>4. ASSUME NEW k \in Tags PROVE ~Outstanding(k)' /\ ~Pending(k)' /\ ~Arriving(k)'
    BY <1>2, <2>1 DEF UserReset, RqReset, NoBeat, Outstanding, Pending, Arriving
  <2>5. FirstUseInv'
    BY <1>2, <2>4 DEF UserReset, RqReset, FirstUseInv
  <2>6. ASSUME NEW k \in Tags PROVE TagInv(k)'
    BY <1>2, <2>1, <2>4, RcAssumption, SMTT(30) DEF UserReset, RqReset, RcReset, TagInv
  <2> QED
    BY <2>2, <2>3, <2>5, <2>6, Zenon DEF ReadInv
<1>3. CASE UNCHANGED vars
  BY <1>3, ZenonT(30) DEF vars, rqVars, rcVars, envVars, ReadInv, FsmInv, StreamInv,
              FirstUseInv, TagInv, Outstanding, Pending, Arriving
<1> QED
  BY <1>1, <1>2, <1>3, Zenon DEF Next

(* What the invariant means for the properties of the read path.           *)
LEMMA ReadInvImplies ==
  TypeOK /\ ReadInv => /\ CompletedMeansAllReceived
                       /\ OutstandingIsBusy
                       /\ WordsConserved
                       /\ WindowRespected
                       /\ EndOfReadMeansAllReceived
<1> SUFFICES ASSUME TypeOK, ReadInv
             PROVE  /\ CompletedMeansAllReceived
                    /\ OutstandingIsBusy
                    /\ WordsConserved
                    /\ WindowRespected
                    /\ EndOfReadMeansAllReceived
  BY Zenon
<1>1. ASSUME NEW j \in Tags
      PROVE  /\ Outstanding(j) => /\ j \in current_tags_r /\ j \notin completed_tags_r
                                  /\ j < ports.WINDOW
             /\ due[j] > 0 => word_count_tag_r[j] + due[j] = size_tags_r[j]
  BY Zenon DEF ReadInv, TagInv
<1>2. completed_tags_r \subseteq Tags
  BY Zenon DEF TypeOK, RcTypeOK
<1>3. EndOfReadMeansAllReceived
  <2>1. EndOfRead => window_size_mask_r = ports.WINDOW
    BY Zenon DEF EndOfRead, ReadInv, FsmInv
  <2> QED
    BY <1>1, <2>1, Zenon DEF EndOfReadMeansAllReceived, EndOfRead, InMask
<1> QED
  BY <1>1, <1>2, <1>3, Zenon
     DEF CompletedMeansAllReceived, OutstandingIsBusy, WordsConserved, WindowRespected

(* The inductive invariant of the read path holds for every number of      *)
(* tags, window, TLP size and split of completions, provided the RC stream *)
(* shows tag 0 while idle and a reset waits for outstanding completions.   *)
THEOREM ReadInvariant ==
  ASSUME ~ResetMidFlight, IdleTags \subseteq {0}
  PROVE  Spec => []ReadInv
  BY InitTypes, NextTypes, InitRead, NextRead, PTL DEF Spec

(* dma_rc_logic reports a tag as completed only when its last word is in.  *)
THEOREM CompletionCorrect ==
  ASSUME ~ResetMidFlight, IdleTags \subseteq {0}
  PROVE  Spec => []CompletedMeansAllReceived
  BY TypeCorrect, ReadInvariant, ReadInvImplies, PTL

(* dma_rq_logic never reuses a tag the host still answers.                 *)
THEOREM TagsNotReused ==
  ASSUME ~ResetMidFlight, IdleTags \subseteq {0}
  PROVE  Spec => []OutstandingIsBusy
  BY TypeCorrect, ReadInvariant, ReadInvImplies, PTL

(* Counted words and words due always add up to the size of the request.   *)
THEOREM CountsCorrect ==
  ASSUME ~ResetMidFlight, IdleTags \subseteq {0}
  PROVE  Spec => []WordsConserved
  BY TypeCorrect, ReadInvariant, ReadInvImplies, PTL

(* No more requests are in flight than the window allows.                  *)
THEOREM WindowCorrect ==
  ASSUME ~ResetMidFlight, IdleTags \subseteq {0}
  PROVE  Spec => []WindowRespected
  BY TypeCorrect, ReadInvariant, ReadInvImplies, PTL

(* A read operation ends only when every completion has arrived.           *)
THEOREM EndOfReadCorrect ==
  ASSUME ~ResetMidFlight, IdleTags \subseteq {0}
  PROVE  Spec => []EndOfReadMeansAllReceived
  BY TypeCorrect, ReadInvariant, ReadInvImplies, PTL

-----------------------------------------------------------------------------
(***************************************************************************)
(* The measured time covers the wait for every requested word.  The        *)
(* counter of the whole operation starts with the first request and stops  *)
(* at the end, which ReadInv places behind the last word.  The counter of  *)
(* the completions runs during the first pass and while a latency tag is   *)
(* set; only tag 0 ever is.                                                *)
(***************************************************************************)

FirstPass == mem_rd_current_tlp_r = mem_rd_current_tlp_modulus_r

(* The clock of the operation stands still only when nothing is missing;   *)
(* the bounds of the operation are those of the ports.                     *)
ClockInv ==
  /\ stop_latency => \A j \in Tags : ~Outstanding(j)
  /\ ports.ENGINE_VALID => boundaries = BoundariesOf(ports)
  /\ mem_rd_current_tlp_r >= 1

(* The latency tag and the busy bit of tag 0 go together in the first pass.*)
LatencyTagInv ==
  /\ latency_tags_r \subseteq {0}
  /\ 0 \in latency_tags_r => 0 \in current_tags_r
  /\ wr_state = "IDLE" \/ ~ports.s2c => 0 \notin current_tags_r
  /\ wr_state # "IDLE" /\ FirstPass /\ 0 \in current_tags_r => 0 \in latency_tags_r

(* An operation of one request uses tag 0; a longer one that stops before  *)
(* the end of its first pass never leaves it.                              *)
PassInv ==
  /\ ports.TLPS <= 1 /\ wr_state \in {"INIT_WRITE", "WRITE", "INIT_READ"} =>
       FirstPass /\ 0 \notin current_tags_r /\ \A j \in Tags : ~Outstanding(j)
  /\ ports.TLPS <= 1 /\ wr_state = "WAIT_READ" =>
       \A j \in Tags : Outstanding(j) => j = 0 /\ 0 \in latency_tags_r
  /\ ports.TLPS > 1 /\ ports.TLPS < boundaries.rd_even /\ wr_state # "IDLE" =>
       FirstPass /\ (wr_state = "WAIT_READ" \/ mem_rd_current_tlp_r <= ports.TLPS)

MeasureInv == ClockInv /\ LatencyTagInv /\ PassInv

-----------------------------------------------------------------------------
(* What a clock edge does to the counters of read requests: an operation   *)
(* starts with both at 1, and one request moves both.                      *)
Starting ==
  /\ wr_state = "IDLE" /\ wr_state' # "WAIT_READ"
  /\ wr_state' # "IDLE" => mem_rd_current_tlp_r' = 1 /\ mem_rd_current_tlp_modulus_r' = 1
  /\ mem_rd_current_tlp_r' \in {1, mem_rd_current_tlp_r}

Waiting ==
  /\ wr_state # "IDLE"
  /\ mem_rd_current_tlp_r' = mem_rd_current_tlp_r
  /\ mem_rd_current_tlp_modulus_r' = mem_rd_current_tlp_modulus_r
  /\ wr_state = "WAIT_READ" => wr_state' \in {"WAIT_READ", "IDLE"}
  /\ wr_state' = "WAIT_READ" => wr_state = "WAIT_READ"

Asking ==
  /\ wr_state = "INIT_READ"
  /\ mem_rd_current_tlp_r' = mem_rd_current_tlp_r + 1
  /\ mem_rd_current_tlp_modulus_r' =
       IF LastRdOfPass THEN 1 ELSE mem_rd_current_tlp_modulus_r + 1
  /\ IF boundaries.total <= mem_rd_current_tlp_r
     THEN wr_state' = "WAIT_READ" ELSE wr_state' \in {"INIT_READ", "INIT_WRITE"}

(* Every edge is one of the three, and only a request takes a tag.         *)
LEMMA CounterMoves ==
  ASSUME TypeOK, FsmInv, NEW tready \in BOOLEAN, NEW push, NEW keep,
         RqEdge(tready, completed_tags_r, ports, push, keep)
  PROVE  \/ Starting /\ AllocatedTags(tready, ports) = {}
         \/ Waiting /\ AllocatedTags(tready, ports) = {}
         \/ Asking /\ tready
<1>1. ASSUME wr_state # "INIT_READ" PROVE AllocatedTags(tready, ports) = {}
  BY <1>1, Zenon DEF AllocatedTags
<1>2. CASE \/ StartWrite(tready, ports, push) \/ StartRead(tready, ports, push)
           \/ StayIdle(tready, ports, push)
  <2>1. Starting
    BY <1>2, Zenon DEF StartWrite, StartRead, StayIdle, IdleEdge, StartCondition, Starting
  <2> QED BY <1>1, <2>1, Zenon DEF Starting
<1>3. CASE WriteWaits(tready, push) \/ WriteData(tready, ports, push) \/ WaitRead(tready, push)
  <2>1. Waiting /\ wr_state # "INIT_READ"
    BY <1>3, Zenon DEF WriteWaits, WriteData, WaitRead, rdTlpVars, Waiting
  <2> QED BY <1>1, <2>1, Zenon
<1>4. FinishWriteTlp(ports) => wr_state' \in {"INIT_WRITE", "INIT_READ", "IDLE"}
  BY Zenon DEF FinishWriteTlp, AfterWriteTlp
<1>5. CASE WriteHeader(tready, ports, push) \/ WriteLastData(tready, ports, push)
  <2>1. Waiting /\ wr_state # "INIT_READ"
    BY <1>4, <1>5, Zenon DEF WriteHeader, WriteLastData, rdTlpVars, Waiting
  <2> QED BY <1>1, <2>1, Zenon
<1>6. CASE ReadWaits(tready, push)
  <2>1. Waiting BY <1>6, Zenon DEF ReadWaits, rdTlpVars, Waiting
  <2>2. window_size_mask_r = ports.WINDOW BY <1>6, Zenon DEF ReadWaits, FsmInv
  <2>3. AllocatedTags(tready, ports) = {}
    BY <1>6, <2>2, Zenon DEF ReadWaits, TagAvailable, InMask, AllocatedTags
  <2> QED BY <2>1, <2>3, Zenon
<1>7. CASE ReadRequest(tready, ports, push)
  BY <1>7, ZenonT(30) DEF ReadRequest, Asking
<1> QED BY <1>2, <1>3, <1>5, <1>6, <1>7, Zenon DEF RqEdge

(* Only the edge that takes a tag makes it outstanding.                    *)
LEMMA OutstandingStep ==
  ASSUME TypeOK, ReadInv, NEW tready \in BOOLEAN, NEW beat \in Beats,
         NEW push \in Pushes, ClockEdge(tready, beat, push),
         NEW j \in Tags, Outstanding(j)', ~Outstanding(j)
  PROVE  j \in AllocatedTags(tready, ports)
<1>1. FsmInv /\ StreamInv /\ TagInv(j) BY Zenon DEF ReadInv
<1>2. due'[j] = 0 /\ ~Arriving(j)' BY <1>1, QuietTagStep, ZenonT(30)
<1>3. Pending(j)' /\ ~Pending(j) BY <1>2, Dues, Zenon DEF Outstanding
<1> QED BY <1>1, <1>3, IssueStep, Zenon DEF ClockEdge

(* The busy and the latency bit of tag 0.                                  *)
LEMMA BitsOfTagZero ==
  ASSUME TypeOK, LatencyTagInv, NEW tready \in BOOLEAN, NEW beat \in Beats,
         NEW push \in Pushes, ClockEdge(tready, beat, push)
  PROVE  /\ 0 \in current_tags_r' <=> \/ 0 \in current_tags_r /\ 0 \notin completed_tags_r
                                     \/ 0 \in AllocatedTags(tready, ports)
         /\ 0 \in latency_tags_r' <=>
              \/ 0 \in latency_tags_r /\ 0 \notin completed_tags_r
              \/ /\ wr_state = "INIT_READ" /\ tready /\ 0 < ports.WINDOW
                 /\ FirstPass /\ 0 \notin latency_tags_r
         /\ 0 \in AllocatedTags(tready, ports) <=>
              wr_state = "INIT_READ" /\ tready /\ 0 < ports.WINDOW /\ 0 \notin current_tags_r
         /\ latency_tags_r' \subseteq {0}
<1>1. 0 \in Tags /\ Tags \subseteq Nat BY ZeroTag DEF Tags
<1>2. /\ current_tags_r' = (current_tags_r \ completed_tags_r)
                             \cup AllocatedTags(tready, ports)
                             \cup {j \in Tags \ {0} : j >= ports.WINDOW}
      /\ LatencyTagsEdge(tready, completed_tags_r, ports)
  BY Zenon DEF ClockEdge, RqEdge, FreeRunning, TagsEdge
<1>3. 0 \in AllocatedTags(tready, ports) <=>
        wr_state = "INIT_READ" /\ tready /\ 0 < ports.WINDOW /\ 0 \notin current_tags_r
  BY <1>1 DEF AllocatedTags
<1>4. ASSUME NEW j \in Nat, j >= 32, 0 .. j - 1 \subseteq latency_tags_r PROVE FALSE
  <2>1. 1 \in 0 .. j - 1 BY <1>4
  <2> QED BY <1>4, <2>1 DEF LatencyTagInv
<1>5. latency_tags_r' \subseteq {0}
  BY <1>1, <1>2, <1>4, ZenonT(30) DEF LatencyTagsEdge, LatencyTagInv
<1>6. 0 \in latency_tags_r' <=>
        \/ 0 \in latency_tags_r /\ 0 \notin completed_tags_r
        \/ /\ wr_state = "INIT_READ" /\ tready /\ 0 < ports.WINDOW
           /\ FirstPass /\ 0 \notin latency_tags_r
  BY <1>1, <1>2, Zenon DEF LatencyTagsEdge, FirstPass
<1> QED BY <1>1, <1>2, <1>3, <1>5, <1>6, Zenon

-----------------------------------------------------------------------------
(* The clock of the operation is started by the edge that takes the first  *)
(* tag and stopped by an end of operation, where nothing is missing.       *)
LEMMA ClockStep ==
  ASSUME TypeOK, ReadInv, ClockInv, NEW tready \in BOOLEAN, NEW beat \in Beats,
         NEW push \in Pushes, ClockEdge(tready, beat, push)
  PROVE  ClockInv'
<1>1. FsmInv BY Zenon DEF ReadInv
<1>2. ASSUME stop_latency', NEW j \in Tags, Outstanding(j)' PROVE FALSE
  <2>1. LatencyEdge(tready, ports, beat.keep) BY Zenon DEF ClockEdge, RqEdge, FreeRunning
  <2>2. CASE Outstanding(j)
    <3>1. /\ j \in current_tags_r /\ wr_state # "IDLE"
          /\ j < ports.WINDOW /\ window_size_mask_r = ports.WINDOW
      BY <2>2, Zenon DEF ReadInv, TagInv, FsmInv
    <3>2. ~end_of_operation
      BY <3>1, Zenon DEF end_of_operation, EndOfRead, EndOfWrite, InMask
    <3>3. stop_latency BY <1>2, <2>1, <3>2, ZenonT(30) DEF LatencyEdge
    <3> QED BY <2>2, <3>3, Zenon DEF ClockInv
  <2>3. CASE ~Outstanding(j)
    <3>1. wr_state = "INIT_READ" /\ tready
      BY <1>2, <2>3, OutstandingStep, Zenon DEF AllocatedTags
    <3>2. ports.s2c BY <1>1, <3>1, Zenon DEF FsmInv
    <3> QED BY <1>2, <2>1, <3>1, <3>2, ZenonT(30) DEF LatencyEdge
  <2> QED BY <2>2, <2>3, Zenon
<1>3. ports'.ENGINE_VALID => boundaries' = BoundariesOf(ports')
  BY <1>1, OperationHeld, Zenon
<1>4. mem_rd_current_tlp_r' >= 1
  <2>1. mem_rd_current_tlp_r \in Nat BY Zenon DEF TypeOK, RqTypeOK
  <2>2. Starting \/ Waiting \/ Asking BY <1>1, CounterMoves, Zenon DEF ClockEdge
  <2> QED BY <2>1, <2>2 DEF Starting, Waiting, Asking, ClockInv
<1> QED BY <1>2, <1>3, <1>4, Zenon DEF ClockInv

(* A first pass that goes on was one before.                               *)
LEMMA FirstPassBefore ==
  ASSUME TypeOK, ClockInv, Waiting \/ Asking, FirstPass'
  PROVE  FirstPass
<1>1. mem_rd_current_tlp_r \in Nat /\ mem_rd_current_tlp_modulus_r \in Nat
  BY Zenon DEF TypeOK, RqTypeOK
<1> QED BY <1>1 DEF Waiting, Asking, FirstPass, ClockInv

(* Busy and latency bit of tag 0 are set and cleared by the same edges.    *)
LEMMA LatencyTagStep ==
  ASSUME TypeOK, ReadInv, ClockInv, LatencyTagInv, NEW tready \in BOOLEAN,
         NEW beat \in Beats, NEW push \in Pushes, ClockEdge(tready, beat, push)
  PROVE  LatencyTagInv'
<1>1. FsmInv /\ 0 \in Tags BY ZeroTag, Zenon DEF ReadInv
<1>2. \/ Starting /\ AllocatedTags(tready, ports) = {}
      \/ Waiting /\ AllocatedTags(tready, ports) = {}
      \/ Asking /\ tready
  BY <1>1, CounterMoves, Zenon DEF ClockEdge
<1>3. ASSUME 0 \in latency_tags_r' PROVE 0 \in current_tags_r'
  BY <1>3, BitsOfTagZero, Zenon DEF LatencyTagInv
<1>4. ASSUME 0 \in current_tags_r' PROVE wr_state' # "IDLE" /\ ports'.s2c
  <2>1. wr_state # "IDLE" /\ ports.s2c
    BY <1>1, <1>4, BitsOfTagZero, Zenon DEF LatencyTagInv, FsmInv
  <2>2. ports'.s2c BY <1>1, <2>1, OperationHeld, ZenonT(30)
  <2>3. CASE 0 \in current_tags_r
    <3>1. 0 < window_size_mask_r
      BY <1>1, <2>1 DEF FsmInv
    <3>2. ~EndOfRead BY <1>1, <2>3, <3>1, Zenon DEF EndOfRead, InMask
    <3> QED BY <2>1, <2>2, <3>2, FsmMoves, Zenon DEF ClockEdge
  <2>4. CASE 0 \notin current_tags_r
    <3>1. wr_state = "INIT_READ" BY <1>4, <2>4, BitsOfTagZero, Zenon
    <3>2. ~EndOfRead BY <3>1, Zenon DEF EndOfRead
    <3> QED BY <2>1, <2>2, <3>2, FsmMoves, Zenon DEF ClockEdge
  <2> QED BY <2>3, <2>4, Zenon
<1>5. ASSUME wr_state' # "IDLE", FirstPass', 0 \in current_tags_r'
      PROVE  0 \in latency_tags_r'
  <2>1. wr_state # "IDLE"
    BY <1>1, <1>5, BitsOfTagZero, Zenon DEF LatencyTagInv
  <2>2. FirstPass
    BY <1>2, <1>5, <2>1, FirstPassBefore, Zenon DEF Starting
  <2> QED BY <1>5, <2>1, <2>2, BitsOfTagZero, Zenon DEF LatencyTagInv
<1> QED BY <1>3, <1>4, <1>5, BitsOfTagZero, Zenon DEF LatencyTagInv

(* The first pass of short operations, and the tag of the shortest.        *)
LEMMA PassStep ==
  ASSUME TypeOK, ReadInv, MeasureInv, NEW tready \in BOOLEAN, NEW beat \in Beats,
         NEW push \in Pushes, ClockEdge(tready, beat, push)
  PROVE  PassInv'
<1>1. FsmInv /\ 0 \in Tags /\ Tags \subseteq Nat /\ ClockInv /\ LatencyTagInv /\ PassInv
  BY ZeroTag DEF ReadInv, MeasureInv, Tags
<1>2. \/ Starting /\ AllocatedTags(tready, ports) = {}
      \/ Waiting /\ AllocatedTags(tready, ports) = {}
      \/ Asking /\ tready
  BY <1>1, CounterMoves, Zenon DEF ClockEdge
<1>3. SUFFICES ASSUME wr_state' # "IDLE" PROVE PassInv'
  BY Zenon DEF PassInv
<1>4. /\ ports'.TLPS = ports.TLPS /\ boundaries' = boundaries
      /\ boundaries.total = ports.TLPS /\ ports.TLPS \in Nat
      /\ mem_rd_current_tlp_r \in Nat /\ mem_rd_current_tlp_modulus_r \in Nat
      /\ mem_rd_current_tlp_r >= 1
  <2>1. ports'.TLPS = ports.TLPS /\ boundaries' = boundaries
    BY <1>1, <1>3, OperationHeld, ZenonT(30) DEF ClockInv
  <2>2. boundaries.total = ports.TLPS /\ mem_rd_current_tlp_r >= 1
    BY <1>1, <1>3, OperationHeld DEF ClockInv, BoundariesOf
  <2>3. /\ ports.TLPS \in Nat
        /\ mem_rd_current_tlp_r \in Nat /\ mem_rd_current_tlp_modulus_r \in Nat
    BY Zenon DEF TypeOK, EnvTypeOK, RqTypeOK, Ports
  <2> QED BY <2>1, <2>2, <2>3, Zenon
<1>5. ASSUME NEW j \in Tags, Outstanding(j)'
      PROVE  Outstanding(j) \/ j \in AllocatedTags(tready, ports)
  BY <1>5, OutstandingStep, Zenon
<1>6. CASE Starting /\ AllocatedTags(tready, ports) = {}
  <2>1. \A j \in Tags : ~Outstanding(j)'
    BY <1>5, <1>6, Zenon DEF Starting, ReadInv, TagInv
  <2>2. 0 \notin current_tags_r'
    BY <1>1, <1>6, BitsOfTagZero, Zenon DEF Starting, LatencyTagInv
  <2>3. FirstPass' /\ mem_rd_current_tlp_r' = 1 /\ wr_state' # "WAIT_READ"
    BY <1>3, <1>6, Zenon DEF Starting, FirstPass
  <2> QED BY <1>4, <2>1, <2>2, <2>3 DEF PassInv
<1>7. CASE Waiting /\ AllocatedTags(tready, ports) = {}
  <2>1. \A j \in Tags : Outstanding(j)' => Outstanding(j) BY <1>5, <1>7, Zenon
  <2>2. 0 \in current_tags_r' => 0 \in current_tags_r BY <1>1, <1>7, BitsOfTagZero, Zenon
  <2>3. \A j \in Tags : Outstanding(j) => j \notin completed_tags_r
    BY Zenon DEF ReadInv, TagInv
  <2>4. 0 \in latency_tags_r /\ 0 \notin completed_tags_r => 0 \in latency_tags_r'
    BY <1>1, BitsOfTagZero, Zenon
  <2>5. FirstPass' <=> FirstPass BY <1>7, Zenon DEF Waiting, FirstPass
  <2>6. wr_state \in RqStates /\ wr_state # "IDLE" BY <1>7, Zenon DEF TypeOK, RqTypeOK,
     Waiting
  <2>7. ports.TLPS <= 1 /\ wr_state' = "WAIT_READ" =>
          \A j \in Tags : Outstanding(j)' => j = 0 /\ 0 \in latency_tags_r'
    BY <1>1, <1>7, <2>1, <2>3, <2>4, Zenon DEF PassInv, Waiting
  <2>8. ports.TLPS <= 1 /\ wr_state' \in {"INIT_WRITE", "WRITE", "INIT_READ"} =>
          FirstPass' /\ 0 \notin current_tags_r' /\ \A j \in Tags : ~Outstanding(j)'
    BY <1>1, <1>7, <2>1, <2>2, <2>5, <2>6, Zenon DEF PassInv, Waiting, RqStates
  <2>9. ports.TLPS > 1 /\ ports.TLPS < boundaries.rd_even =>
          FirstPass' /\ (wr_state' = "WAIT_READ" \/ mem_rd_current_tlp_r' <= ports.TLPS)
    BY <1>1, <1>3, <1>7, <2>5, <2>6, Zenon DEF PassInv, Waiting
  <2> QED BY <1>4, <2>6, <2>7, <2>8, <2>9, Zenon DEF PassInv
<1>8. CASE Asking /\ tready
  <2>1. ASSUME ports.TLPS <= 1 PROVE wr_state' = "WAIT_READ"
    BY <1>4, <1>8, <2>1 DEF Asking
  <2>2. ASSUME ports.TLPS <= 1, NEW j \in Tags, Outstanding(j)'
        PROVE  j = 0 /\ 0 \in latency_tags_r'
    <3>1. FirstPass /\ 0 \notin current_tags_r /\ ~Outstanding(j)
      BY <1>1, <1>8, <2>2, Zenon DEF PassInv, Asking
    <3>2. j \in AllocatedTags(tready, ports) BY <1>5, <2>2, <3>1, Zenon
    <3>3. j = 0 BY <1>1, <3>1, <3>2 DEF AllocatedTags
    <3> QED BY <1>1, <3>1, <3>2, <3>3, BitsOfTagZero, Zenon DEF LatencyTagInv
  <2>3. ASSUME ports.TLPS > 1, ports.TLPS < boundaries.rd_even
        PROVE  FirstPass' /\ (wr_state' = "WAIT_READ" \/ mem_rd_current_tlp_r' <= ports.TLPS)
    <3>1. FirstPass /\ mem_rd_current_tlp_r <= ports.TLPS
      BY <1>1, <1>8, <2>3, Zenon DEF PassInv, Asking
    <3>2. ~LastRdOfPass
      BY <1>4, <2>3, <3>1 DEF FirstPass, LastRdOfPass
    <3> QED BY <1>4, <1>8, <3>1, <3>2 DEF FirstPass, Asking
  <2>4. wr_state # "IDLE" BY <1>8, Zenon DEF Asking
  <2> QED BY <1>4, <2>1, <2>2, <2>3, <2>4, Zenon DEF PassInv
<1> QED BY <1>2, <1>6, <1>7, <1>8, Zenon

(* Reset leaves nothing running and nothing outstanding.                   *)
LEMMA InitMeasure == Init => MeasureInv
<1> SUFFICES ASSUME Init PROVE MeasureInv BY Zenon
<1>1. \A j \in Tags : ~Outstanding(j)
  BY DEF Init, RqInit, NoBeat, Outstanding, Pending, Arriving
<1>2. ClockInv BY <1>1 DEF Init, RqInit, ResetPorts, ClockInv
<1>3. LatencyTagInv BY Zenon DEF Init, RqInit, LatencyTagInv
<1>4. PassInv BY Zenon DEF Init, RqInit, PassInv
<1> QED BY <1>2, <1>3, <1>4, Zenon DEF MeasureInv

(* Every step preserves the invariant.                                     *)
LEMMA NextMeasure ==
  ASSUME ~ResetMidFlight
  PROVE  TypeOK /\ ReadInv /\ MeasureInv /\ [Next]_vars => MeasureInv'
<1> SUFFICES ASSUME TypeOK, ReadInv, MeasureInv, [Next]_vars PROVE MeasureInv'
  BY Zenon
<1>1. ASSUME NEW tready \in BOOLEAN, NEW beat \in Beats, NEW push \in Pushes,
             ClockEdge(tready, beat, push)
      PROVE  MeasureInv'
  <2>1. ClockInv' BY <1>1, ClockStep, Zenon DEF MeasureInv
  <2>2. LatencyTagInv' BY <1>1, LatencyTagStep, Zenon DEF MeasureInv
  <2>3. PassInv' BY <1>1, PassStep, Zenon
  <2> QED BY <2>1, <2>2, <2>3, Zenon DEF MeasureInv
<1>2. CASE UserReset
  <2>1. rcTlp' = rcTlp /\ due' = due /\ rcTlp.left = 0 /\ \A k \in Tags : due[k] = 0
    BY <1>2, Zenon DEF UserReset, Quiescent
  <2>2. \A j \in Tags : ~Outstanding(j)'
    BY <1>2, <2>1 DEF UserReset, RqReset, NoBeat, Outstanding, Pending, Arriving
  <2>3. ClockInv' BY <1>2, <2>2 DEF UserReset, RqReset, ResetPorts, ClockInv
  <2>4. LatencyTagInv' BY <1>2, Zenon DEF UserReset, RqReset, LatencyTagInv
  <2>5. PassInv' BY <1>2, Zenon DEF UserReset, RqReset, PassInv
  <2> QED BY <2>3, <2>4, <2>5, Zenon DEF MeasureInv
<1>3. CASE UNCHANGED vars
  BY <1>3, ZenonT(30) DEF vars, rqVars, rcVars, envVars, MeasureInv, ClockInv,
              LatencyTagInv, PassInv, FirstPass, BoundariesOf, ReadMax, Outstanding,
                 Pending, Arriving
<1> QED BY <1>1, <1>2, <1>3, Zenon DEF Next

(* The counters of dma_rq_logic run whenever a requested word is missing:  *)
(* current_latency_r always, time_comp_r in operations of one request and  *)
(* in those that stop before the end of their first pass.                  *)
THEOREM MeasurementCorrect ==
  ASSUME ~ResetMidFlight, IdleTags \subseteq {0}
  PROVE  Spec => []WaitIsMeasured
<1>1. TypeOK /\ ReadInv /\ MeasureInv => WaitIsMeasured
  <2> SUFFICES ASSUME TypeOK, ReadInv, MeasureInv, NEW j \in Tags, Outstanding(j)
               PROVE  /\ ~stop_latency
                      /\ ports.TLPS <= 1 \/ ports.TLPS < boundaries.rd_even =>
                           time_comp_counts(ports)
    BY Zenon DEF WaitIsMeasured, current_latency_counts
  <2>1. ~stop_latency BY DEF MeasureInv, ClockInv
  <2>2. wr_state \in RqStates \ {"IDLE"} /\ ports.s2c /\ ports.TLPS \in Nat
    BY Zenon DEF TypeOK, RqTypeOK, EnvTypeOK, Ports, ReadInv, TagInv
  <2>3. ASSUME ports.TLPS <= 1 \/ ports.TLPS < boundaries.rd_even
        PROVE  FirstPass \/ 0 \in latency_tags_r
    BY <2>2, <2>3 DEF MeasureInv, PassInv, RqStates
  <2> QED BY <2>1, <2>2, <2>3, Zenon DEF time_comp_counts, FirstPass
<1> QED
  BY <1>1, InitTypes, NextTypes, InitRead, NextRead, InitMeasure, NextMeasure, PTL DEF Spec

-----------------------------------------------------------------------------
(***************************************************************************)
(* The published statistics of a read operation.  The words that the host  *)
(* still owes are a sum over the tags; they are counted as the elements of *)
(* a set of pairs, a tag and one of its words.                             *)
(***************************************************************************)
INSTANCE FiniteSetTheorems

OwedWords(d) == UNION {{j} \X (1 .. d[j]) : j \in Tags}

(* The words asked for by the request that waits in the RQ registers.      *)
WaitingRequest == IF axis_rq.tvalid /\ axis_rq.kind = "rd" THEN axis_rq.words ELSE 0

(* What has been counted, the rest of the completion TLP under way, what   *)
(* is owed and what waits are what has been asked for, with the headers of *)
(* the answers; nothing has been answered before the first request, and no *)
(* beat waits when a read operation ends.                                  *)
AnswersInv ==
  /\ IsFiniteSet(OwedWords(due))
  /\ ~stop_latency \/ update_latency_r =>
       bytes_comp_r + rcTlp.left + Cardinality(OwedWords(due)) + WaitingRequest
         = issued.rd + 3 * issued.answers
  /\ stop_latency /\ ~update_latency_r => issued.answers = 0
  /\ wr_state = "WAIT_READ" /\ axis_rq.tvalid => axis_rq.kind = "rd"
  /\ EndOfWrite => ports.c2s
  /\ update_latency_r /\ ~ports.c2s => ~axis_rq.tvalid

(* The words of tag j from the one behind the first a on.                  *)
WordsOf(j, a, n) == {j} \X (a + 1 .. a + n)

(* They are n.                                                             *)
LEMMA Share ==
  ASSUME NEW j, NEW a \in Nat, NEW n \in Nat
  PROVE  IsFiniteSet(WordsOf(j, a, n)) /\ Cardinality(WordsOf(j, a, n)) = n
<1>1. IsFiniteSet({j}) /\ Cardinality({j}) = 1
  BY FS_Singleton, Zenon
<1>2. IsFiniteSet(a + 1 .. a + n) /\ Cardinality(a + 1 .. a + n) = n
  <2>1. /\ a + 1 \in Int /\ a + n \in Int /\ (a + 1 > a + n => n = 0)
        /\ (a + n) - (a + 1) + 1 = n
    OBVIOUS
  <2>2. /\ IsFiniteSet(a + 1 .. a + n)
        /\ Cardinality(a + 1 .. a + n) =
             IF a + 1 > a + n THEN 0 ELSE (a + n) - (a + 1) + 1
    BY <2>1, FS_Interval, Zenon
  <2> QED BY <2>1, <2>2, Zenon
<1>3. /\ IsFiniteSet({j} \X (a + 1 .. a + n))
      /\ Cardinality({j} \X (a + 1 .. a + n))
           = Cardinality({j}) * Cardinality(a + 1 .. a + n)
  BY <1>1, <1>2, FS_Product, Zenon
<1>4. 1 * n = n OBVIOUS
<1> QED BY <1>1, <1>2, <1>3, <1>4, Zenon DEF WordsOf

(* Tag i is owed n words more.                                             *)
Raised(d, i, n) == [d EXCEPT ![i] = d[i] + n]

(* Then n words more are owed in all.                                      *)
LEMMA OwedMore ==
  ASSUME NEW d \in [Tags -> Nat], NEW i \in Tags, NEW n \in Nat,
         IsFiniteSet(OwedWords(d)) \/ IsFiniteSet(OwedWords(Raised(d, i, n)))
  PROVE  /\ IsFiniteSet(OwedWords(d)) /\ IsFiniteSet(OwedWords(Raised(d, i, n)))
         /\ Cardinality(OwedWords(d)) \in Nat
         /\ Cardinality(OwedWords(Raised(d, i, n))) = Cardinality(OwedWords(d)) + n
<1> DEFINE e == Raised(d, i, n)
           D == OwedWords(d)
           E == OwedWords(e)
           T == WordsOf(i, d[i], n)
<1>1. IsFiniteSet(T) /\ Cardinality(T) = n
  <2>1. d[i] \in Nat BY Zenon
  <2> QED BY <2>1, Share, Zenon
<1>2. /\ e[i] = d[i] + n /\ \A k \in Tags \ {i} : e[k] = d[k]
      /\ 1 .. e[i] = (1 .. d[i]) \cup (d[i] + 1 .. d[i] + n)
      /\ (1 .. d[i]) \cap (d[i] + 1 .. d[i] + n) = {}
  <2>1. \A k \in Tags : d[k] \in Nat BY Zenon
  <2>2. e[i] = d[i] + n /\ \A k \in Tags \ {i} : e[k] = d[k] BY Zenon DEF Raised
  <2>3. \A a \in Nat : /\ 1 .. a + n = (1 .. a) \cup (a + 1 .. a + n)
                       /\ (1 .. a) \cap (a + 1 .. a + n) = {}
    OBVIOUS
  <2> QED BY <2>1, <2>2, <2>3, Zenon
<1>3. \A x : /\ x \in D <=> \E k \in Tags : x \in {k} \X (1 .. d[k])
             /\ x \in E <=> \E k \in Tags : x \in {k} \X (1 .. e[k])
  BY Zenon DEF OwedWords
<1>4. {i} \X (1 .. e[i]) = ({i} \X (1 .. d[i])) \cup T
  BY <1>2, Zenon DEF WordsOf
<1>5. E = D \cup T
  <2> HIDE DEF D, E, T
  <2>1. ASSUME NEW x PROVE x \in E <=> x \in D \/ x \in T
    BY <1>2, <1>3, <1>4, Zenon
  <2> QED BY <2>1, Zenon
<1>6. D \cap T = {}
  <2>1. ASSUME NEW k \in Tags, NEW x \in {k} \X (1 .. d[k]), x \in T PROVE FALSE
    <3>1. x[1] = k /\ x[1] = i /\ x[2] \in 1 .. d[k] /\ x[2] \in d[i] + 1 .. d[i] + n
      BY <2>1, Zenon DEF WordsOf
    <3> QED BY <1>2, <3>1, Zenon
  <2> HIDE DEF D, T
  <2> QED BY <1>3, <2>1, Zenon
<1> HIDE DEF D, E, T
<1>7. IsFiniteSet(D)
  BY <1>5, FS_Subset, Zenon DEF D, E
<1>8. /\ IsFiniteSet(D \cup T)
      /\ Cardinality(D \cup T) = Cardinality(D) + Cardinality(T) - Cardinality(D \cap T)
  BY <1>1, <1>7, FS_Union, Zenon
<1>9. Cardinality({}) = 0 /\ Cardinality(D) \in Nat
  BY <1>7, FS_EmptySet, FS_CardinalityType, Zenon
<1>10. Cardinality(E) = Cardinality(D) + n
  <2>1. Cardinality(E) = Cardinality(D) + n - 0
    BY <1>1, <1>5, <1>6, <1>8, <1>9, Zenon
  <2>2. \A c \in Nat : c + n - 0 = c + n OBVIOUS
  <2> QED BY <1>9, <2>1, <2>2, Zenon
<1> QED BY <1>5, <1>7, <1>8, <1>9, <1>10, Zenon DEF D, E

(* Nothing is owed exactly when no tag is owed a word.                     *)
LEMMA OwedNone ==
  ASSUME NEW d \in [Tags -> Nat], \A j \in Tags : d[j] = 0
  PROVE  IsFiniteSet(OwedWords(d)) /\ Cardinality(OwedWords(d)) = 0
<1>1. 1 .. 0 = {} OBVIOUS
<1>2. OwedWords(d) = {} BY <1>1, Zenon DEF OwedWords
<1> QED BY <1>2, FS_EmptySet, Zenon

(* The words that a beat of RC carries: three of header and the payload.   *)
LEMMA BeatKeep ==
  ASSUME TypeOK, NEW beat \in Beats
  PROVE  /\ ~beat.tvalid => beat.keep = 0
         /\ beat.tvalid /\ rcTlp.left > 0 => beat.keep = MinOf(rcTlp.left, 8)
         /\ beat.tvalid /\ rcTlp.left = 0 => beat.keep = 3 + MinOf(beat.dwords, 5)
<1>0. rcTlp.left \in Nat BY Zenon DEF TypeOK, EnvTypeOK
<1>1. CASE beat \in IdleBeats BY <1>1, Zenon DEF IdleBeats
<1>2. CASE rcTlp.left > 0 /\ beat \in NextBeats
  <2>1. rcTlp.left # 0 BY <1>0, <1>2
  <2> QED BY <1>2, <2>1, Zenon DEF NextBeats
<1>3. CASE ~(rcTlp.left > 0) /\ beat \in FirstBeats
  <2>1. PICK j, n : beat = FirstBeat(j, n) BY <1>3, Zenon DEF FirstBeats
  <2> QED BY <1>3, <2>1, Zenon DEF FirstBeat
<1> QED BY <1>1, <1>2, <1>3, Zenon DEF Beats

(* What the first beat of a completion takes from the words owed.          *)
Taken(beat) == IF beat.tvalid /\ rcTlp.left = 0 THEN beat.dwords ELSE 0

Answer(beat) == IF beat.tvalid /\ rcTlp.left = 0 THEN 1 ELSE 0

(* A beat counts what it takes from the TLP under way, or from the words   *)
(* owed, and three words for a new completion.                             *)
LEMMA ReceivedStep ==
  ASSUME TypeOK, NEW beat \in Beats, RcStreamEdge(beat)
  PROVE  /\ Taken(beat) \in Nat /\ Answer(beat) \in Nat /\ beat.keep \in Nat
         /\ rcTlp'.left \in Nat
         /\ beat.keep + rcTlp'.left = rcTlp.left + Taken(beat) + 3 * Answer(beat)
<1>1. rcTlp \in [tag : Tags, left : Nat] BY Zenon DEF TypeOK, EnvTypeOK
<1>2. rcTlp.left \in Nat BY <1>1, Zenon
<1>3. /\ beat.tvalid \in BOOLEAN /\ beat.dwords \in Nat /\ beat.keep \in Nat
      /\ beat.tvalid /\ rcTlp.left > 0 => beat.tlast = (rcTlp.left <= 8)
      /\ beat.tvalid /\ rcTlp.left = 0 => beat.tlast = (beat.dwords <= 5)
  BY BeatFacts, Zenon
<1>4. rcTlp'.left = IF ~beat.tvalid THEN rcTlp.left
                    ELSE IF rcTlp.left > 0
                         THEN IF beat.tlast THEN 0 ELSE rcTlp.left - 8
                         ELSE IF beat.tlast THEN 0 ELSE beat.dwords - 5
  BY <1>1 DEF RcStreamEdge
<1>5. CASE ~beat.tvalid BY <1>2, <1>3, <1>4, <1>5, BeatKeep DEF Taken, Answer
<1>6. CASE beat.tvalid /\ rcTlp.left > 0
  <2>1. rcTlp.left # 0 BY <1>2, <1>6
  <2>2. /\ Taken(beat) = 0 /\ Answer(beat) = 0 /\ beat.keep = MinOf(rcTlp.left, 8)
        /\ rcTlp'.left = IF rcTlp.left <= 8 THEN 0 ELSE rcTlp.left - 8
    BY <1>3, <1>4, <1>6, <2>1, BeatKeep, Zenon DEF Taken, Answer
  <2> QED BY <1>2, <1>3, <2>2 DEF MinOf
<1>7. CASE beat.tvalid /\ rcTlp.left = 0
  <2>1. ~(0 > 0) OBVIOUS
  <2>2. /\ Taken(beat) = beat.dwords /\ Answer(beat) = 1
        /\ beat.keep = 3 + MinOf(beat.dwords, 5)
        /\ rcTlp'.left = IF beat.dwords <= 5 THEN 0 ELSE beat.dwords - 5
    BY <1>3, <1>4, <1>7, <2>1, BeatKeep, Zenon DEF Taken, Answer
  <2> QED BY <1>3, <1>7, <2>2 DEF MinOf
<1> QED BY <1>2, <1>3, <1>5, <1>6, <1>7

(* The words of a request that RQ takes.                                   *)
Accepted(tready) == IF tready THEN WaitingRequest ELSE 0

(* They are owed from then on; a completion takes from what is owed to its *)
(* tag.                                                                    *)
LEMMA OwedStep ==
  ASSUME TypeOK, TypeOK', IsFiniteSet(OwedWords(due)), NEW tready \in BOOLEAN,
         NEW beat \in Beats, DueEdge(tready, beat)
  PROVE  /\ IsFiniteSet(OwedWords(due'))
         /\ Cardinality(OwedWords(due)) \in Nat /\ Cardinality(OwedWords(due')) \in Nat
         /\ Cardinality(OwedWords(due')) + Taken(beat)
              = Cardinality(OwedWords(due)) + Accepted(tready)
<1> DEFINE a == axis_rq.tag
           b == beat.tag
           mid == Raised(due, a, Accepted(tready))
<1>1. /\ a \in Tags /\ b \in Tags /\ Accepted(tready) \in Nat /\ Taken(beat) \in Nat
      /\ due \in [Tags -> Nat] /\ due' \in [Tags -> Nat]
  <2>1. beat.tag \in Tags /\ beat.dwords \in Nat BY BeatFacts, Zenon
  <2> QED BY <2>1, Zenon DEF TypeOK, EnvTypeOK, RqTypeOK, RqBeats, Accepted,
             WaitingRequest, Taken
<1>2. mid \in [Tags -> Nat] BY <1>1 DEF Raised
<1>3. \A j \in Tags :
        due'[j] = due[j] + (IF j = a THEN Accepted(tready) ELSE 0)
                         - (IF j = b THEN Taken(beat) ELSE 0)
  <2> TAKE j \in Tags
  <2>1. due'[j] = due[j] + (IF AcceptedRead(j, tready) THEN axis_rq.words ELSE 0)
                         - (IF beat.tvalid /\ rcTlp.left = 0 /\ beat.tag = j
                            THEN beat.dwords ELSE 0)
    BY Zenon DEF DueEdge
  <2>2. (IF AcceptedRead(j, tready) THEN axis_rq.words ELSE 0)
          = IF j = a THEN Accepted(tready) ELSE 0
    BY Zenon DEF AcceptedRead, Accepted, WaitingRequest
  <2>3. (IF beat.tvalid /\ rcTlp.left = 0 /\ beat.tag = j THEN beat.dwords ELSE 0)
          = IF j = b THEN Taken(beat) ELSE 0
    BY Zenon DEF Taken
  <2> QED BY <2>1, <2>2, <2>3, Zenon
<1>4. mid = Raised(due', b, Taken(beat))
  <2>1. \A j \in Tags : mid[j] = due'[j] + (IF j = b THEN Taken(beat) ELSE 0)
    BY <1>1, <1>3 DEF Raised
  <2> DEFINE back == Raised(due', b, Taken(beat))
  <2>2. back \in [Tags -> Nat] BY <1>1 DEF Raised
  <2>3. \A j \in Tags : back[j] = due'[j] + (IF j = b THEN Taken(beat) ELSE 0)
    BY <1>1 DEF Raised
  <2> HIDE DEF mid, back
  <2>4. \A j \in Tags : mid[j] = back[j] BY <2>1, <2>3, Zenon
  <2>5. mid = back BY <1>2, <2>2, <2>4
  <2> QED BY <2>5, Zenon DEF back
<1>7. mid = Raised(due, a, Accepted(tready)) BY Zenon
<1> HIDE DEF mid, a, b
<1>5. /\ IsFiniteSet(OwedWords(mid)) /\ Cardinality(OwedWords(due)) \in Nat
      /\ Cardinality(OwedWords(mid)) = Cardinality(OwedWords(due)) + Accepted(tready)
  BY <1>1, <1>2, <1>7, OwedMore, Zenon
<1>6. /\ IsFiniteSet(OwedWords(due')) /\ Cardinality(OwedWords(due')) \in Nat
      /\ Cardinality(OwedWords(mid)) = Cardinality(OwedWords(due')) + Taken(beat)
  BY <1>1, <1>2, <1>4, <1>5, OwedMore, Zenon
<1> QED BY <1>5, <1>6, Zenon

(* Where nothing is outstanding, nothing is owed, waits or arrives.        *)
LEMMA NothingOutstanding ==
  ASSUME TypeOK, \A j \in Tags : ~Outstanding(j)
  PROVE  /\ rcTlp.left = 0 /\ WaitingRequest = 0
         /\ \A j \in Tags : due[j] = 0
         /\ IsFiniteSet(OwedWords(due)) /\ Cardinality(OwedWords(due)) = 0
         /\ \A beat \in Beats : ~beat.tvalid /\ beat.keep = 0
<1>1. /\ rcTlp.tag \in Tags /\ rcTlp.left \in Nat /\ axis_rq.tag \in Tags
      /\ due \in [Tags -> Nat]
  BY Zenon DEF TypeOK, EnvTypeOK, RqTypeOK, RqBeats
<1>2. ~(rcTlp.left > 0) /\ WaitingRequest = 0 /\ \A j \in Tags : ~(due[j] > 0)
  BY <1>1, Zenon DEF Outstanding, Pending, Arriving, WaitingRequest
<1>3. rcTlp.left = 0 /\ \A j \in Tags : due[j] = 0
  BY <1>1, <1>2
<1>4. IsFiniteSet(OwedWords(due)) /\ Cardinality(OwedWords(due)) = 0
  BY <1>1, <1>3, OwedNone, Zenon
<1>5. \A beat \in Beats : ~beat.tvalid /\ beat.keep = 0
  BY <1>3, NoBeatWithoutDue, BeatKeep, Zenon
<1> QED BY <1>2, <1>3, <1>4, <1>5, Zenon

(* Only a read request waits while the answers are awaited, and none when  *)
(* a read operation ends.                                                  *)
LEMMA LastBeatStep ==
  ASSUME TypeOK, ReadInv, PresentedInv, AnswersInv,
         NEW tready \in BOOLEAN, NEW beat \in Beats, NEW push \in Pushes,
         ClockEdge(tready, beat, push)
  PROVE  /\ wr_state' = "WAIT_READ" /\ axis_rq'.tvalid => axis_rq'.kind = "rd"
         /\ EndOfWrite' => ports'.c2s
         /\ update_latency_r' /\ ~ports'.c2s => ~axis_rq'.tvalid
<1>1. ASSUME wr_state' = "WAIT_READ", axis_rq'.tvalid PROVE axis_rq'.kind = "rd"
  <2>1. CASE ReadRequest(tready, ports, push) BY <2>1, Zenon DEF ReadRequest
  <2>2. CASE ~ReadRequest(tready, ports, push)
    <3>1. wr_state # "IDLE" BY <1>1, RqMoves, Zenon DEF ClockEdge
    <3>2. wr_state = "WAIT_READ" BY <1>1, <2>2, <3>1, NoRequest, Zenon
    <3>3. axis_rq' = axis_rq BY <1>1, <3>2, RqMoves, Zenon DEF ClockEdge
    <3> QED BY <1>1, <3>2, <3>3, Zenon DEF AnswersInv
  <2> QED BY <2>1, <2>2, Zenon
<1>2. ASSUME EndOfWrite' PROVE ports'.c2s
  <2>1. wr_state_pipe_r' = wr_state BY Zenon DEF ClockEdge, RqEdge, FreeRunning
  <2>2. wr_state \in {"INIT_WRITE", "WRITE"} BY <1>2, <2>1, Zenon DEF EndOfWrite
  <2> QED BY <2>2, OperationHeld, Zenon DEF PresentedInv, ReadInv
<1>3. ASSUME update_latency_r', ~ports'.c2s PROVE ~axis_rq'.tvalid
  <2>1. end_of_operation
    BY <1>3, Zenon DEF ClockEdge, RqEdge, FreeRunning, LatencyEdge
  <2>2. ~EndOfWrite
    <3>1. ports \in Ports BY Zenon DEF TypeOK, EnvTypeOK
    <3>2. EndOfWrite => ports.c2s /\ ports.ENGINE_VALID
      BY Zenon DEF AnswersInv, PresentedInv
    <3>3. EndOfWrite => ports' = [ports EXCEPT !.ENGINE_VALID = FALSE]
      BY <2>1, <3>2, Zenon
         DEF ClockEdge, ManagerEdge, PortsHold, PortsConfigure, PortsRaise, PortsDrop
    <3> QED BY <1>3, <3>1, <3>2, <3>3, Zenon DEF Ports
  <2>3. EndOfRead /\ wr_state = "WAIT_READ"
    BY <2>1, <2>2, Zenon DEF end_of_operation, EndOfRead
  <2>4. axis_rq'.tvalid => axis_rq' = axis_rq
    BY <2>3, RqMoves, Zenon DEF ClockEdge
  <2>5. axis_rq.tvalid => axis_rq.kind = "rd" BY <2>3, Zenon DEF AnswersInv
  <2>6. axis_rq.tag \in Tags BY Zenon DEF TypeOK, RqTypeOK, RqBeats
  <2>7. ~Outstanding(axis_rq.tag)
    BY <2>3, <2>6, ReadInvImplies, Zenon DEF EndOfReadMeansAllReceived
  <2> QED BY <2>4, <2>5, <2>7, Zenon DEF Outstanding, Pending
<1> QED BY <1>1, <1>2, <1>3, Zenon

(* The words on both sides move together.                                  *)
LEMMA AnswersBalance ==
  ASSUME TypeOK, TypeOK', IsFiniteSet(OwedWords(due)), wr_state # "IDLE",
         NEW tready \in BOOLEAN, NEW beat \in Beats, NEW push \in Pushes,
         ClockEdge(tready, beat, push), NEW n \in Nat,
         n + rcTlp.left + Cardinality(OwedWords(due)) + WaitingRequest
           = issued.rd + 3 * issued.answers
  PROVE  (n + beat.keep) + rcTlp'.left + Cardinality(OwedWords(due')) + WaitingRequest'
           = issued'.rd + 3 * issued'.answers
<1>1. /\ issued.rd \in Nat /\ issued.answers \in Nat /\ rcTlp.left \in Nat
      /\ WaitingRequest \in Nat /\ WaitingRequest' \in Nat
  BY Zenon DEF TypeOK, EnvTypeOK, RqTypeOK, RqBeats, WaitingRequest
<1>2. issued'.rd = issued.rd + (IF tready THEN WaitingRequest' ELSE 0)
  <2>1. issued'.rd = issued.rd + (IF tready /\ axis_rq'.tvalid /\ axis_rq'.kind = "rd"
                                  THEN axis_rq'.words ELSE 0)
    BY DEF ClockEdge, IssuedEdge
  <2> QED BY <2>1, Zenon DEF WaitingRequest
<1>3. issued'.answers = issued.answers + Answer(beat)
  BY DEF ClockEdge, IssuedEdge, Answer
<1>4. ~tready => WaitingRequest' = WaitingRequest
  BY RqMoves, Zenon DEF ClockEdge, WaitingRequest
<1>5. /\ Taken(beat) \in Nat /\ Answer(beat) \in Nat /\ beat.keep \in Nat
      /\ rcTlp'.left \in Nat
      /\ beat.keep + rcTlp'.left = rcTlp.left + Taken(beat) + 3 * Answer(beat)
  BY ReceivedStep, Zenon DEF ClockEdge
<1>6. /\ Cardinality(OwedWords(due)) \in Nat /\ Cardinality(OwedWords(due')) \in Nat
      /\ Cardinality(OwedWords(due')) + Taken(beat)
           = Cardinality(OwedWords(due)) + Accepted(tready)
  BY OwedStep, Zenon DEF ClockEdge
<1>7. CASE tready
  <2>1. Accepted(tready) = WaitingRequest /\ issued'.rd = issued.rd + WaitingRequest'
    BY <1>2, <1>7, Zenon DEF Accepted
  <2>2. n + rcTlp.left + Cardinality(OwedWords(due)) + Accepted(tready)
          = issued.rd + 3 * issued.answers
    BY <2>1, Zenon
  <2>3. Accepted(tready) \in Nat BY <1>1, <2>1, Zenon
  <2> DEFINE k == beat.keep
             l == rcTlp.left
             m == rcTlp'.left
             t == Taken(beat)
             a == Answer(beat)
             c == Cardinality(OwedWords(due))
             d == Cardinality(OwedWords(due'))
             x == Accepted(tready)
             w == WaitingRequest'
             r == issued.rd
             q == issued.answers
  <2>4. /\ k \in Nat /\ l \in Nat /\ m \in Nat /\ t \in Nat /\ a \in Nat /\ c \in Nat
        /\ d \in Nat /\ x \in Nat /\ w \in Nat /\ r \in Nat /\ q \in Nat
        /\ k + m = l + t + 3 * a /\ d + t = c + x /\ n + l + c + x = r + 3 * q
    BY <1>1, <1>5, <1>6, <2>2, <2>3, Zenon
  <2>5. (n + k) + m + d + w = (r + w) + 3 * (q + a)
    <3> HIDE DEF k, l, m, t, a, c, d, x, w, r, q
    <3> QED BY <2>4
  <2> QED BY <1>3, <2>1, <2>5, Zenon
<1>8. CASE ~tready
  <2>1. Accepted(tready) = 0 /\ issued'.rd = issued.rd + 0
    BY <1>2, <1>8, Zenon DEF Accepted
  <2> QED BY <1>1, <1>3, <1>4, <1>5, <1>6, <1>8, <2>1
<1> QED BY <1>7, <1>8, Zenon

(* A clock edge keeps the balance.                                         *)
LEMMA AnswersStep ==
  ASSUME TypeOK, TypeOK', ReadInv, MeasureInv, PresentedInv, StatisticsInv, AnswersInv,
         NEW tready \in BOOLEAN, NEW beat \in Beats, NEW push \in Pushes,
         ClockEdge(tready, beat, push)
  PROVE  AnswersInv'
<1> DEFINE owed == Cardinality(OwedWords(due))
           Balance == bytes_comp_r + rcTlp.left + owed + WaitingRequest
                        = issued.rd + 3 * issued.answers
           still == \A j \in Tags : ~Outstanding(j)
<1>1. /\ stop_latency' => stop_latency \/ end_of_operation
      /\ update_latency_r' => end_of_operation
      /\ end_of_operation /\ stop_latency' => update_latency_r'
      /\ bytes_comp_r' = IF stop_latency THEN 0 ELSE bytes_comp_r + beat.keep
  BY Zenon DEF ClockEdge, RqEdge, FreeRunning, LatencyEdge
<1>2. /\ IsFiniteSet(OwedWords(due)) /\ bytes_comp_r \in Nat
      /\ issued.rd \in Nat /\ issued.answers \in Nat
  BY Zenon DEF AnswersInv, TypeOK, RqTypeOK, EnvTypeOK
<1>3. IsFiniteSet(OwedWords(due')) BY <1>2, OwedStep, Zenon DEF ClockEdge
<1>4. /\ wr_state = "IDLE" => still
      /\ stop_latency => still
  BY Zenon DEF ReadInv, TagInv, MeasureInv, ClockInv
<1>5. still => /\ rcTlp.left = 0 /\ WaitingRequest = 0 /\ owed = 0
               /\ ~beat.tvalid /\ beat.keep = 0
  BY NothingOutstanding, Zenon
<1>6. 0 + 0 = 0 /\ 3 * 0 = 0 /\ \A n \in Nat : n + 0 = n
  OBVIOUS
<1>7. ASSUME wr_state = "IDLE", ~stop_latency' \/ update_latency_r' PROVE Balance'
  <2>1. ~stop_latency /\ ~update_latency_r
    <3>1. stop_latency => ~end_of_operation
      BY <1>7, Zenon DEF StatisticsInv, end_of_operation, EndOfRead
    <3>2. stop_latency => stop_latency'
      BY <1>7, Zenon DEF ClockEdge, RqEdge, FreeRunning, LatencyEdge
    <3> QED BY <1>1, <1>7, <3>1, <3>2, Zenon DEF StatisticsInv
  <2>2. issued' = issued BY <1>7, <2>1, Zenon DEF ClockEdge, IssuedEdge
  <2>3. bytes_comp_r = issued.rd + 3 * issued.answers
    BY <1>2, <1>4, <1>5, <1>6, <1>7, <2>1, Zenon DEF AnswersInv
  <2>4. bytes_comp_r' = bytes_comp_r
    BY <1>1, <1>2, <1>4, <1>5, <1>6, <1>7, <2>1, Zenon
  <2>5. rcTlp' = rcTlp /\ WaitingRequest' = 0
    <3>1. rcTlp' = rcTlp
      BY <1>4, <1>5, <1>7, Zenon DEF ClockEdge, RcStreamEdge
    <3>2. axis_rq' = axis_rq \/ ~axis_rq'.tvalid
      BY <1>7, RqMoves, Zenon DEF ClockEdge
    <3> QED BY <1>4, <1>5, <1>7, <3>1, <3>2, Zenon DEF WaitingRequest
  <2>6. owed' = 0
    <3>1. /\ Cardinality(OwedWords(due')) \in Nat
          /\ Cardinality(OwedWords(due')) + Taken(beat) = owed + Accepted(tready)
      BY <1>2, OwedStep, Zenon DEF ClockEdge
    <3>2. Taken(beat) = 0 /\ Accepted(tready) = 0
      BY <1>4, <1>5, <1>7, Zenon DEF Taken, Accepted
    <3> QED BY <1>4, <1>5, <1>6, <1>7, <3>1, <3>2, Zenon
  <2> QED BY <1>2, <1>4, <1>5, <1>6, <1>7, <2>2, <2>3, <2>4, <2>5, <2>6, Zenon
<1>8. ASSUME wr_state # "IDLE" PROVE Balance'
  <2>1. CASE stop_latency
    <3>1. issued.rd = 0 /\ issued.answers = 0
      BY <1>8, <2>1, Zenon DEF StatisticsInv, AnswersInv
    <3>2. 0 + rcTlp.left + owed + WaitingRequest = issued.rd + 3 * issued.answers
      BY <1>4, <1>5, <1>6, <2>1, <3>1, Zenon
    <3>3. bytes_comp_r' = 0 + beat.keep
      BY <1>1, <1>4, <1>5, <1>6, <2>1, Zenon
    <3>4. 0 \in Nat OBVIOUS
    <3> QED BY <1>2, <1>8, <3>2, <3>3, <3>4, AnswersBalance, Zenon
  <2>2. CASE ~stop_latency
    <3>1. Balance BY <2>2, Zenon DEF AnswersInv
    <3>2. bytes_comp_r' = bytes_comp_r + beat.keep BY <1>1, <2>2, Zenon
    <3> QED BY <1>2, <1>8, <3>1, <3>2, AnswersBalance, Zenon
  <2> QED BY <2>1, <2>2, Zenon
<1>9. ASSUME stop_latency', ~update_latency_r' PROVE issued'.answers = 0
  <2>1. stop_latency BY <1>1, <1>9, Zenon
  <2>2. CASE wr_state = "IDLE" /\ update_latency_r
    BY <2>2, Zenon DEF ClockEdge, IssuedEdge, NothingIssued
  <2>3. CASE wr_state = "IDLE" /\ ~update_latency_r
    BY <2>1, <2>3, Zenon DEF ClockEdge, IssuedEdge, AnswersInv
  <2>4. CASE wr_state # "IDLE"
    <3>1. issued.answers = 0 BY <2>1, <2>4, Zenon DEF StatisticsInv, AnswersInv
    <3>2. ~beat.tvalid BY <1>4, <1>5, <2>1, Zenon
    <3> QED BY <2>4, <3>1, <3>2 DEF ClockEdge, IssuedEdge
  <2> QED BY <2>2, <2>3, <2>4, Zenon
<1>10. /\ wr_state' = "WAIT_READ" /\ axis_rq'.tvalid => axis_rq'.kind = "rd"
       /\ EndOfWrite' => ports'.c2s
       /\ update_latency_r' /\ ~ports'.c2s => ~axis_rq'.tvalid
  BY LastBeatStep, Zenon
<1> QED BY <1>3, <1>7, <1>8, <1>9, <1>10, Zenon DEF AnswersInv

(* Reset leaves nothing owed.                                              *)
LEMMA InitAnswers == Init => AnswersInv
<1> SUFFICES ASSUME Init PROVE AnswersInv BY Zenon
<1>1. due \in [Tags -> Nat] /\ \A j \in Tags : due[j] = 0 BY DEF Init
<1>2. IsFiniteSet(OwedWords(due)) BY <1>1, OwedNone, Zenon
<1> QED BY <1>2, Zenon DEF Init, RqInit, NoBeat, NothingIssued, EndOfWrite, AnswersInv

(* Every step preserves the balance.                                       *)
LEMMA NextAnswers ==
  ASSUME ~ResetMidFlight
  PROVE  /\ TypeOK /\ ReadInv /\ MeasureInv /\ PathInv /\ AnswersInv /\ [Next]_vars
         => AnswersInv'
<1> SUFFICES ASSUME TypeOK, ReadInv, MeasureInv, PathInv, AnswersInv, [Next]_vars
             PROVE  AnswersInv'
  BY Zenon
<1>0. TypeOK' BY NextTypes, Zenon
<1>1. ASSUME NEW tready \in BOOLEAN, NEW beat \in Beats, NEW push \in Pushes,
             ClockEdge(tready, beat, push)
      PROVE  AnswersInv'
  BY <1>0, <1>1, AnswersStep, Zenon DEF PathInv
<1>2. CASE UserReset
  <2>1. IsFiniteSet(OwedWords(due')) BY <1>2, Zenon DEF UserReset, AnswersInv
  <2> QED
    BY <1>2, <2>1, Zenon
       DEF UserReset, RqReset, NoBeat, NothingIssued, EndOfWrite, AnswersInv
<1>3. CASE UNCHANGED vars
  BY <1>3, Zenon DEF vars, rqVars, envVars, AnswersInv, WaitingRequest, EndOfWrite
<1> QED BY <1>1, <1>2, <1>3, Zenon DEF Next

(* At the end of a read operation the statistics registers of dma_rq_logic *)
(* hold every word it put on RQ and every word that came back, for any     *)
(* number of tags and any split of the completions.                        *)
THEOREM ReadStatistics ==
  ASSUME ~ResetMidFlight, IdleTags \subseteq {0}
  PROVE  Spec => []ReadStatisticsComplete
<1>1. TypeOK /\ MeasureInv /\ PathInv /\ AnswersInv => ReadStatisticsComplete
  <2> SUFFICES ASSUME TypeOK, MeasureInv, PathInv, AnswersInv,
                      update_latency_r, ~ports.c2s
               PROVE  /\ bytes_req_r = issued.dwords
                      /\ bytes_comp_r = issued.rd + 3 * issued.answers
    BY Zenon DEF ReadStatisticsComplete
  <2>1. \A j \in Tags : ~Outstanding(j)
    BY Zenon DEF PathInv, StatisticsInv, MeasureInv, ClockInv
  <2>2. rcTlp.left = 0 /\ WaitingRequest = 0 /\ Cardinality(OwedWords(due)) = 0
    BY <2>1, NothingOutstanding, Zenon
  <2>3. WaitingBeat = 0 BY Zenon DEF AnswersInv, WaitingBeat
  <2>4. \A n \in Nat : n + 0 = n OBVIOUS
  <2>5. bytes_req_r \in Nat /\ bytes_comp_r \in Nat BY Zenon DEF TypeOK, RqTypeOK
  <2>6. bytes_req_r = issued.dwords
    BY <2>3, <2>4, <2>5, Zenon DEF PathInv, StatisticsInv
  <2>7. bytes_comp_r = issued.rd + 3 * issued.answers
    BY <2>2, <2>4, <2>5, Zenon DEF AnswersInv
  <2> QED BY <2>6, <2>7, Zenon
<1> QED
  BY <1>1, InitTypes, NextTypes, InitRead, NextRead, InitMeasure, NextMeasure, InitPath,
     NextPath, InitAnswers, NextAnswers, PTL DEF Spec

=============================================================================
