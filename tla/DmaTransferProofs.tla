-------------------------- MODULE DmaTransferProofs -------------------------
(***************************************************************************)
(* The types of DmaTransfer, its write path, the statistics an operation   *)
(* publishes and the volume it reads, for every number of tags, every TLP  *)
(* limit and every set of operations, windows and completion splits.       *)
(***************************************************************************)
EXTENDS DmaTransfer, WellFoundedInduction, TLAPS

-----------------------------------------------------------------------------
(* Arithmetic of the TLP boundaries and of the word counters.            *)

(* A remainder is a natural number below its divisor.                      *)
LEMMA ModRange == \A a \in Int, b \in Nat \ {0} : a % b \in Nat /\ a % b < b
  BY SMT

(* Words added to and taken from an amount that is due.                    *)
LEMMA Dues ==
  \A n, d \in Nat : /\ n + 0 - 0 = n /\ 0 + n - 0 = n
                    /\ ~(0 > 0) /\ ~(n > 0 /\ n <= 0)
                    /\ d <= n => n + 0 - d = n - d /\ n - d \in Nat
  BY SMT

(* A number below the divisor is its own remainder.                        *)
LEMMA ModSmall == \A a \in Nat, b \in Nat \ {0} : a < b => a % b = a
  BY SMT

(* A quotient of naturals is a natural.                                    *)
LEMMA DivNat == \A a \in Nat, b \in Nat \ {0} : a \div b \in Nat
  BY SMT

(* A value that fits in the counters does not wrap.                             *)
LEMMA WrapSmall == \A n \in Nat : n < CountLimit => Wrap(n) = n
  BY RcAssumption, ModSmall, Zenon DEF Wrap

(* The counters stay natural numbers.                                      *)
LEMMA WrapNat == \A n \in Int : Wrap(n) \in Nat
  BY RcAssumption, ModRange, Zenon DEF Wrap

(* The number of TLPs in a pass, and the words of the last one.            *)
LEMMA PassTypes ==
  ASSUME NEW s \in Nat, NEW m \in Nat, m > 0
  PROVE  /\ NumberEven(s, m) \in Nat
         /\ OddWords(s, m) \in Nat
         /\ OddWords(s, m) > 0
         /\ OddWords(s, m) <= m
<1>1. s % m \in Nat /\ s % m < m
  BY ModRange, SMTT(30)
<1>2. s \div m \in Nat
  BY DivNat, SMTT(30)
<1> QED
  BY <1>1, <1>2, SMTT(30) DEF NumberEven, OddWords

(* The last TLP of a pass holds at least one word and at most a full TLP.  *)
LEMMA BoundariesWellTyped ==
  ASSUME NEW p \in Ports
  PROVE  /\ BoundariesOf(p) \in BoundariesType
         /\ BoundariesOf(p).rd_odd > 0
         /\ BoundariesOf(p).rd_odd < CountLimit
         /\ ReadMax(p) \in Nat
         /\ ReadMax(p) > 0
         /\ ReadMax(p) < CountLimit
<1>1. /\ ReadMax(p) \in Nat /\ ReadMax(p) > 0 /\ ReadMax(p) < CountLimit
      /\ MaxPayload \in Nat /\ MaxPayload > 0
  BY RqAssumption, TransferAssumption, SMTT(30) DEF ReadMax, Ports
<1>2. p.SIZE \in Nat /\ p.TLPS \in Nat
  BY Zenon DEF Ports
<1>3. /\ NumberEven(p.SIZE, MaxPayload) \in Nat
      /\ OddWords(p.SIZE, MaxPayload) \in Nat
  BY <1>1, <1>2, PassTypes, Zenon
<1>4. /\ NumberEven(p.SIZE, ReadMax(p)) \in Nat
      /\ OddWords(p.SIZE, ReadMax(p)) \in Nat
      /\ OddWords(p.SIZE, ReadMax(p)) > 0
      /\ OddWords(p.SIZE, ReadMax(p)) <= ReadMax(p)
  BY <1>1, <1>2, PassTypes, Zenon
<1>5. OddWords(p.SIZE, ReadMax(p)) < CountLimit
  BY <1>1, <1>4, RcAssumption, SMTT(30)
<1> QED
  BY <1>1, <1>2, <1>3, <1>4, <1>5, Zenon DEF BoundariesOf, BoundariesType

-----------------------------------------------------------------------------
(* Type correctness.                                                       *)

(* Zero is a tag, and the empty beat is a beat.                            *)
LEMMA ZeroTag == 0 \in Tags /\ NoBeat \in RqBeats
<1>1. 0 \in Tags
  BY TagsAssumption, SMTT(30) DEF Tags
<1> QED
  BY <1>1, Zenon DEF NoBeat, RqBeats

(* What the PCIe core may put on the RC stream.                            *)
LEMMA BeatFacts ==
  ASSUME TypeOK, NEW beat \in Beats
  PROVE  /\ beat.tvalid \in BOOLEAN /\ beat.tlast \in BOOLEAN
         /\ beat.tag \in Tags /\ beat.dwords \in Nat /\ beat.keep \in Nat
         /\ ~beat.tvalid => beat.tag \in IdleTags
         /\ beat.tvalid /\ rcTlp.left > 0 =>
              /\ beat.tlast = (rcTlp.left <= 8)
              /\ ~is_rc_sop_r => beat.tag = rcTlp.tag
         /\ beat.tvalid /\ rcTlp.left = 0 =>
              /\ beat.dwords > 0
              /\ beat.dwords <= due[beat.tag]
              /\ beat.tlast = (beat.dwords <= 5)
<1>0. due \in [Tags -> Nat] /\ rcTlp.tag \in Tags /\ rcTlp.left \in Nat
  BY Zenon DEF TypeOK, EnvTypeOK
<1>1. CASE beat \in IdleBeats
  <2>1. /\ beat.tvalid = FALSE /\ beat.tlast = FALSE
        /\ beat.tag \in IdleTags /\ beat.dwords = 0 /\ beat.keep = 0
    BY <1>1, Zenon DEF IdleBeats
  <2>2. beat.tvalid \in BOOLEAN /\ beat.tlast \in BOOLEAN
    BY <2>1, Zenon
  <2>3. beat.tag \in Tags /\ beat.dwords \in Nat /\ beat.keep \in Nat
    BY <2>1, TransferAssumption, SMTT(30)
  <2> QED
    BY <2>1, <2>2, <2>3, Zenon
<1>2. CASE rcTlp.left > 0 /\ beat \in NextBeats
  <2>1. {0} \cup Splits \subseteq Nat
    BY TransferAssumption, SMTT(30)
  <2>2. MinOf(rcTlp.left, 8) \in Nat
    BY <1>0, Zenon DEF MinOf
  <2>3. /\ beat.tvalid = TRUE /\ beat.tlast = (rcTlp.left <= 8)
        /\ beat.tag \in (IF is_rc_sop_r THEN Tags ELSE {rcTlp.tag})
        /\ beat.dwords \in (IF is_rc_sop_r THEN {0} \cup Splits ELSE {0})
        /\ beat.keep = MinOf(rcTlp.left, 8)
    BY <1>2, Zenon DEF NextBeats
  <2>4. /\ beat.tag \in Tags /\ beat.dwords \in Nat /\ beat.keep \in Nat
        /\ ~is_rc_sop_r => beat.tag = rcTlp.tag
    BY <1>0, <2>1, <2>2, <2>3, Zenon
  <2>5. beat.tvalid \in BOOLEAN
    BY <2>3, Zenon
  <2>6. beat.tlast \in BOOLEAN
    BY <2>3, SMTT(30)
  <2> QED
    BY <1>0, <1>2, <2>3, <2>4, <2>5, <2>6, SMTT(30)
<1>3. CASE rcTlp.left = 0 /\ beat \in FirstBeats
  <2>1. PICK j \in Tags : \E n \in Splits \cup {due[j]} :
          0 < n /\ n <= due[j] /\ beat = FirstBeat(j, n)
    BY <1>3, Zenon DEF FirstBeats
  <2>2. PICK n \in Splits \cup {due[j]} :
          0 < n /\ n <= due[j] /\ beat = FirstBeat(j, n)
    BY <2>1, Zenon
  <2>3. n \in Nat
    BY <1>0, <2>2, TransferAssumption, Zenon
  <2>4. /\ beat.tvalid = TRUE /\ beat.tlast = (n <= 5)
        /\ beat.tag = j /\ beat.dwords = n /\ beat.keep = 3 + MinOf(n, 5)
    BY <2>2, Zenon DEF FirstBeat
  <2>5. beat.keep \in Nat
    BY <2>3, <2>4, SMTT(30) DEF MinOf
  <2>6. beat.tvalid \in BOOLEAN
    BY <2>4, Zenon
  <2>7. beat.tlast \in BOOLEAN
    BY <2>4, SMTT(30)
  <2> QED
    BY <1>3, <2>2, <2>3, <2>4, <2>5, <2>6, <2>7, SMTT(30)
<1> QED
  BY <1>0, <1>1, <1>2, <1>3, SMTT(30) DEF Beats

(* The registers that every clock edge updates in the same way.            *)
LEMMA FreeRunningTypes ==
  ASSUME TypeOK, NEW tready \in BOOLEAN, NEW keep \in Nat,
         FreeRunning(tready, completed_tags_r, ports, keep)
  PROVE  /\ wr_state_pipe_r' \in RqStates
         /\ end_of_operation_r' \in BOOLEAN
         /\ boundaries' \in BoundariesType
         /\ window_size_r' \in Nat
         /\ window_size_mask_r' \in Nat
         /\ current_tags_r' \subseteq Tags
         /\ size_tags_r' \in [Tags -> Nat]
         /\ stop_latency' \in BOOLEAN
         /\ update_latency_r' \in BOOLEAN
         /\ bytes_req_r' \in Nat
         /\ bytes_comp_r' \in Nat
         /\ latency_tags_r' \subseteq Tags
<1>1. ports \in Ports /\ boundaries \in BoundariesType
  BY Zenon DEF TypeOK, EnvTypeOK, RqTypeOK
<1>2. wr_state_pipe_r' \in RqStates
  BY Zenon DEF FreeRunning, TypeOK, RqTypeOK
<1>3. end_of_operation_r' \in BOOLEAN
  BY Zenon DEF FreeRunning
<1>4. boundaries' \in BoundariesType
  BY <1>1, BoundariesWellTyped, Zenon DEF FreeRunning
<1>5. window_size_r' \in Nat
  BY <1>1, Zenon DEF FreeRunning, Ports
<1>6. window_size_mask_r' \in Nat
  BY TagsAssumption, Zenon DEF FreeRunning, MinOf, TypeOK, RqTypeOK
<1>7. current_tags_r' \subseteq Tags
  BY Zenon DEF FreeRunning, TagsEdge, AllocatedTags, TypeOK, RqTypeOK
<1>8. size_tags_r' \in [Tags -> Nat]
  <2>1. current_rd_tlp_words_s(ports) \in Nat
    BY <1>1, BoundariesWellTyped, Zenon DEF current_rd_tlp_words_s, BoundariesType
  <2>2. size_tags_r \in [Tags -> Nat]
    BY Zenon DEF TypeOK, RqTypeOK
  <2> QED
    BY <2>1, <2>2, Zenon DEF FreeRunning, TagsEdge
<1>9. stop_latency' \in BOOLEAN /\ update_latency_r' \in BOOLEAN
  BY Zenon DEF FreeRunning, LatencyEdge
<1>10. bytes_req_r' \in Nat /\ bytes_comp_r' \in Nat
  <2>1. axis_rq.keep \in Nat /\ bytes_req_r \in Nat /\ bytes_comp_r \in Nat
    BY Zenon DEF TypeOK, RqTypeOK, RqBeats
  <2> QED
    BY <2>1, SMTT(30) DEF FreeRunning, LatencyEdge
<1>11. latency_tags_r' \subseteq Tags
  BY Zenon DEF FreeRunning, LatencyTagsEdge, TypeOK, RqTypeOK
<1> QED
  BY <1>2, <1>3, <1>4, <1>5, <1>6, <1>7, <1>8, <1>9, <1>10, <1>11, Zenon

(* The registers of the state machine and the RQ stream.                   *)
FsmTypeOK ==
  /\ wr_state \in RqStates
  /\ mem_wr_current_tlp_r \in Nat
  /\ mem_wr_current_tlp_modulus_r \in Nat
  /\ mem_rd_current_tlp_r \in Nat
  /\ mem_rd_current_tlp_modulus_r \in Nat
  /\ mem_wr_remaining_words_r \in Nat
  /\ mem_rd_remaining_words_r \in Nat
  /\ axis_rq \in RqBeats
  /\ c2s_buf_occupancy \in Nat

(* A record with fields of the right types is a beat.                      *)
LEMMA BeatRecord ==
  ASSUME NEW k \in {"none", "rd", "wr", "data"}, NEW t \in Tags,
         NEW w \in Nat, NEW n \in Nat, NEW l \in BOOLEAN, NEW e \in BOOLEAN
  PROVE  [tvalid |-> TRUE, kind |-> k, tag |-> t, words |-> w, keep |-> n,
          tlast |-> l, last_be |-> e] \in RqBeats
  BY Zenon DEF RqBeats

(* The end of a write TLP.                                                 *)
LEMMA FinishWriteTypes ==
  ASSUME TypeOK, FinishWriteTlp(ports)
  PROVE  /\ wr_state' \in RqStates
         /\ mem_wr_current_tlp_r' \in Nat
         /\ mem_wr_current_tlp_modulus_r' \in Nat
         /\ mem_wr_remaining_words_r' \in Nat
<1>1. /\ boundaries.wr_odd \in Nat /\ MaxPayload \in Nat
      /\ mem_wr_current_tlp_r \in Nat /\ mem_wr_current_tlp_modulus_r \in Nat
  BY RqAssumption, Zenon DEF TypeOK, RqTypeOK, BoundariesType
<1>2. AfterWriteTlp(ports) \in RqStates
  BY Zenon DEF AfterWriteTlp, RqStates
<1> QED
  BY <1>1, <1>2, SMTT(30) DEF FinishWriteTlp

(* The first free tag is a tag.                                            *)
LEMMA FirstFreeLeast ==
  ASSUME NEW m \in Tags, m \notin current_tags_r
  PROVE  /\ firstFree \in Tags \ current_tags_r
         /\ \A k \in Tags \ current_tags_r : firstFree <= k
<1> DEFINE Free == Tags \ current_tags_r
<1>1. Free \subseteq Nat /\ m \in Free
  BY TagsAssumption, SMTT(30) DEF Tags
<1> DEFINE Less == {ss \in Nat \X Nat : ss[1] < ss[2]}
<1>2. IsWellFoundedOn(Less, Nat)
  BY NatLessThanWellFounded, Zenon DEF OpToRel
<1>3. \E j \in Free : \A k \in Free : j <= k
  <2>1. \E j \in Free : \A k \in Free : ~(<<k, j>> \in Less)
    <3> HIDE DEF Less, Free
    <3> QED
      BY <1>1, <1>2, WFMin, Zenon
  <2>2. \A j, k \in Nat : ~(<<k, j>> \in Less) => j <= k
    BY SMTT(30)
  <2> HIDE DEF Less, Free
  <2> QED
    BY <1>1, <2>1, <2>2, Zenon
<1>4. ~(Tags \subseteq current_tags_r)
  BY <1>1, Zenon
<1> QED
  BY <1>3, <1>4, Zenon DEF firstFree

(* Every step of the state machine leaves its registers well typed; the    *)
(* subtractions are guarded by the occupancy and the remaining words.      *)
LEMMA FsmTypes ==
  ASSUME TypeOK, NEW tready \in BOOLEAN, NEW push \in Pushes,
         NEW keep \in Nat,
         RqEdge(tready, completed_tags_r, ports, push, keep)
  PROVE  FsmTypeOK'
<1> DEFINE P == ports
<1>1. /\ FsmTypeOK /\ P \in Ports /\ boundaries \in BoundariesType
      /\ P.SIZE \in Nat /\ MaxPayload \in Nat /\ MaxReadRequest \in Nat
      /\ ReadMax(P) \in Nat
  BY BoundariesWellTyped, RqAssumption, Zenon
     DEF TypeOK, RqTypeOK, EnvTypeOK, FsmTypeOK, Ports
<1>2. /\ boundaries.wr_odd \in Nat /\ boundaries.rd_odd \in Nat
      /\ current_wr_tlp_words_s \in Nat /\ current_rd_tlp_words_s(P) \in Nat
  BY <1>1, Zenon DEF BoundariesType, current_wr_tlp_words_s, current_rd_tlp_words_s
<1>3. push \in Nat
  BY TransferAssumption, SMTT(30)
<1>4. (IF tready THEN NoBeat ELSE axis_rq) \in RqBeats
  BY <1>1, ZeroTag, Zenon DEF FsmTypeOK
<1>5. \A pop \in Nat : pop <= c2s_buf_occupancy /\ BufferEdge(push, pop)
                        => c2s_buf_occupancy' \in Nat
  BY <1>1, <1>3, SMTT(30) DEF BufferEdge, FsmTypeOK
<1>6. \A m \in Nat : MinOf(mem_wr_next_remainder, m) \in Nat
  <2>1. mem_wr_next_remainder \in Nat
    BY <1>1, ModRange, SMTT(30) DEF mem_wr_next_remainder, FsmTypeOK
  <2> QED
    BY <2>1, Zenon DEF MinOf
<1>7. ASSUME IdleEdge(tready, P, push), wr_state' \in RqStates PROVE FsmTypeOK'
  <2>1. MinOf(P.SIZE, MaxPayload) \in Nat
    BY <1>1, Zenon DEF MinOf
  <2>2. c2s_buf_occupancy' \in Nat
    BY <1>1, <1>5, <1>7, SMTT(30) DEF IdleEdge, FsmTypeOK
  <2> QED
    BY <1>1, <1>4, <1>7, <2>1, <2>2, Zenon DEF IdleEdge, FsmTypeOK
<1>8. CASE WriteWaits(tready, push) \/ ReadWaits(tready, push)
  <2>1. c2s_buf_occupancy' \in Nat
    BY <1>1, <1>5, <1>8, SMTT(30) DEF WriteWaits, ReadWaits, FsmTypeOK
  <2> QED
    BY <1>1, <1>4, <1>8, <2>1, Zenon
       DEF WriteWaits, ReadWaits, FsmTypeOK, wrTlpVars, rdTlpVars
<1>9. CASE WriteHeader(tready, P, push)
  <2>1. c2s_buf_occupancy' \in Nat
    BY <1>1, <1>5, <1>9, SMTT(30) DEF WriteHeader, one_word_at_buffer_s, FsmTypeOK
  <2>2. axis_rq' \in RqBeats
    <3>1. (IF last_word_at_tlp_s THEN 4 + MinOf(mem_wr_next_remainder, 4) ELSE 8) \in Nat
      BY <1>6, SMTT(30)
    <3>2. last_word_at_tlp_s \in BOOLEAN /\ (mem_wr_remaining_words_r > 1) \in BOOLEAN
      BY SMTT(30) DEF last_word_at_tlp_s
    <3> QED
      BY <1>2, <1>9, <3>1, <3>2, ZeroTag, BeatRecord, Zenon DEF WriteHeader
  <2>3. CASE last_word_at_tlp_s
    BY <1>1, <1>9, <2>1, <2>2, <2>3, FinishWriteTypes, Zenon
       DEF WriteHeader, FsmTypeOK, rdTlpVars
  <2>4. CASE ~last_word_at_tlp_s
    BY <1>1, <1>9, <2>1, <2>2, <2>4, SMTT(30)
       DEF WriteHeader, FsmTypeOK, rdTlpVars, wrTlpVars, RqStates, last_word_at_tlp_s
  <2> QED
    BY <2>3, <2>4, Zenon
<1>10. CASE WriteData(tready, P, push)
  <2>1. c2s_buf_occupancy' \in Nat
    BY <1>1, <1>5, <1>10, Zenon DEF WriteData, two_words_at_buffer_s, FsmTypeOK
  <2>2. axis_rq' \in RqBeats
    BY <1>10, ZeroTag, Zenon DEF WriteData, RqBeats, NoBeat
  <2> QED
    BY <1>1, <1>10, <2>1, <2>2, SMTT(30)
       DEF WriteData, FsmTypeOK, wrTlpVars, rdTlpVars, last_two_words_at_tlp_s
<1>11. CASE WriteLastData(tready, P, push)
  <2>1. c2s_buf_occupancy' \in Nat
    BY <1>1, <1>5, <1>11, SMTT(30)
       DEF WriteLastData, one_word_at_buffer_s, two_words_at_buffer_s, FsmTypeOK
  <2>2. axis_rq' \in RqBeats
    BY <1>6, <1>11, ZeroTag, Zenon DEF WriteLastData, RqBeats, NoBeat
  <2> QED
    BY <1>1, <1>11, <2>1, <2>2, FinishWriteTypes, Zenon
       DEF WriteLastData, FsmTypeOK, rdTlpVars
<1>12. CASE ReadRequest(tready, P, push)
  <2>1. c2s_buf_occupancy' \in Nat
    BY <1>1, <1>5, <1>12, SMTT(30) DEF ReadRequest, FsmTypeOK
  <2>2. axis_rq' \in RqBeats
    <3>1. firstFree \in Tags
      BY <1>12, FirstFreeLeast, Zenon DEF ReadRequest, TagAvailable, InMask
    <3>2. (mem_rd_remaining_words_r > 1) \in BOOLEAN
      BY SMTT(30)
    <3> QED
      BY <1>2, <1>12, <3>1, <3>2, BeatRecord, Zenon DEF ReadRequest
  <2>3. wr_state' \in RqStates
    BY <1>12, Zenon DEF ReadRequest, RqStates
  <2> QED
    BY <1>1, <1>2, <1>12, <2>1, <2>2, <2>3, SMTT(30) DEF ReadRequest, FsmTypeOK, wrTlpVars
<1>13. CASE WaitRead(tready, push)
  <2>1. c2s_buf_occupancy' \in Nat
    BY <1>1, <1>5, <1>13, SMTT(30) DEF WaitRead, FsmTypeOK
  <2> QED
    BY <1>1, <1>4, <1>13, <2>1, Zenon
       DEF WaitRead, FsmTypeOK, RqStates, wrTlpVars, rdTlpVars
<1>14. CASE \/ StartWrite(tready, P, push) \/ StartRead(tready, P, push)
            \/ StayIdle(tready, P, push)
  BY <1>7, <1>14, Zenon DEF StartWrite, StartRead, StayIdle, RqStates
<1> QED
  BY <1>8, <1>9, <1>10, <1>11, <1>12, <1>13, <1>14, Zenon DEF RqEdge

(* The counters and the tag vectors of the completion logic.               *)
LEMMA RcTypes ==
  ASSUME TypeOK, NEW beat \in Beats,
         RcEdge(beat, current_tags_r, size_tags_r)
  PROVE  RcTypeOK'
<1>1. /\ beat.tlast \in BOOLEAN /\ beat.tag \in Tags /\ beat.dwords \in Nat
  BY BeatFacts, Zenon
<1>2. /\ is_rc_sop_r \in BOOLEAN /\ tlp_tag_r \in Tags
      /\ word_count_tag_r \in [Tags -> Nat] /\ size_tags_r \in [Tags -> Nat]
  BY Zenon DEF TypeOK, RcTypeOK, RqTypeOK
<1>3. is_rc_sop_r' \in BOOLEAN
  BY <1>1, <1>2, Zenon DEF RcEdge
<1>4. tlp_tag_r' \in Tags
  BY <1>1, <1>2, Zenon DEF RcEdge
<1>5. completed_tags_r' \subseteq Tags /\ is_tag_count_exceeded_r' \subseteq Tags
  BY Zenon DEF RcEdge
<1>6. word_count_tag_r' \in [Tags -> Nat]
  <2>1. ASSUME NEW j \in Tags PROVE NextWordCount(j, beat) \in Nat
    <3>1. word_count_tag_r[j] + beat.dwords \in Int /\ word_count_tag_r[j] \in Nat
      BY <1>1, <1>2, SMTT(30)
    <3> QED
      BY <3>1, WrapNat, Zenon DEF NextWordCount
  <2> QED
    BY <2>1, Zenon DEF RcEdge
<1>7. difference_r' \in [Tags -> Nat]
  <2>1. ASSUME NEW j \in Tags PROVE NextDifference(j, beat, size_tags_r) \in Nat
    <3>1. /\ size_tags_r[j] - word_count_tag_r[j] - beat.dwords \in Int
          /\ size_tags_r[j] - word_count_tag_r[j] \in Int
      BY <1>1, <1>2, SMTT(30)
    <3> QED
      BY <3>1, WrapNat, Zenon DEF NextDifference
  <2> QED
    BY <2>1, Zenon DEF RcEdge
<1> QED
  BY <1>3, <1>4, <1>5, <1>6, <1>7, Zenon DEF RcTypeOK

(* The ports, the words due and the two streams.                           *)
LEMMA EnvTypes ==
  ASSUME TypeOK, NEW tready \in BOOLEAN, NEW beat \in Beats, NEW push \in Pushes,
         ClockEdge(tready, beat, push), axis_rq' \in RqBeats
  PROVE  EnvTypeOK'
<1>1. /\ ports \in Ports /\ due \in [Tags -> Nat] /\ rqLeft \in Int
      /\ rcTlp \in [tag : Tags, left : Nat]
      /\ issued \in [dwords : Nat, wr : Nat, rd : Nat, answers : Nat]
      /\ axis_rq \in RqBeats
  BY Zenon DEF TypeOK, EnvTypeOK, RqTypeOK
<1>2. /\ beat.tlast \in BOOLEAN /\ beat.tag \in Tags /\ beat.dwords \in Nat
      /\ beat.tvalid /\ rcTlp.left > 0 => beat.tlast = (rcTlp.left <= 8)
      /\ beat.tvalid /\ rcTlp.left = 0 =>
           beat.dwords <= due[beat.tag] /\ beat.tlast = (beat.dwords <= 5)
  BY BeatFacts, Zenon
<1>3. /\ axis_rq.words \in Nat /\ axis_rq.keep \in Nat
      /\ axis_rq'.words \in Nat /\ axis_rq'.keep \in Nat
  BY <1>1, Zenon DEF RqBeats
<1>4. ports' \in Ports
  <2>1. CASE PortsHold
    BY <1>1, <2>1, Zenon DEF PortsHold
  <2>2. CASE PortsRaise \/ PortsDrop
    BY <1>1, <2>2, Zenon DEF PortsRaise, PortsDrop, Ports
  <2>3. CASE PortsConfigure
    <3>1. PICK op \in Operations, w \in Windows :
            ports' = [ENGINE_VALID |-> FALSE, c2s |-> op.c2s, s2c |-> op.s2c,
                      SIZE |-> op.SIZE, TLPS |-> op.TLPS, WINDOW |-> w]
      BY <2>3, Zenon DEF PortsConfigure
    <3>2. op \in OperationType /\ w \in Nat
      BY TransferAssumption, TagsAssumption, SMTT(30)
    <3> QED
      BY <3>1, <3>2, Zenon DEF OperationType, Ports
  <2> QED
    BY <2>1, <2>2, <2>3, Zenon DEF ClockEdge, ManagerEdge
<1>5. due' \in [Tags -> Nat]
  <2>1. ASSUME NEW j \in Tags
        PROVE  due[j] + (IF AcceptedRead(j, tready) THEN axis_rq.words ELSE 0)
                 - (IF beat.tvalid /\ rcTlp.left = 0 /\ beat.tag = j
                    THEN beat.dwords ELSE 0) \in Nat
    BY <1>1, <1>2, <1>3, SMTT(30)
  <2> QED
    BY <2>1, Zenon DEF ClockEdge, DueEdge
<1>6. rcTlp' \in [tag : Tags, left : Nat]
  BY <1>1, <1>2, SMTT(30) DEF ClockEdge, RcStreamEdge
<1>7. rqLeft' \in Int
  BY <1>1, <1>3, SMTT(30) DEF ClockEdge, RqStreamEdge, WordsToCome
<1>8. issued' \in [dwords : Nat, wr : Nat, rd : Nat, answers : Nat]
  BY <1>1, <1>3, SMTT(30) DEF ClockEdge, IssuedEdge, NothingIssued
<1> QED
  BY <1>4, <1>5, <1>6, <1>7, <1>8, Zenon DEF EnvTypeOK

(* The reset values are well typed.                                        *)
LEMMA InitTypes == Init => TypeOK
<1> SUFFICES ASSUME Init PROVE TypeOK
  BY Zenon
<1>1. RqTypeOK
  BY ZeroTag, Zenon DEF Init, RqInit, RqTypeOK, RqStates, BoundariesType
<1>2. RcTypeOK
  BY ZeroTag, Zenon DEF Init, RcInit, RcTypeOK
<1>3. EnvTypeOK
  BY ZeroTag, TagsAssumption, SMTT(30)
     DEF Init, EnvTypeOK, ResetPorts, Ports, NothingIssued
<1> QED
  BY <1>1, <1>2, <1>3, Zenon DEF TypeOK

(* Every step keeps every register in its type.                            *)
LEMMA NextTypes == TypeOK /\ [Next]_vars => TypeOK'
<1> SUFFICES ASSUME TypeOK, [Next]_vars PROVE TypeOK'
  BY Zenon
<1>1. ASSUME NEW tready \in BOOLEAN, NEW beat \in Beats, NEW push \in Pushes,
             ClockEdge(tready, beat, push)
      PROVE  TypeOK'
  <2>1. beat.keep \in Nat
    BY BeatFacts, Zenon
  <2>2. FsmTypeOK'
    BY <1>1, <2>1, FsmTypes, Zenon DEF ClockEdge
  <2>3. RqTypeOK'
    BY <1>1, <2>1, <2>2, FreeRunningTypes, Zenon DEF ClockEdge, RqEdge, FsmTypeOK, RqTypeOK
  <2>4. RcTypeOK'
    BY <1>1, RcTypes, Zenon DEF ClockEdge
  <2>5. EnvTypeOK'
    BY <1>1, <2>2, EnvTypes, Zenon DEF FsmTypeOK
  <2> QED
    BY <2>3, <2>4, <2>5, Zenon DEF TypeOK
<1>2. CASE UserReset
  <2>1. RqTypeOK'
    BY <1>2, ZeroTag, Zenon DEF UserReset, RqReset, RqTypeOK, RqStates, BoundariesType
  <2>2. RcTypeOK'
    BY <1>2, ZeroTag, Zenon DEF UserReset, RcReset, RcTypeOK
  <2>3. EnvTypeOK'
    BY <1>2, ZeroTag, TagsAssumption, SMTT(30)
       DEF UserReset, TypeOK, EnvTypeOK, ResetPorts, Ports, NothingIssued
  <2> QED
    BY <2>1, <2>2, <2>3, Zenon DEF TypeOK
<1>3. CASE UNCHANGED vars
  BY <1>3, Zenon DEF vars, rqVars, rcVars, envVars, TypeOK, RqTypeOK, RcTypeOK, EnvTypeOK
<1> QED
  BY <1>1, <1>2, <1>3, Zenon DEF Next

(* The registers of both Verilog modules always have their types: no       *)
(* counter, occupancy or amount of words due ever goes below zero.         *)
THEOREM TypeCorrect == Spec => []TypeOK
  BY InitTypes, NextTypes, PTL DEF Spec

-----------------------------------------------------------------------------
(***************************************************************************)
(* What one clock edge does to the read path: the state machine and the    *)
(* manager, the issue of a request, and the host side of one tag.          *)
(***************************************************************************)

-----------------------------------------------------------------------------
(* The read path.                                                          *)

(* An idle or finished state machine stays in, or returns to, IDLE, and a  *)
(* state that issues or awaits reads is entered only by reading operations.*)
LEMMA FsmMoves ==
  ASSUME NEW tready \in BOOLEAN, NEW push, NEW keep,
         RqEdge(tready, completed_tags_r, ports, push, keep)
  PROVE  /\ wr_state = "IDLE" /\ ~(ports.ENGINE_VALID /\ ~end_of_operation)
              => wr_state' = "IDLE"
         /\ EndOfRead => wr_state' = "IDLE"
         /\ wr_state' \in {"INIT_READ", "WAIT_READ"} =>
              ports.s2c \/ wr_state \in {"INIT_READ", "WAIT_READ"}
         /\ wr_state' = "IDLE" /\ wr_state # "IDLE" => EndOfRead \/ ~ports.s2c
<1> DEFINE Goal ==
         /\ wr_state = "IDLE" /\ ~(ports.ENGINE_VALID /\ ~end_of_operation)
              => wr_state' = "IDLE"
         /\ EndOfRead => wr_state' = "IDLE"
         /\ wr_state' \in {"INIT_READ", "WAIT_READ"} =>
              ports.s2c \/ wr_state \in {"INIT_READ", "WAIT_READ"}
         /\ wr_state' = "IDLE" /\ wr_state # "IDLE" => EndOfRead \/ ~ports.s2c
<1>1. CASE StartWrite(tready, ports, push) \/ StartRead(tready, ports, push)
  BY <1>1, Zenon DEF StartWrite, StartRead, IdleEdge, StartCondition, EndOfRead
<1>2. CASE StayIdle(tready, ports, push)
  BY <1>2, Zenon DEF StayIdle, IdleEdge, EndOfRead
<1>3. CASE WriteWaits(tready, push) \/ ReadWaits(tready, push)
  BY <1>3, Zenon DEF WriteWaits, ReadWaits, EndOfRead
<1>4. FinishWriteTlp(ports) =>
        /\ wr_state' \in {"INIT_WRITE", "INIT_READ", "IDLE"}
        /\ wr_state' = "INIT_READ" => ports.s2c
        /\ wr_state' = "IDLE" => ~ports.s2c
  BY Zenon DEF FinishWriteTlp, AfterWriteTlp
<1>5. CASE WriteHeader(tready, ports, push)
  BY <1>4, <1>5, Zenon DEF WriteHeader, EndOfRead
<1>6. CASE WriteData(tready, ports, push) \/ WriteLastData(tready, ports, push)
  BY <1>4, <1>6, Zenon DEF WriteData, WriteLastData, EndOfRead
<1>7. CASE ReadRequest(tready, ports, push)
  BY <1>7, Zenon DEF ReadRequest, EndOfRead
<1>8. CASE WaitRead(tready, push)
  BY <1>8, Zenon DEF WaitRead
<1> QED
  BY <1>1, <1>2, <1>3, <1>5, <1>6, <1>7, <1>8, Zenon DEF RqEdge

(* The contract of the manager keeps the derived registers settled.        *)
LEMMA FsmStep ==
  ASSUME TypeOK, FsmInv, NEW tready \in BOOLEAN, NEW beat \in Beats,
         NEW push \in Pushes, ClockEdge(tready, beat, push)
  PROVE  FsmInv'
<1>1. /\ ports \in Ports /\ window_size_r \in Nat /\ C_WINDOW_SIZE \in Nat
  BY TagsAssumption, Zenon DEF TypeOK, EnvTypeOK, RqTypeOK
<1>2. /\ window_size_r' = ports.WINDOW
      /\ window_size_mask_r' = MinOf(window_size_r, C_WINDOW_SIZE)
      /\ boundaries' = BoundariesOf(ports)
  BY Zenon DEF ClockEdge, RqEdge, FreeRunning
<1>3. boundaries'.rd_odd > 0 /\ boundaries'.rd_odd < CountLimit
  BY <1>1, <1>2, BoundariesWellTyped, Zenon
<1>4. window_size_r = ports.WINDOW => window_size_mask_r' = ports.WINDOW
  BY <1>1, <1>2, SMTT(30) DEF FsmInv, MinOf
<1>5. /\ wr_state = "IDLE" /\ ~(ports.ENGINE_VALID /\ ~end_of_operation)
           => wr_state' = "IDLE"
      /\ EndOfRead => wr_state' = "IDLE"
      /\ wr_state' \in {"INIT_READ", "WAIT_READ"} =>
           ports.s2c \/ wr_state \in {"INIT_READ", "WAIT_READ"}
  BY FsmMoves, Zenon DEF ClockEdge
<1>6. CASE PortsHold
  <2>1. ports' = ports /\ ~(ports.ENGINE_VALID /\ end_of_operation)
    BY <1>6, Zenon DEF PortsHold
  <2> QED
    BY <1>2, <1>3, <1>4, <1>5, <2>1, Zenon DEF FsmInv
<1>7. CASE PortsConfigure
  <2>1. PICK op \in Operations, w \in Windows :
          ports' = [ENGINE_VALID |-> FALSE, c2s |-> op.c2s, s2c |-> op.s2c,
                    SIZE |-> op.SIZE, TLPS |-> op.TLPS, WINDOW |-> w]
    BY <1>7, Zenon DEF PortsConfigure
  <2>2. wr_state' = "IDLE" /\ w \in 1 .. C_WINDOW_SIZE
    BY <1>5, <1>7, TransferAssumption, Zenon DEF PortsConfigure
  <2> QED
    BY <2>1, <2>2, Zenon DEF FsmInv
<1>8. CASE PortsRaise
  <2>1. /\ wr_state' = "IDLE" /\ ports'.WINDOW = ports.WINDOW
        /\ window_size_r = ports.WINDOW
    BY <1>1, <1>5, <1>8, Zenon DEF PortsRaise, Settled, Ports
  <2> QED
    BY <1>2, <1>3, <1>4, <2>1, Zenon DEF FsmInv
<1>9. CASE PortsDrop
  <2>1. /\ ports'.ENGINE_VALID = FALSE /\ ports'.WINDOW = ports.WINDOW
        /\ wr_state' = "IDLE"
    BY <1>1, <1>5, <1>9, Zenon DEF PortsDrop, Ports, end_of_operation, EndOfWrite
  <2> QED
    BY <2>1, Zenon DEF FsmInv
<1> QED
  BY <1>6, <1>7, <1>8, <1>9, Zenon DEF ClockEdge, ManagerEdge

(* The ports hold their operation from its start to its end, and the       *)
(* bounds derived from them are those of the operation.                    *)
LEMMA OperationHeld ==
  ASSUME TypeOK, FsmInv, NEW tready \in BOOLEAN, NEW beat \in Beats,
         NEW push \in Pushes, ClockEdge(tready, beat, push)
  PROVE  /\ wr_state # "IDLE" \/ wr_state' # "IDLE" =>
              /\ ports.ENGINE_VALID
              /\ ports'.TLPS = ports.TLPS /\ ports'.s2c = ports.s2c
              /\ ports'.SIZE = ports.SIZE /\ ports'.c2s = ports.c2s
         /\ boundaries' = BoundariesOf(ports)
         /\ ports'.ENGINE_VALID => boundaries' = BoundariesOf(ports')
<1>1. ports \in Ports BY Zenon DEF TypeOK, EnvTypeOK
<1>2. boundaries' = BoundariesOf(ports) BY Zenon DEF ClockEdge, RqEdge, FreeRunning
<1>3. wr_state # "IDLE" \/ wr_state' # "IDLE" => ports.ENGINE_VALID
  BY FsmMoves, Zenon DEF ClockEdge, FsmInv
<1>4. CASE PortsHold BY <1>2, <1>3, <1>4, Zenon DEF PortsHold
<1>5. CASE PortsConfigure
  <2>1. ~ports'.ENGINE_VALID /\ ~ports.ENGINE_VALID BY <1>5, SMTT(30) DEF PortsConfigure
  <2> QED BY <1>2, <1>3, <2>1, Zenon
<1>6. CASE PortsRaise \/ PortsDrop
  <2>1. /\ ports'.TLPS = ports.TLPS /\ ports'.s2c = ports.s2c
        /\ ports'.SIZE = ports.SIZE /\ ports'.c2s = ports.c2s
    BY <1>1, <1>6, Zenon DEF PortsRaise, PortsDrop, Ports
  <2>2. BoundariesOf(ports') = BoundariesOf(ports)
    BY <2>1, Zenon DEF BoundariesOf, ReadMax
  <2> QED BY <1>2, <1>3, <2>1, <2>2, Zenon
<1> QED BY <1>4, <1>5, <1>6, Zenon DEF ClockEdge, ManagerEdge

-----------------------------------------------------------------------------
(* The write path, the statistics and the volume read.                     *)

(* Quotient and remainder.                                                 *)
LEMMA DivMod == \A a \in Nat, b \in Nat \ {0} : a = b * (a \div b) + (a % b)
  BY SMT

(* Quotient and remainder are determined by the sum they make.            *)
LEMMA DivModUnique ==
  ASSUME NEW q \in Nat, NEW r \in Nat, NEW b \in Nat \ {0}, r < b
  PROVE  (b * q + r) \div b = q /\ (b * q + r) % b = r
  BY SMT

(* A pass of s words is made of full TLPs of m words and of one last TLP   *)
(* with the odd words, at least one and at most m (boundaries of the       *)
(* requester).                                                             *)
LEMMA PassWords ==
  ASSUME NEW s \in Nat \ {0}, NEW m \in Nat \ {0}
  PROVE  /\ NumberEven(s, m) \in Nat \ {0}
         /\ s = (NumberEven(s, m) - 1) * m + OddWords(s, m)
         /\ s <= m => NumberEven(s, m) = 1
         /\ OddWords(s, m) \in 1 .. m
<1> DEFINE q == s \div m
           r == s % m
<1>1. r \in Nat /\ r < m /\ q \in Nat /\ s = m * q + r
  BY ModRange, DivNat, DivMod, SMTT(30)
<1>2. /\ NumberEven(s, m) = q + (IF r > 0 THEN 1 ELSE 0)
      /\ OddWords(s, m) = IF r > 0 THEN r ELSE m
  BY Zenon DEF NumberEven, OddWords
<1> HIDE DEF q, r
<1>3. CASE r > 0
  <2>1. NumberEven(s, m) = q + 1 /\ OddWords(s, m) = r
    BY <1>2, <1>3, Zenon
  <2> DEFINE w == m * q
  <2>2. w \in Nat /\ s = w + r /\ (q >= 1 => w >= m)
    BY <1>1, SMTT(30)
  <2> HIDE DEF w
  <2>3. s <= m => q = 0
    BY <1>1, <1>3, <2>2, SMTT(30)
  <2>4. s = q * m + r
    BY <1>1, SMTT(30)
  <2>5. /\ NumberEven(s, m) \in Nat \ {0} /\ NumberEven(s, m) - 1 = q
        /\ OddWords(s, m) \in 1 .. m /\ (q = 0 => NumberEven(s, m) = 1)
    BY <1>1, <1>3, <2>1, SMTT(30)
  <2> QED BY <2>1, <2>3, <2>4, <2>5, Zenon
<1>4. CASE r = 0
  <2>1. NumberEven(s, m) = q /\ OddWords(s, m) = m
    BY <1>1, <1>2, <1>4, SMTT(30)
  <2>2. q > 0 /\ s = m * q
    BY <1>1, <1>4, SMTT(30)
  <2>3. s <= m => q = 1
    BY <1>1, <2>2, SMTT(30)
  <2>4. m * q = (q - 1) * m + m
    BY <1>1, SMTT(30)
  <2> QED BY <1>1, <2>1, <2>2, <2>3, <2>4, SMTT(30)
<1> QED BY <1>1, <1>3, <1>4, SMTT(30)

(* The ports keep presenting a settled operation.                          *)
LEMMA PresentedStep ==
  ASSUME TypeOK, FsmInv, PresentedInv, NEW tready \in BOOLEAN,
         NEW beat \in Beats, NEW push \in Pushes,
         ClockEdge(tready, beat, push)
  PROVE  PresentedInv'
<1>1. /\ wr_state # "IDLE" \/ wr_state' # "IDLE" =>
           /\ ports.ENGINE_VALID
           /\ ports'.s2c = ports.s2c /\ ports'.c2s = ports.c2s
      /\ ports'.ENGINE_VALID => boundaries' = BoundariesOf(ports')
  BY OperationHeld, Zenon
<1>2. ports'.ENGINE_VALID => ports'.SIZE # 0
  <2>1. CASE PortsHold BY <2>1, Zenon DEF PortsHold, PresentedInv
  <2>2. CASE PortsConfigure BY <2>2, SMTT(30) DEF PortsConfigure
  <2>3. CASE PortsRaise \/ PortsDrop
    <3>1. ports \in Ports BY Zenon DEF TypeOK, EnvTypeOK
    <3> QED BY <2>3, <3>1, Zenon DEF PortsRaise, PortsDrop, Ports
  <2> QED BY <2>1, <2>2, <2>3, Zenon DEF ClockEdge, ManagerEdge
<1>3. wr_state' \in {"INIT_WRITE", "WRITE"} => ports.c2s
  <2>1. FinishWriteTlp(ports) => wr_state' \in {"INIT_WRITE", "INIT_READ", "IDLE"}
    BY Zenon DEF FinishWriteTlp, AfterWriteTlp
  <2>2. wr_state \in {"INIT_WRITE", "WRITE"} => ports.c2s
    BY Zenon DEF PresentedInv
  <2>3. CASE StartWrite(tready, ports, push) \/ StartRead(tready, ports, push)
    BY <2>3, Zenon DEF StartWrite, StartRead
  <2>4. CASE StayIdle(tready, ports, push)
    BY <2>4, Zenon DEF StayIdle
  <2>5. CASE WriteWaits(tready, push) \/ ReadWaits(tready, push)
    BY <2>2, <2>5, Zenon DEF WriteWaits, ReadWaits
  <2>6. CASE \/ WriteHeader(tready, ports, push) \/ WriteData(tready, ports, push)
             \/ WriteLastData(tready, ports, push)
    BY <2>2, <2>6, Zenon DEF WriteHeader, WriteData, WriteLastData
  <2>7. CASE ReadRequest(tready, ports, push)
    BY <2>7, Zenon DEF ReadRequest
  <2>8. CASE WaitRead(tready, push)
    BY <2>8, Zenon DEF WaitRead
  <2> QED
    BY <2>3, <2>4, <2>5, <2>6, <2>7, <2>8, Zenon DEF ClockEdge, RqEdge
<1>4. EndOfWrite' => ports'.ENGINE_VALID /\ ~ports'.s2c
  <2> SUFFICES ASSUME wr_state' = "IDLE", wr_state \in {"INIT_WRITE", "WRITE"}
               PROVE  ports'.ENGINE_VALID /\ ~ports'.s2c
    BY Zenon DEF EndOfWrite, ClockEdge, RqEdge, FreeRunning
  <2>1. ~end_of_operation
    BY Zenon DEF end_of_operation, EndOfRead, EndOfWrite
  <2>2. ~ports.s2c
    BY FsmMoves, Zenon DEF ClockEdge, EndOfRead
  <2>3. ports' = ports
    BY <1>1, <2>1, Zenon
       DEF ClockEdge, ManagerEdge, PortsHold, PortsConfigure, PortsRaise, PortsDrop
  <2> QED BY <1>1, <2>2, <2>3, Zenon
<1> QED
  BY <1>1, <1>2, <1>3, <1>4, Zenon DEF PresentedInv

(* The end of a write TLP prepares the next one, of this pass or of the    *)
(* next: the words to count down are those its header will announce.       *)
LEMMA FinishWrite ==
  ASSUME TypeOK, PresentedInv, ports.ENGINE_VALID, FinishWriteTlp(ports),
         boundaries' = BoundariesOf(ports),
         mem_wr_current_tlp_modulus_r \in 1 .. boundaries.wr_even
  PROVE  /\ wr_state' \in {"INIT_WRITE", "INIT_READ", "IDLE"}
         /\ mem_wr_current_tlp_modulus_r' \in 1 .. boundaries'.wr_even
         /\ mem_wr_remaining_words_r' = current_wr_tlp_words_s'
<1>1. boundaries' = boundaries
  BY Zenon DEF PresentedInv
<1>2. boundaries.wr_even \in Nat /\ mem_wr_current_tlp_modulus_r \in Nat
  BY Zenon DEF TypeOK, RqTypeOK, BoundariesType
<1>3. wr_state' \in {"INIT_WRITE", "INIT_READ", "IDLE"}
  BY Zenon DEF FinishWriteTlp, AfterWriteTlp
<1> QED
  BY <1>1, <1>2, <1>3, SMTT(30) DEF FinishWriteTlp, current_wr_tlp_words_s, LastWrOfPass

(* What the header of the first write TLP announces.                       *)
LEMMA FirstWrite ==
  ASSUME TypeOK, PresentedInv, ports.ENGINE_VALID
  PROVE  /\ boundaries.wr_even \in Nat \ {0}
         /\ boundaries.wr_odd \in 1 .. MaxPayload
         /\ MinOf(ports.SIZE, MaxPayload) =
              IF boundaries.wr_even = 1 THEN boundaries.wr_odd ELSE MaxPayload
<1>1. ports.SIZE \in Nat \ {0} /\ MaxPayload \in Nat \ {0}
  BY RqAssumption, Zenon DEF PresentedInv, TypeOK, EnvTypeOK, Ports
<1>2. /\ boundaries.wr_even = NumberEven(ports.SIZE, MaxPayload)
      /\ boundaries.wr_odd = OddWords(ports.SIZE, MaxPayload)
  BY SMTT(30) DEF PresentedInv, BoundariesOf
<1> DEFINE e == NumberEven(ports.SIZE, MaxPayload)
           o == OddWords(ports.SIZE, MaxPayload)
<1>3. /\ e \in Nat \ {0} /\ ports.SIZE = (e - 1) * MaxPayload + o
      /\ ports.SIZE <= MaxPayload => e = 1
      /\ o \in 1 .. MaxPayload
  BY <1>1, PassWords, Zenon
<1> HIDE DEF e, o
<1>4. e = 1 => ports.SIZE = o
  BY <1>1, <1>3, SMTT(30)
<1>5. MinOf(ports.SIZE, MaxPayload) = IF e = 1 THEN o ELSE MaxPayload
  BY <1>1, <1>3, <1>4, SMTT(30) DEF MinOf
<1>6. boundaries.wr_even = e /\ boundaries.wr_odd = o
  BY <1>2, Zenon DEF e, o
<1> QED BY <1>3, <1>5, <1>6, Zenon

(* A beat stays in the RQ registers until it is taken, and leaves them     *)
(* empty when no other follows.                                            *)
LEMMA QuietBeat ==
  ASSUME TypeOK, WriteInv, NEW tready \in BOOLEAN, RqStreamEdge(tready),
         axis_rq' = IF tready THEN NoBeat ELSE axis_rq
  PROVE  WriteTlpWellFormed' /\ WordsToCome' = WordsToCome
<1>1. CASE tready
  BY <1>1, Zenon DEF WriteTlpWellFormed, WordsToCome, RqStreamEdge, NoBeat
<1>2. CASE ~tready
  <2>1. axis_rq' = axis_rq /\ rqLeft' = rqLeft
    BY <1>2, Zenon DEF RqStreamEdge
  <2> QED BY <2>1, Zenon DEF WriteInv, WriteTlpWellFormed, WordsToCome
<1> QED BY <1>1, <1>2, Zenon

(* The write path is preserved by every clock edge.                        *)
LEMMA WriteStep ==
  ASSUME TypeOK, FsmInv, PresentedInv, WriteInv, NEW tready \in BOOLEAN,
         NEW beat \in Beats, NEW push \in Pushes,
         ClockEdge(tready, beat, push)
  PROVE  WriteInv'
<1> DEFINE rem == mem_wr_remaining_words_r
           mod == mem_wr_current_tlp_modulus_r
<1>1. /\ rem \in Nat /\ mod \in Nat /\ MaxPayload \in Nat \ {0}
      /\ rqLeft \in Int
  BY RqAssumption, Zenon DEF TypeOK, RqTypeOK, EnvTypeOK
<1>2. RqStreamEdge(tready) /\ boundaries' = BoundariesOf(ports)
  BY Zenon DEF ClockEdge, RqEdge, FreeRunning
<1>3. wr_state # "IDLE" \/ wr_state' # "IDLE" => ports.ENGINE_VALID
  BY OperationHeld, Zenon
<1>4. ports.ENGINE_VALID => boundaries' = boundaries
  BY <1>2, Zenon DEF PresentedInv
<1>5. ASSUME wr_state \in {"INIT_WRITE", "INIT_READ"}
      PROVE  rem = current_wr_tlp_words_s /\ rem > 0 /\ WordsToCome = 0
  BY <1>1, <1>3, <1>5, FirstWrite, SMTT(30) DEF WriteInv, current_wr_tlp_words_s
<1>6. CASE \/ StartWrite(tready, ports, push) \/ StartRead(tready, ports, push)
           \/ StayIdle(tready, ports, push)
  <2>1. IdleEdge(tready, ports, push)
    BY <1>6, Zenon DEF StartWrite, StartRead, StayIdle
  <2>2. WriteTlpWellFormed' /\ WordsToCome' = 0
    BY <1>2, <2>1, QuietBeat, Zenon DEF IdleEdge, WriteInv
  <2>3. wr_state' \in {"IDLE", "INIT_WRITE", "INIT_READ"}
    BY <1>6, Zenon DEF StartWrite, StartRead, StayIdle
  <2>4. wr_state' # "IDLE" => tready /\ ports.ENGINE_VALID
    BY <1>6, Zenon DEF StartWrite, StartRead, StayIdle, StartCondition
  <2>5. ASSUME wr_state' # "IDLE"
        PROVE  /\ mod' \in 1 .. boundaries'.wr_even
               /\ rem' = current_wr_tlp_words_s'
    <3>1. mod' = 1 /\ rem' = MinOf(ports.SIZE, MaxPayload)
      BY <2>1, <2>4, <2>5, Zenon DEF IdleEdge
    <3>2. /\ boundaries' = boundaries /\ boundaries.wr_even \in Nat \ {0}
          /\ rem' = IF boundaries.wr_even = 1 THEN boundaries.wr_odd ELSE MaxPayload
      BY <1>4, <2>4, <2>5, <3>1, FirstWrite, Zenon
    <3> QED BY <3>1, <3>2, SMTT(30) DEF current_wr_tlp_words_s, LastWrOfPass
  <2> QED BY <2>2, <2>3, <2>5, Zenon DEF WriteInv
<1>7. CASE \/ WriteWaits(tready, push) \/ ReadWaits(tready, push)
           \/ WaitRead(tready, push)
  <2>1. /\ axis_rq' = IF tready THEN NoBeat ELSE axis_rq
        /\ rem' = rem /\ mod' = mod
        /\ wr_state' \in {wr_state, "IDLE"} /\ wr_state # "IDLE"
        /\ wr_state = "WRITE" => wr_state' = "WRITE"
    <3>1. CASE WriteWaits(tready, push)
      BY <3>1, Zenon DEF WriteWaits, wrTlpVars
    <3>2. CASE ReadWaits(tready, push)
      BY <3>2, Zenon DEF ReadWaits, wrTlpVars
    <3>3. CASE WaitRead(tready, push)
      BY <3>3, Zenon DEF WaitRead, wrTlpVars
    <3> QED BY <1>7, <3>1, <3>2, <3>3, Zenon
  <2>2. WriteTlpWellFormed' /\ WordsToCome' = WordsToCome
    BY <1>2, <2>1, QuietBeat, Zenon
  <2>3. boundaries' = boundaries
    BY <1>3, <1>4, <2>1, Zenon
  <2>4. current_wr_tlp_words_s' = current_wr_tlp_words_s
    BY <2>1, <2>3, Zenon DEF current_wr_tlp_words_s, LastWrOfPass
  <2> QED BY <2>1, <2>2, <2>3, <2>4, Zenon DEF WriteInv
<1>8. CASE ReadRequest(tready, ports, push)
  <2>1. /\ axis_rq'.tvalid /\ axis_rq'.kind = "rd" /\ tready
        /\ rem' = rem /\ mod' = mod
        /\ wr_state' \in {"WAIT_READ", "INIT_READ", "INIT_WRITE"}
        /\ wr_state = "INIT_READ"
    BY <1>8, Zenon DEF ReadRequest, wrTlpVars
  <2>2. rqLeft' = 0
    BY <1>2, <1>5, <2>1, Zenon DEF RqStreamEdge
  <2>3. WriteTlpWellFormed' /\ WordsToCome' = 0
    BY <2>1, <2>2, Zenon DEF WriteTlpWellFormed, WordsToCome
  <2>4. boundaries' = boundaries
    BY <1>3, <1>4, <2>1, Zenon
  <2>5. current_wr_tlp_words_s' = current_wr_tlp_words_s
    BY <2>1, <2>4, Zenon DEF current_wr_tlp_words_s, LastWrOfPass
  <2> QED BY <2>1, <2>3, <2>4, <2>5, Zenon DEF WriteInv
<1>9. CASE WriteHeader(tready, ports, push)
  <2>1. /\ tready /\ wr_state = "INIT_WRITE"
        /\ rqLeft' = 0 /\ rem = current_wr_tlp_words_s /\ rem > 0
    BY <1>2, <1>5, <1>9, Zenon DEF RqStreamEdge, WriteHeader
  <2>2. /\ axis_rq'.tvalid /\ axis_rq'.kind = "wr" /\ axis_rq'.words = rem
        /\ axis_rq'.keep = IF rem <= 4 THEN 4 + MinOf(rem % 16, 4) ELSE 8
        /\ axis_rq'.tlast <=> rem <= 4
    BY <1>9, <2>1, Zenon DEF WriteHeader, last_word_at_tlp_s, mem_wr_next_remainder
  <2>3. rem <= 4 => MinOf(rem % 16, 4) = rem
    BY <1>1, ModSmall, SMTT(30) DEF MinOf
  <2>4. axis_rq'.keep = IF rem <= 4 THEN 4 + rem ELSE 8
    BY <2>2, <2>3, Zenon
  <2>5. WriteTlpWellFormed' /\ WordsToCome' = IF rem <= 4 THEN 0 ELSE rem - 4
    <3>1. CASE rem <= 4
      <4>1. axis_rq'.keep - 4 = rem /\ rem - rem = 0 /\ rem >= rem
        BY <1>1, <2>4, <3>1, SMTT(30)
      <4>2. axis_rq'.tlast
        BY <2>2, <3>1, Zenon
      <4> QED BY <2>1, <2>2, <3>1, <4>1, <4>2, Zenon DEF WriteTlpWellFormed, WordsToCome
    <3>2. CASE ~(rem <= 4)
      <4>1. axis_rq'.keep - 4 = 4 /\ rem >= 4 /\ rem # 4
        BY <1>1, <2>4, <3>2, SMTT(30)
      <4>2. ~axis_rq'.tlast
        BY <2>2, <3>2, Zenon
      <4> QED BY <2>1, <2>2, <3>2, <4>1, <4>2, Zenon DEF WriteTlpWellFormed, WordsToCome
    <3> QED BY <3>1, <3>2, Zenon
  <2>6. ports.ENGINE_VALID /\ boundaries' = boundaries /\ mod \in 1 .. boundaries.wr_even
    BY <1>3, <1>4, <2>1, Zenon DEF WriteInv
  <2>7. CASE rem <= 4
    <3>1. FinishWriteTlp(ports)
      BY <1>9, <2>7, Zenon DEF WriteHeader, last_word_at_tlp_s
    <3> QED
      BY <1>2, <2>5, <2>6, <2>7, <3>1, FinishWrite, Zenon DEF WriteInv
  <2>8. CASE ~(rem <= 4)
    <3>1. wr_state' = "WRITE" /\ rem' = rem - 4 /\ mod' = mod
      BY <1>9, <2>8, Zenon DEF WriteHeader, last_word_at_tlp_s, wrTlpVars
    <3> QED
      BY <1>1, <2>5, <2>6, <2>8, <3>1, SMTT(30) DEF WriteInv
  <2> QED BY <2>7, <2>8, Zenon
<1>10. CASE WriteData(tready, ports, push)
  <2>1. /\ tready /\ wr_state = "WRITE" /\ rem > 8 /\ rqLeft' = rem
    BY <1>1, <1>2, <1>10, SMTT(30)
       DEF RqStreamEdge, WriteData, WriteInv, last_two_words_at_tlp_s
  <2>2. /\ axis_rq'.tvalid /\ axis_rq'.kind = "data" /\ axis_rq'.keep = 8
        /\ axis_rq'.tlast = FALSE
        /\ wr_state' = "WRITE" /\ rem' = rem - 8 /\ mod' = mod
    BY <1>10, Zenon DEF WriteData, NoBeat, wrTlpVars
  <2>3. WriteTlpWellFormed' /\ WordsToCome' = rem - 8
    BY <1>1, <2>1, <2>2, SMTT(30) DEF WriteTlpWellFormed, WordsToCome
  <2>4. boundaries' = boundaries /\ mod \in 1 .. boundaries.wr_even
    BY <1>3, <1>4, <2>1, Zenon DEF WriteInv
  <2> QED BY <1>1, <2>1, <2>2, <2>3, <2>4, SMTT(30) DEF WriteInv
<1>11. CASE WriteLastData(tready, ports, push)
  <2>1. /\ tready /\ wr_state = "WRITE" /\ rem > 0 /\ rem <= 8 /\ rqLeft' = rem
    BY <1>1, <1>2, <1>11, SMTT(30)
       DEF RqStreamEdge, WriteLastData, WriteInv, last_two_words_at_tlp_s,
           last_word_at_tlp_s
  <2>2. MinOf(mem_wr_next_remainder, 8) = rem
    BY <1>1, <2>1, ModSmall, SMTT(30) DEF MinOf, mem_wr_next_remainder
  <2>3. /\ axis_rq'.tvalid /\ axis_rq'.kind = "data" /\ axis_rq'.keep = rem
        /\ axis_rq'.tlast = TRUE /\ FinishWriteTlp(ports)
    BY <1>11, <2>2, Zenon DEF WriteLastData, NoBeat
  <2>4. WriteTlpWellFormed' /\ WordsToCome' = 0
    BY <1>1, <2>1, <2>3, SMTT(30) DEF WriteTlpWellFormed, WordsToCome
  <2>5. ports.ENGINE_VALID /\ mod \in 1 .. boundaries.wr_even
    BY <1>3, <2>1, Zenon DEF WriteInv
  <2> QED BY <1>2, <2>3, <2>4, <2>5, FinishWrite, Zenon DEF WriteInv
<1> QED
  BY <1>6, <1>7, <1>8, <1>9, <1>10, <1>11, Zenon DEF ClockEdge, RqEdge

(* The position in a pass of e TLPs after one more TLP: the next one, or   *)
(* the start of a new pass.                                                *)
LEMMA NextOfPass ==
  ASSUME NEW n \in Nat, NEW e \in Nat \ {0}
  PROVE  /\ (n % e) + 1 = e => (n + 1) \div e = (n \div e) + 1 /\ (n + 1) % e = 0
         /\ (n % e) + 1 # e => (n + 1) \div e = n \div e /\ (n + 1) % e = (n % e) + 1
<1> DEFINE q == n \div e
           r == n % e
<1>1. r \in Nat /\ r < e /\ q \in Nat /\ n = e * q + r
  BY ModRange, DivNat, DivMod, SMTT(30)
<1> HIDE DEF q, r
<1>2. r + 1 = e => (n + 1) \div e = q + 1 /\ (n + 1) % e = 0
  <2>1. r + 1 = e => n + 1 = e * (q + 1) + 0
    BY <1>1, SMTT(30)
  <2>2. (e * (q + 1) + 0) \div e = q + 1 /\ (e * (q + 1) + 0) % e = 0
    BY <1>1, DivModUnique, SMTT(30)
  <2> QED BY <2>1, <2>2, Zenon
<1>3. r + 1 # e => (n + 1) \div e = q /\ (n + 1) % e = r + 1
  <2>1. n + 1 = e * q + (r + 1)
    BY <1>1, SMTT(30)
  <2>2. r + 1 # e => (e * q + (r + 1)) \div e = q /\ (e * q + (r + 1)) % e = r + 1
    <3>1. r + 1 \in Nat /\ (r + 1 # e => r + 1 < e)
      BY <1>1, SMTT(30)
    <3> QED BY <1>1, <3>1, DivModUnique, Zenon
  <2> QED BY <2>1, <2>2, Zenon
<1> QED BY <1>2, <1>3, Zenon DEF q, r

(* One more TLP adds the odd words to the volume the benchmark counts when *)
(* it ends its pass, and a full TLP otherwise.                             *)
LEMMA VolumeGrows ==
  ASSUME NEW n \in Nat, NEW s \in Nat \ {0}, NEW m \in Nat \ {0}
  PROVE  BenchmarkVolume(n + 1, s, m) =
           BenchmarkVolume(n, s, m)
             + (IF (n % NumberEven(s, m)) + 1 = NumberEven(s, m)
                THEN OddWords(s, m) ELSE m)
<1> DEFINE e == NumberEven(s, m)
           o == OddWords(s, m)
           q == n \div e
           r == n % e
<1>1. /\ e \in Nat \ {0} /\ s = (e - 1) * m + o /\ o \in 1 .. m
  BY PassWords, Zenon
<1>2. /\ \A k \in Nat : BenchmarkVolume(k, s, m) = (k \div e) * s + (k % e) * m
      /\ n + 1 \in Nat
  BY SMTT(30) DEF BenchmarkVolume
<1> HIDE DEF e, o
<1>3. q \in Nat /\ r \in Nat /\ r < e
  BY <1>1, ModRange, DivNat, SMTT(30)
<1>4. BenchmarkVolume(n, s, m) = q * s + r * m
  BY <1>2, Zenon
<1>5. CASE r + 1 = e
  <2>1. (n + 1) \div e = q + 1 /\ (n + 1) % e = 0
    BY <1>1, <1>5, NextOfPass, Zenon
  <2>2. BenchmarkVolume(n + 1, s, m) = (q + 1) * s + 0 * m
    BY <1>2, <2>1, Zenon
  <2> HIDE DEF q, r
  <2>3. r = e - 1 /\ s = r * m + o
    BY <1>1, <1>3, <1>5, SMTT(30)
  <2>4. (q + 1) * s + 0 * m = q * s + s
    BY <1>3, SMTT(30)
  <2>5. BenchmarkVolume(n + 1, s, m) = BenchmarkVolume(n, s, m) + o
    BY <1>1, <1>3, <1>4, <2>2, <2>3, <2>4, SMTT(30)
  <2> QED BY <1>5, <2>5, Zenon DEF e, o, r
<1>6. CASE r + 1 # e
  <2>1. (n + 1) \div e = q /\ (n + 1) % e = r + 1
    BY <1>1, <1>6, NextOfPass, Zenon
  <2>2. BenchmarkVolume(n + 1, s, m) = q * s + (r + 1) * m
    BY <1>2, <2>1, Zenon
  <2> HIDE DEF q, r
  <2>3. BenchmarkVolume(n + 1, s, m) = BenchmarkVolume(n, s, m) + m
    BY <1>3, <1>4, <2>2, SMTT(30)
  <2> QED BY <1>6, <2>3, Zenon DEF e, o, r
<1> QED BY <1>5, <1>6, Zenon

(* What a clock edge does to the state machine and the RQ registers.       *)
LEMMA RqMoves ==
  ASSUME NEW tready \in BOOLEAN, NEW push, NEW keep,
         RqEdge(tready, completed_tags_r, ports, push, keep)
  PROVE  /\ tready \/ axis_rq' = axis_rq
         /\ wr_state = "IDLE" /\ tready => ~axis_rq'.tvalid
         /\ wr_state = "IDLE" =>
              /\ wr_state' \in {"IDLE", "INIT_WRITE", "INIT_READ"}
              /\ wr_state' # "IDLE" =>
                   tready /\ ~end_of_operation_r /\ ~end_of_operation
         /\ wr_state \in {"INIT_WRITE", "INIT_READ"} /\ ~tready => wr_state' = wr_state
         /\ wr_state = "INIT_READ" => wr_state' # "IDLE"
         /\ wr_state = "WAIT_READ" =>
              /\ wr_state' = (IF EndOfRead THEN "IDLE" ELSE "WAIT_READ")
              /\ tready => ~axis_rq'.tvalid
         /\ wr_state = "WRITE" => wr_state' # "WAIT_READ"
<1>1. CASE StartWrite(tready, ports, push) \/ StartRead(tready, ports, push)
  BY <1>1, SMTT(30) DEF StartWrite, StartRead, IdleEdge, StartCondition, NoBeat
<1>2. CASE StayIdle(tready, ports, push)
  BY <1>2, Zenon DEF StayIdle, IdleEdge, NoBeat
<1>3. CASE WriteWaits(tready, push) \/ ReadWaits(tready, push)
  BY <1>3, Zenon DEF WriteWaits, ReadWaits
<1>4. CASE WriteHeader(tready, ports, push)
  BY <1>4, Zenon DEF WriteHeader
<1>5. CASE WriteData(tready, ports, push)
  BY <1>5, Zenon DEF WriteData
<1>6. CASE WriteLastData(tready, ports, push)
  BY <1>6, Zenon DEF WriteLastData, FinishWriteTlp, AfterWriteTlp
<1>7. CASE ReadRequest(tready, ports, push)
  BY <1>7, Zenon DEF ReadRequest
<1>8. CASE WaitRead(tready, push)
  BY <1>8, Zenon DEF WaitRead, NoBeat
<1> QED
  BY <1>1, <1>2, <1>3, <1>4, <1>5, <1>6, <1>7, <1>8, Zenon DEF RqEdge

(* The statistics follow the RQ stream by one beat.                        *)
LEMMA StatisticsStep ==
  ASSUME TypeOK, FsmInv, PresentedInv, StatisticsInv,
         NEW tready \in BOOLEAN, NEW beat \in Beats, NEW push \in Pushes,
         ClockEdge(tready, beat, push)
  PROVE  StatisticsInv'
<1> DEFINE running == wr_state \in {"INIT_WRITE", "INIT_READ"} /\ tready
           sum == bytes_req_r + WaitingBeat
<1>1. /\ stop_latency' <=> ~running /\ (end_of_operation \/ stop_latency)
      /\ update_latency_r' <=> ~running /\ end_of_operation
      /\ bytes_req_r' = IF stop_latency THEN 0
                        ELSE bytes_req_r + (IF tready THEN WaitingBeat ELSE 0)
      /\ wr_state_pipe_r' = wr_state
      /\ end_of_operation => end_of_operation_r'
  <2>1. LatencyEdge(tready, ports, beat.keep)
    BY Zenon DEF ClockEdge, RqEdge, FreeRunning
  <2>2. /\ wr_state = "INIT_WRITE" => ports.c2s
        /\ wr_state = "INIT_READ" => ports.s2c
    BY Zenon DEF PresentedInv, FsmInv
  <2>3. /\ wr_state_pipe_r' = wr_state
        /\ end_of_operation => end_of_operation_r'
    BY Zenon DEF ClockEdge, RqEdge, FreeRunning
  <2>4. bytes_req_r' = IF stop_latency THEN 0
                       ELSE bytes_req_r + (IF tready THEN WaitingBeat ELSE 0)
    BY <2>1, Zenon DEF LatencyEdge, WaitingBeat
  <2> QED BY <2>1, <2>2, <2>3, <2>4, Zenon DEF LatencyEdge
<1>2. /\ bytes_req_r \in Nat /\ WaitingBeat \in Nat /\ WaitingBeat' \in Nat
      /\ issued \in [dwords : Nat, wr : Nat, rd : Nat, answers : Nat]
  <2>1. TypeOK'
    BY NextTypes, Zenon DEF Next
  <2> QED BY <2>1, Zenon DEF TypeOK, RqTypeOK, EnvTypeOK, RqBeats, WaitingBeat
<1>3. /\ ~tready => axis_rq' = axis_rq /\ WaitingBeat' = WaitingBeat
      /\ wr_state \in {"IDLE", "WAIT_READ"} /\ tready => WaitingBeat' = 0
  BY RqMoves, Zenon DEF ClockEdge, WaitingBeat
<1>4. wr_state # "IDLE" =>
        /\ issued'.dwords = issued.dwords + (IF tready THEN WaitingBeat' ELSE 0)
        /\ ~tready => issued'.rd = issued.rd
  BY <1>2, SMTT(30) DEF ClockEdge, IssuedEdge, WaitingBeat
<1>5. wr_state = "IDLE" =>
        issued' = IF update_latency_r THEN NothingIssued ELSE issued
  BY Zenon DEF ClockEdge, IssuedEdge
<1>6. CASE wr_state = "IDLE" /\ EndOfWrite
  <2>1. end_of_operation /\ ~running /\ ~stop_latency /\ ~update_latency_r
    BY <1>6, Zenon DEF StatisticsInv, end_of_operation
  <2>2. wr_state' = "IDLE" /\ ~EndOfWrite'
    BY <1>1, <1>6, <2>1, RqMoves, Zenon DEF ClockEdge, EndOfWrite
  <2>3. bytes_req_r' + WaitingBeat' = issued'.dwords
    BY <1>1, <1>2, <1>3, <1>5, <1>6, <2>1, SMTT(30) DEF StatisticsInv
  <2> QED BY <1>1, <2>1, <2>2, <2>3, Zenon DEF StatisticsInv
<1>7. CASE wr_state = "IDLE" /\ ~EndOfWrite
  <2>1. ~end_of_operation /\ ~running /\ stop_latency
    BY <1>7, Zenon DEF StatisticsInv, end_of_operation, EndOfRead
  <2>2. stop_latency' /\ ~update_latency_r'
    BY <1>1, <2>1, Zenon
  <2>3. issued'.dwords = 0 /\ issued'.rd = 0
    BY <1>5, <1>7, <2>1, SMTT(30) DEF StatisticsInv, NothingIssued
  <2>4. /\ wr_state' \in {"IDLE", "INIT_WRITE", "INIT_READ"} /\ ~EndOfWrite'
        /\ wr_state' # "IDLE" => ~axis_rq'.tvalid
    BY <1>1, <1>7, RqMoves, Zenon DEF ClockEdge, EndOfWrite
  <2> QED BY <2>2, <2>3, <2>4, Zenon DEF StatisticsInv
<1>8. CASE wr_state # "IDLE" /\ running
  <2>1. ~stop_latency' /\ ~update_latency_r' /\ ~update_latency_r /\ tready
    BY <1>1, <1>8, Zenon DEF StatisticsInv
  <2>2. bytes_req_r' + WaitingBeat' = issued'.dwords
    <3>1. CASE stop_latency
      <4>1. issued.dwords = 0 /\ bytes_req_r' = 0
        BY <1>1, <2>1, <3>1, Zenon DEF StatisticsInv
      <4> QED BY <1>2, <1>4, <1>8, <2>1, <4>1, Zenon
    <3>2. CASE ~stop_latency
      BY <1>1, <1>2, <1>4, <1>8, <2>1, <3>2, Zenon DEF StatisticsInv
    <3> QED BY <3>1, <3>2, Zenon
  <2>3. wr_state' = "IDLE" => EndOfWrite'
    BY <1>1, <1>8, RqMoves, Zenon DEF ClockEdge, EndOfWrite
  <2> QED BY <2>1, <2>2, <2>3, Zenon DEF StatisticsInv
<1>9. CASE wr_state # "IDLE" /\ ~running /\ stop_latency
  <2>1. ~tready /\ wr_state \in {"INIT_WRITE", "INIT_READ"} /\ ~update_latency_r
    BY <1>9, Zenon DEF StatisticsInv
  <2>2. wr_state' = wr_state /\ ~end_of_operation /\ axis_rq' = axis_rq
    BY <2>1, RqMoves, Zenon DEF ClockEdge, end_of_operation, EndOfRead, EndOfWrite
  <2>3. stop_latency' /\ ~update_latency_r'
    BY <1>1, <1>9, <2>2, Zenon
  <2>4. issued'.dwords = 0 /\ issued'.rd = 0
    BY <1>2, <1>4, <1>9, <2>1, SMTT(30) DEF StatisticsInv
  <2> QED
    BY <1>9, <2>1, <2>2, <2>3, <2>4, Zenon DEF StatisticsInv, EndOfWrite
<1>10. CASE wr_state # "IDLE" /\ ~running /\ ~stop_latency
  <2>1. bytes_req_r' + WaitingBeat' = issued'.dwords
    BY <1>1, <1>2, <1>3, <1>4, <1>10, SMTT(30) DEF StatisticsInv
  <2>2. CASE end_of_operation
    <3>1. EndOfRead /\ wr_state = "WAIT_READ"
      BY <1>10, <2>2, Zenon DEF end_of_operation, EndOfRead, EndOfWrite
    <3>2. wr_state' = "IDLE" /\ ~EndOfWrite'
      BY <1>1, <3>1, RqMoves, Zenon DEF ClockEdge, EndOfWrite
    <3> QED BY <1>1, <1>10, <2>1, <2>2, <3>2, Zenon DEF StatisticsInv
  <2>3. CASE ~end_of_operation
    <3>1. ~stop_latency' /\ ~update_latency_r'
      BY <1>1, <1>10, <2>3, Zenon
    <3>2. wr_state' = "IDLE" => EndOfWrite'
      <4>1. wr_state \in {"INIT_WRITE", "WRITE", "INIT_READ", "WAIT_READ"}
        BY <1>10, Zenon DEF TypeOK, RqTypeOK, RqStates
      <4> QED
        BY <1>1, <2>3, <4>1, RqMoves, Zenon DEF ClockEdge, EndOfWrite, end_of_operation
    <3> QED BY <2>1, <3>1, <3>2, Zenon DEF StatisticsInv
  <2> QED BY <2>2, <2>3, Zenon
<1> QED BY <1>6, <1>7, <1>8, <1>9, <1>10, Zenon

(* A clock edge that sends no read request adds nothing to the volume.     *)
LEMMA NoRequest ==
  ASSUME TypeOK, NEW tready \in BOOLEAN, NEW beat \in Beats, NEW push \in Pushes,
         ClockEdge(tready, beat, push), wr_state # "IDLE",
         ~ReadRequest(tready, ports, push)
  PROVE  /\ issued'.rd = issued.rd
         /\ mem_rd_current_tlp_r' = mem_rd_current_tlp_r
         /\ mem_rd_current_tlp_modulus_r' = mem_rd_current_tlp_modulus_r
         /\ wr_state' = "WAIT_READ" <=> wr_state = "WAIT_READ" /\ wr_state' # "IDLE"
<1> DEFINE Goal == /\ ~(tready /\ axis_rq'.tvalid /\ axis_rq'.kind = "rd")
                   /\ rdTlpVars' = rdTlpVars
                   /\ wr_state' = "WAIT_READ" <=>
                        wr_state = "WAIT_READ" /\ wr_state' # "IDLE"
<1> SUFFICES Goal
  <2>1. issued.rd \in Nat
    BY Zenon DEF TypeOK, EnvTypeOK
  <2> QED BY <2>1, SMTT(30) DEF ClockEdge, IssuedEdge, rdTlpVars
<1>1. CASE WriteWaits(tready, push) \/ ReadWaits(tready, push)
  BY <1>1, SMTT(30) DEF WriteWaits, ReadWaits, NoBeat, rdTlpVars
<1>2. CASE WaitRead(tready, push)
  BY <1>2, Zenon DEF WaitRead, NoBeat, rdTlpVars
<1>3. FinishWriteTlp(ports) => wr_state' # "WAIT_READ"
  BY Zenon DEF FinishWriteTlp, AfterWriteTlp
<1>4. CASE WriteHeader(tready, ports, push)
  BY <1>3, <1>4, Zenon DEF WriteHeader, rdTlpVars
<1>5. CASE WriteData(tready, ports, push)
  BY <1>5, Zenon DEF WriteData, NoBeat, rdTlpVars
<1>6. CASE WriteLastData(tready, ports, push)
  BY <1>3, <1>6, Zenon DEF WriteLastData, NoBeat, rdTlpVars
<1>7. ~IdleEdge(tready, ports, push)
  BY Zenon DEF IdleEdge
<1> QED
  BY <1>1, <1>2, <1>4, <1>5, <1>6, <1>7, Zenon
     DEF ClockEdge, RqEdge, StartWrite, StartRead, StayIdle

(* The volume read is preserved by every clock edge.                       *)
LEMMA VolumeStep ==
  ASSUME TypeOK, FsmInv, PresentedInv, StatisticsInv, VolumeInv,
         NEW tready \in BOOLEAN, NEW beat \in Beats, NEW push \in Pushes,
         ClockEdge(tready, beat, push)
  PROVE  VolumeInv'
<1> DEFINE cur == mem_rd_current_tlp_r
           mod == mem_rd_current_tlp_modulus_r
           Volume(p, n) == BenchmarkVolume(n, p.SIZE, ReadMax(p))
           Progress == /\ cur >= 1
                       /\ mod = ((cur - 1) % boundaries.rd_even) + 1
                       /\ issued.rd = Volume(ports, cur - 1)
                       /\ IF wr_state = "WAIT_READ" THEN cur = TlpsOf(ports) + 1
                          ELSE cur <= TlpsOf(ports)
<1>1. /\ cur \in Nat /\ mod \in Nat /\ ports.TLPS \in Nat /\ ports.SIZE \in Nat
      /\ ReadMax(ports) \in Nat \ {0} /\ TlpsOf(ports) \in Nat \ {0}
      /\ issued.rd \in Nat
  BY BoundariesWellTyped, SMTT(30) DEF TypeOK, RqTypeOK, EnvTypeOK, Ports, TlpsOf
<1>2. wr_state # "IDLE" \/ wr_state' # "IDLE" =>
        /\ ports.ENGINE_VALID /\ ports'.s2c = ports.s2c
        /\ TlpsOf(ports') = TlpsOf(ports)
        /\ \A n : Volume(ports', n) = Volume(ports, n)
        /\ boundaries' = boundaries
  BY OperationHeld, Zenon DEF PresentedInv, TlpsOf, ReadMax
<1>3. ports.ENGINE_VALID =>
        /\ boundaries.rd_even = NumberEven(ports.SIZE, ReadMax(ports))
        /\ boundaries.rd_odd = OddWords(ports.SIZE, ReadMax(ports))
        /\ boundaries.total = ports.TLPS
        /\ boundaries.rd_even \in Nat \ {0}
        /\ ports.SIZE \in Nat \ {0}
  <2>1. ports.ENGINE_VALID => ports.SIZE \in Nat \ {0}
    BY <1>1, Zenon DEF PresentedInv
  <2>2. ports.ENGINE_VALID => NumberEven(ports.SIZE, ReadMax(ports)) \in Nat \ {0}
    BY <1>1, <2>1, PassWords, Zenon
  <2> QED BY <2>1, <2>2, SMTT(30) DEF PresentedInv, BoundariesOf
<1>4. wr_state # "IDLE" => Progress
  BY Zenon DEF VolumeInv
<1>5. ASSUME wr_state = "IDLE", wr_state' # "IDLE" PROVE Progress'
  <2>1. /\ tready /\ ~end_of_operation /\ ~end_of_operation_r
        /\ wr_state' \in {"INIT_WRITE", "INIT_READ"}
    BY <1>5, RqMoves, Zenon DEF ClockEdge
  <2>2. issued'.rd = 0
    BY <1>5, <2>1, Zenon DEF StatisticsInv, end_of_operation, ClockEdge, IssuedEdge
  <2>3. cur' = 1 /\ mod' = 1
    BY <1>5, <2>1, Zenon
       DEF ClockEdge, RqEdge, StartWrite, StartRead, StayIdle, IdleEdge, WriteWaits,
           WriteHeader, WriteData, WriteLastData, ReadWaits, ReadRequest, WaitRead
  <2>4. 1 - 1 = 0 /\ \A e \in Nat \ {0} : 0 % e = 0 /\ 0 \div e = 0
    BY SMT
  <2>5. Volume(ports, 0) = 0
    BY <1>1, <1>2, <1>3, <1>5, <2>4, SMTT(30) DEF BenchmarkVolume
  <2>6. /\ cur' - 1 = 0 /\ mod' = ((cur' - 1) % boundaries'.rd_even) + 1
        /\ cur' >= 1 /\ cur' <= TlpsOf(ports')
    BY <1>1, <1>2, <1>3, <1>5, <2>3, <2>4, SMTT(30)
  <2> QED BY <1>2, <1>5, <2>1, <2>2, <2>5, <2>6, Zenon
<1>6. ASSUME ReadRequest(tready, ports, push) PROVE Progress'
  <2>1. /\ cur' = cur + 1
        /\ mod' = IF boundaries.rd_even = mod THEN 1 ELSE mod + 1
        /\ wr_state = "INIT_READ"
        /\ wr_state' = "WAIT_READ" <=> ports.TLPS <= cur
        /\ wr_state' # "IDLE"
        /\ tready /\ axis_rq'.tvalid /\ axis_rq'.kind = "rd"
        /\ axis_rq'.words = current_rd_tlp_words_s(ports)
    BY <1>2, <1>3, <1>6, Zenon DEF ReadRequest, LastRdOfPass
  <2> DEFINE n == cur - 1
             e == boundaries.rd_even
  <2>2. n \in Nat /\ n + 1 = cur' - 1 /\ mod = (n % e) + 1 /\ cur' >= 1
    BY <1>1, <1>4, <2>1, SMTT(30)
  <2>3. issued'.rd = issued.rd + current_rd_tlp_words_s(ports)
    BY <1>1, <2>1, Zenon DEF ClockEdge, IssuedEdge
  <2>4. current_rd_tlp_words_s(ports) =
          IF (n % e) + 1 = e THEN boundaries.rd_odd ELSE ReadMax(ports)
    BY <2>2, Zenon DEF current_rd_tlp_words_s, LastRdOfPass
  <2>5. e = NumberEven(ports.SIZE, ReadMax(ports)) /\ e \in Nat \ {0}
    BY <1>2, <1>3, <2>1, Zenon
  <2>6. issued'.rd = Volume(ports, n + 1)
    <3>1. Volume(ports, n + 1) =
            Volume(ports, n) + (IF (n % e) + 1 = e
                                THEN OddWords(ports.SIZE, ReadMax(ports))
                                ELSE ReadMax(ports))
      <4>1. ports.SIZE \in Nat \ {0}
        BY <1>2, <1>3, <2>1, Zenon
      <4>2. n \in Nat /\ ReadMax(ports) \in Nat \ {0}
        BY <1>1, <2>2, Zenon
      <4>3. BenchmarkVolume(n + 1, ports.SIZE, ReadMax(ports)) =
              BenchmarkVolume(n, ports.SIZE, ReadMax(ports))
                + (IF (n % NumberEven(ports.SIZE, ReadMax(ports))) + 1
                        = NumberEven(ports.SIZE, ReadMax(ports))
                   THEN OddWords(ports.SIZE, ReadMax(ports)) ELSE ReadMax(ports))
        <5> HIDE DEF n
        <5> QED BY <4>1, <4>2, VolumeGrows, Zenon
      <4> QED BY <2>5, <4>3, Zenon
    <3> QED
      BY <1>2, <1>3, <1>4, <2>1, <2>3, <2>4, <3>1, Zenon
  <2>7. mod' = ((n + 1) % e) + 1
    <3>1. /\ (n % e) + 1 = e => (n + 1) % e = 0
          /\ (n % e) + 1 # e => (n + 1) % e = (n % e) + 1
      <4> HIDE DEF n, e
      <4> QED BY <2>2, <2>5, NextOfPass, Zenon
    <3>2. 0 + 1 = 1
      BY SMTT(30)
    <3> QED BY <2>1, <2>2, <3>1, <3>2, Zenon
  <2>8. IF wr_state' = "WAIT_READ" THEN cur' = TlpsOf(ports) + 1
        ELSE cur' <= TlpsOf(ports)
    BY <1>1, <1>4, <2>1, SMTT(30) DEF TlpsOf
  <2> QED BY <1>2, <2>1, <2>2, <2>6, <2>7, <2>8, Zenon
<1>7. ASSUME wr_state # "IDLE", wr_state' # "IDLE", ~ReadRequest(tready, ports, push)
      PROVE  Progress'
  <2>1. /\ issued'.rd = issued.rd /\ cur' = cur /\ mod' = mod
        /\ wr_state' = "WAIT_READ" <=> wr_state = "WAIT_READ"
    BY <1>7, NoRequest, Zenon
  <2> QED BY <1>2, <1>4, <1>7, <2>1, Zenon
<1>8. ReadVolumeAsCounted'
  <2> SUFFICES ASSUME update_latency_r', ports'.s2c
               PROVE  issued'.rd = Volume(ports', TlpsOf(ports'))
    BY Zenon DEF ReadVolumeAsCounted
  <2>1. end_of_operation
    BY Zenon DEF ClockEdge, RqEdge, FreeRunning, LatencyEdge
  <2>2. CASE EndOfWrite
    <3>1. ports \in Ports
      BY Zenon DEF TypeOK, EnvTypeOK
    <3>2. ~ports.s2c /\ ports.ENGINE_VALID
      BY <2>2, Zenon DEF PresentedInv
    <3>3. ports' = [ports EXCEPT !.ENGINE_VALID = FALSE]
      BY <2>1, <3>2, Zenon
         DEF ClockEdge, ManagerEdge, PortsHold, PortsConfigure, PortsRaise, PortsDrop
    <3> QED BY <3>1, <3>2, <3>3, Zenon DEF Ports
  <2>3. CASE EndOfRead
    <3>1. wr_state = "WAIT_READ" /\ ~ReadRequest(tready, ports, push)
      BY <2>3, Zenon DEF EndOfRead, ReadRequest
    <3>2. issued'.rd = issued.rd /\ cur - 1 = TlpsOf(ports)
      BY <1>1, <1>4, <3>1, NoRequest, SMTT(30)
    <3> QED BY <1>2, <1>4, <3>1, <3>2, Zenon
  <2> QED BY <2>1, <2>2, <2>3, Zenon DEF end_of_operation
<1>9. ReadRequest(tready, ports, push) => wr_state # "IDLE"
  BY Zenon DEF ReadRequest
<1> QED BY <1>5, <1>6, <1>7, <1>8, <1>9, Zenon DEF VolumeInv

(* The c2s buffer takes a FIFO beat of up to two words only when two more  *)
(* fit, and gives none that it does not hold.                              *)
LEMMA BufferStep ==
  ASSUME TypeOK, C2sBufferBounded, NEW tready \in BOOLEAN, NEW beat \in Beats,
         NEW push \in Pushes, ClockEdge(tready, beat, push)
  PROVE  C2sBufferBounded'
<1>1. \E pop \in Nat : BufferEdge(push, pop)
  <2>1. 0 \in Nat /\ 1 \in Nat /\ 2 \in Nat
    BY Zenon
  <2> QED
    BY <2>1, Zenon
       DEF ClockEdge, RqEdge, StartWrite, StartRead, StayIdle, IdleEdge, WriteWaits,
           WriteHeader, WriteData, WriteLastData, ReadWaits, ReadRequest, WaitRead
<1>2. c2s_buf_occupancy' \in Nat
  <2>1. TypeOK'
    BY NextTypes, Zenon DEF Next
  <2> QED BY <2>1, Zenon DEF TypeOK, RqTypeOK
<1>3. /\ push \in 0 .. 2 /\ c2s_buf_occupancy \in Nat
      /\ C2sBufferSize \in Nat /\ C2sReadyLevel \in 0 .. C2sBufferSize - 2
  BY TransferAssumption, RqAssumption, Zenon DEF TypeOK, RqTypeOK
<1> QED
  BY <1>1, <1>2, <1>3, SMTT(30) DEF BufferEdge, C2S_FIFO_TREADY, C2sBufferBounded

(* Everything the data path keeps apart from the life of the tags.         *)
PathInv ==
  FsmInv /\ PresentedInv /\ WriteInv /\ StatisticsInv /\ VolumeInv /\ C2sBufferBounded

(* The initial state has it.                                               *)
LEMMA InitPath == Init => PathInv
<1> SUFFICES ASSUME Init PROVE PathInv
  BY Zenon
<1>1. FsmInv /\ PresentedInv
  BY TagsAssumption, SMTT(30) DEF Init, RqInit, FsmInv, PresentedInv, ResetPorts, EndOfWrite
<1>2. WriteInv
  BY Zenon DEF Init, RqInit, WriteInv, WriteTlpWellFormed, WordsToCome, NoBeat
<1>3. StatisticsInv
  BY Zenon DEF Init, RqInit, StatisticsInv, NothingIssued, EndOfWrite
<1>4. VolumeInv /\ C2sBufferBounded
  BY RqAssumption, SMTT(30) DEF Init, RqInit, VolumeInv, ReadVolumeAsCounted, C2sBufferBounded
<1> QED BY <1>1, <1>2, <1>3, <1>4, Zenon DEF PathInv

(* Every step keeps it.                                                    *)
LEMMA NextPath == TypeOK /\ PathInv /\ [Next]_vars => PathInv'
<1> SUFFICES ASSUME TypeOK, PathInv, [Next]_vars PROVE PathInv'
  BY Zenon
<1>1. ASSUME NEW tready \in BOOLEAN, NEW beat \in Beats, NEW push \in Pushes,
             ClockEdge(tready, beat, push)
      PROVE  PathInv'
  BY <1>1, FsmStep, PresentedStep, WriteStep, StatisticsStep, VolumeStep, BufferStep, Zenon
     DEF PathInv
<1>2. CASE UserReset
  <2>1. /\ wr_state' = "IDLE" /\ wr_state_pipe_r' = "IDLE" /\ axis_rq' = NoBeat
        /\ rqLeft' = 0 /\ ports' = ResetPorts /\ issued' = NothingIssued
        /\ stop_latency' = TRUE /\ update_latency_r' = FALSE /\ c2s_buf_occupancy' = 0
    BY <1>2, Zenon DEF UserReset, RqReset
  <2>2. FsmInv' /\ PresentedInv'
    BY <2>1, TagsAssumption, SMTT(30) DEF FsmInv, PresentedInv, ResetPorts, EndOfWrite
  <2>3. WriteInv'
    BY <2>1, Zenon DEF WriteInv, WriteTlpWellFormed, WordsToCome, NoBeat
  <2>4. StatisticsInv'
    BY <2>1, Zenon DEF StatisticsInv, NothingIssued, EndOfWrite
  <2>5. VolumeInv' /\ C2sBufferBounded'
    BY <2>1, RqAssumption, SMTT(30) DEF VolumeInv, ReadVolumeAsCounted, C2sBufferBounded
  <2> QED BY <2>2, <2>3, <2>4, <2>5, Zenon DEF PathInv
<1>3. CASE UNCHANGED vars
  <2>1. FsmInv' /\ PresentedInv'
    BY <1>3, Zenon DEF vars, rqVars, envVars, PathInv, FsmInv, PresentedInv, EndOfWrite
  <2>2. WriteInv'
    BY <1>3, Zenon DEF vars, rqVars, envVars, PathInv, WriteInv, WriteTlpWellFormed,
                WordsToCome, current_wr_tlp_words_s, LastWrOfPass
  <2>3. StatisticsInv'
    BY <1>3, Zenon DEF vars, rqVars, envVars, PathInv, StatisticsInv, WaitingBeat,
        EndOfWrite
  <2>4. VolumeInv' /\ C2sBufferBounded'
    BY <1>3, Zenon DEF vars, rqVars, envVars, PathInv, VolumeInv, ReadVolumeAsCounted,
                C2sBufferBounded
  <2> QED BY <2>1, <2>2, <2>3, <2>4, Zenon DEF PathInv
<1> QED
  BY <1>1, <1>2, <1>3, Zenon DEF Next

(* The data path keeps it in every run, whatever RC shows while idle and   *)
(* whenever it is reset.                                                   *)
THEOREM PathInvariant == Spec => [](TypeOK /\ PathInv)
  BY InitTypes, InitPath, NextTypes, NextPath, PTL DEF Spec

(* dma_rq_logic sends write TLPs of exactly the announced length, for      *)
(* every size, payload limit, number of TLPs, back pressure and supply of  *)
(* data, although words, remaining words and TLP end are counted in three  *)
(* places and the remainder of a beat has four bits.                       *)
THEOREM WritesWellFormed == Spec => []WriteTlpWellFormed
<1>1. PathInv => WriteTlpWellFormed
  BY Zenon DEF PathInv, WriteInv
<1> QED BY <1>1, PathInvariant, PTL

(* The c2s buffer neither overflows nor underflows, for any size and any   *)
(* level of readiness that leaves room for the two words of a FIFO beat    *)
(* (16 and 12 in the build).                                               *)
THEOREM BufferBounded == Spec => []C2sBufferBounded
<1>1. PathInv => C2sBufferBounded
  BY Zenon DEF PathInv
<1> QED BY <1>1, PathInvariant, PTL

(* What a write operation publishes lacks at most the beat that waits in   *)
(* the RQ registers.                                                       *)
THEOREM WriteStatistics == Spec => []WriteStatisticsLackOneBeat
<1>1. PathInv => WriteStatisticsLackOneBeat
  BY Zenon DEF PathInv, StatisticsInv, WriteStatisticsLackOneBeat, WaitingBeat
<1> QED BY <1>1, PathInvariant, PTL

(* A read operation has requested exactly the volume benchmark.c computes  *)
(* its bandwidth from, for every size, TLP count and request limit.        *)
THEOREM ReadVolume == Spec => []ReadVolumeAsCounted
<1>1. PathInv => ReadVolumeAsCounted
  BY Zenon DEF PathInv, VolumeInv
<1> QED BY <1>1, PathInvariant, PTL

=============================================================================
