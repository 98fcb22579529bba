----------------------------- MODULE DmaRcLogic -----------------------------
(***************************************************************************)
(* dma_rc_logic.v: the requester-completion side.  It counts, per read     *)
(* tag, the words that came back and pulses COMPLETED_TAGS when a request  *)
(* has been answered in full.  RcEdge is one rising edge of CLK; beat is   *)
(* the RC stream in that cycle (TREADY is constantly one), busy and size   *)
(* are BUSY_TAGS and SIZE_TAGS of DmaRqLogic.                              *)
(*                                                                         *)
(* A completion TLP starts with a beat that holds a 3-word header and up   *)
(* to 5 words of payload; the other beats hold up to 8 words.  The tag and *)
(* word-count fields are decoded from TDATA in every cycle, valid or not.  *)
(***************************************************************************)
EXTENDS DmaTags

CONSTANT CountLimit      \* the word counters count modulo this (2^11)

ASSUME RcAssumption == CountLimit \in Nat \ {0}

VARIABLES
  is_rc_sop_r,                \* the next beat starts a TLP
  tlp_tag_r,
  completed_tags_r,
  word_count_tag_r,
  difference_r,
  is_tag_count_exceeded_r

rcVars == <<is_rc_sop_r, tlp_tag_r, completed_tags_r, word_count_tag_r,
            difference_r, is_tag_count_exceeded_r>>

Wrap(n) == n % CountLimit

RcInit ==
  /\ is_rc_sop_r = TRUE
  /\ tlp_tag_r = 0
  /\ completed_tags_r = {}
  /\ word_count_tag_r = [j \in Tags |-> 0]
  /\ difference_r = [j \in Tags |-> 0]
  /\ is_tag_count_exceeded_r = {}

(* RST_N low: the same values, from any state.                             *)
RcReset ==
  /\ is_rc_sop_r' = TRUE
  /\ tlp_tag_r' = 0
  /\ completed_tags_r' = {}
  /\ word_count_tag_r' = [j \in Tags |-> 0]
  /\ difference_r' = [j \in Tags |-> 0]
  /\ is_tag_count_exceeded_r' = {}

(* The beat starts a completion of tag j.                                  *)
Starts(j, beat) == is_rc_sop_r /\ beat.tvalid /\ beat.tag = j

(* A one-beat TLP that brings everything tag j still waits for.            *)
(* Mutant: any one-beat TLP will do.                                       *)
EndsInAnyPulse(j, beat) == beat.tlast /\ beat.dwords <= 5

EndsInOnePulse(j, beat) ==
  /\ beat.tlast
  /\ beat.dwords <= 5
  /\ beat.dwords >= difference_r[j]

TagCompletes(j, beat, busy) ==
  /\ j \notin completed_tags_r
  /\ j \in busy
  /\ beat.tvalid /\ beat.tlast
  /\ \/ j \in is_tag_count_exceeded_r /\ j = tlp_tag_r
     \/ is_rc_sop_r /\ j = beat.tag /\ EndsInOnePulse(j, beat)

NextWordCount(j, beat) ==
  IF Starts(j, beat)
  THEN IF EndsInOnePulse(j, beat) \/ j \in completed_tags_r THEN 0
       ELSE Wrap(word_count_tag_r[j] + beat.dwords)
  ELSE IF j \in completed_tags_r THEN 0 ELSE word_count_tag_r[j]

NextDifference(j, beat, size) ==
  IF Starts(j, beat) THEN Wrap(size[j] - word_count_tag_r[j] - beat.dwords)
  ELSE Wrap(size[j] - word_count_tag_r[j])

(* Mutant: a TLP that brings exactly the missing words is not the last.    *)
NextExceededStrict(j, beat, busy, size) ==
  IF Starts(j, beat) /\ j \in busy
  THEN IF EndsInOnePulse(j, beat) THEN j \in is_tag_count_exceeded_r
       ELSE Wrap(size[j] - word_count_tag_r[j]) < beat.dwords
  ELSE j \notin completed_tags_r /\ word_count_tag_r[j] > size[j]

NextExceeded(j, beat, busy, size) ==
  IF Starts(j, beat) /\ j \in busy
  THEN IF EndsInOnePulse(j, beat) THEN j \in is_tag_count_exceeded_r
       ELSE Wrap(size[j] - word_count_tag_r[j]) <= beat.dwords
  ELSE j \notin completed_tags_r /\ word_count_tag_r[j] >= size[j]

RcEdge(beat, busy, size) ==
  /\ is_rc_sop_r' = IF beat.tvalid THEN beat.tlast ELSE is_rc_sop_r
  /\ tlp_tag_r' = IF is_rc_sop_r THEN beat.tag ELSE tlp_tag_r
  /\ completed_tags_r' = {j \in Tags : TagCompletes(j, beat, busy)}
  /\ word_count_tag_r' = [j \in Tags |-> NextWordCount(j, beat)]
  /\ difference_r' = [j \in Tags |-> NextDifference(j, beat, size)]
  /\ is_tag_count_exceeded_r' = {j \in Tags : NextExceeded(j, beat, busy, size)}

RcTypeOK ==
  /\ is_rc_sop_r \in BOOLEAN
  /\ tlp_tag_r \in Tags
  /\ completed_tags_r \subseteq Tags
  /\ word_count_tag_r \in [Tags -> Nat]
  /\ difference_r \in [Tags -> Nat]
  /\ is_tag_count_exceeded_r \subseteq Tags

=============================================================================
