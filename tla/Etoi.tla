-------------------------------- MODULE Etoi --------------------------------
(***************************************************************************)
(* etoi, with which rwBar reads the numbers of its command line, against   *)
(* the formats its comment lists.  A string is a sequence of characters: a *)
(* hexadecimal digit is its value, the decimal digits are those below DEC; *)
(* X is x or X, SEP is - or _, and ODD is any other character.           *)
(***************************************************************************)
EXTENDS Naturals, Sequences

LOCAL INSTANCE SequencesExt

CONSTANTS
  DEC,            \* base of decimal numbers: 10
  HEX,            \* base of hexadecimal numbers: 16
  GROUP           \* digits between two separators: 4

ASSUME EtoiAssumption ==
  DEC \in Nat \ {0} /\ HEX \in Nat \ {0} /\ DEC < HEX /\ GROUP \in Nat \ {0}

X == HEX
SEP == HEX + 1
ODD == HEX + 2

Word == HEX ^ (2 * GROUP)                    \* a uint32_t has 2^32 values
LONG_MAX == (Word * Word) \div 2 - 1         \* of a long of two words
MinusOne == Word - 1

IsNumeral(string, base) == \A i \in DOMAIN string : string[i] < base

Number(digits, base) == FoldLeft(LAMBDA n, d : n * base + d, 0, digits)

(* strtol, which atoi calls: the result of an overflow is LONG_MAX.        *)
strtol(digits, base) ==
  (IF Number(digits, base) > LONG_MAX THEN LONG_MAX ELSE Number(digits, base)) % Word

(* The second loop of etoi, from the last character to the first: cdword   *)
(* collects the digits of a group, tdword the groups behind it.            *)
NoGroup == [cnt |-> 0, cdword |-> 0, tdword |-> 0, multp |-> 1, multd |-> 1, bad |-> FALSE]

EndGroup(g) ==
  [g EXCEPT !.tdword = (g.tdword + g.multd * g.cdword) % Word,
            !.multd = (g.multd * HEX ^ GROUP) % Word,
            !.multp = 1, !.cdword = 0, !.cnt = 0]

AddDigit(g, char) ==
  [g EXCEPT !.cnt = g.cnt + 1, !.cdword = g.cdword + char * g.multp,
            !.multp = g.multp * HEX]

NextChar(char, g) ==
  IF g.cnt = GROUP
  THEN IF char = SEP THEN EndGroup(g) ELSE [g EXCEPT !.bad = TRUE]
  ELSE IF char < HEX THEN AddDigit(g, char) ELSE [g EXCEPT !.bad = TRUE]

Separated(value) ==
  LET g == FoldRight(LAMBDA char, h : IF h.bad THEN h ELSE NextChar(char, h), value, NoGroup)
  IN  IF g.bad \/ value = << >> THEN MinusOne ELSE (g.tdword + g.multd * g.cdword) % Word

(* strchr: where the x is.                                                 *)
PlaceOfX(string) == CHOOSE i \in DOMAIN string :
  string[i] = X /\ \A j \in 1 .. i - 1 : string[j] # X

etoi(string) ==
  IF X \in Range(string)
  THEN LET value == SubSeq(string, PlaceOfX(string) + 1, Len(string)) IN
       IF PlaceOfX(string) > 2 \/ (PlaceOfX(string) = 2 /\ string[1] # 0)
       THEN MinusOne
       ELSE IF value # << >> /\ IsNumeral(value, HEX) THEN strtol(value, HEX)
       ELSE Separated(value)
  ELSE IF IsNumeral(string, DEC) THEN strtol(string, DEC) ELSE MinusOne

-----------------------------------------------------------------------------
(* The formats of the comment: base 10; base 16 after x or 0x; and base 16 *)
(* with a separator before every GROUP digits counted from the end.        *)
IsDecimal(string) == string # << >> /\ IsNumeral(string, DEC)

BaseMarks == {<<X>>, <<0, X>>}

IsGrouped(body) ==
  /\ body # << >> /\ body[1] < HEX
  /\ \A i \in DOMAIN body :
       IF (Len(body) - i) % (GROUP + 1) = GROUP THEN body[i] = SEP ELSE body[i] < HEX

Bodies(string) ==
  {body \in {SubSeq(string, Len(pre) + 1, Len(string)) : pre \in
               {q \in BaseMarks : IsPrefix(q, string)}} :
     body # << >> /\ (IsNumeral(body, HEX) \/ IsGrouped(body))}

Documented(string) == IsDecimal(string) \/ Bodies(string) # {}

Meaning(string) ==
  (IF IsDecimal(string) THEN Number(string, DEC)
   ELSE LET body == CHOOSE b \in Bodies(string) : TRUE
        IN  Number(SelectSeq(body, LAMBDA c : c # SEP), HEX)) % Word

(* etoi returns the number that a string in one of its formats stands for, *)
(* as far as it fits in 32 bits.                                           *)
AsDocumented(string) == Documented(string) => etoi(string) = Meaning(string)

=============================================================================
