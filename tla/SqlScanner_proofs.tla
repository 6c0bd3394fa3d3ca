------------------------- MODULE SqlScanner_proofs -------------------------
(***************************************************************************)
(* What the three scans of SqlScanner do with a text of any length.         *)
(*                                                                         *)
(* The definitions a scan is compared with look at the whole text, the      *)
(* scan at one place of it.  The lemmas of the first two parts say how the  *)
(* definitions change from one place to the next; the invariants of the     *)
(* third relate mode, depth and rewritten to them for the part of the text  *)
(* that lies behind i.  What needs an induction over the places of a text   *)
(* is proved from Least: of the places where a claim fails there would be a *)
(* first one.                                                               *)
(***************************************************************************)
EXTENDS SqlScanner, FiniteSetTheorems, SequenceTheorems, TLAPS

\* A set of natural numbers has a least element.
LEMMA Least ==
  ASSUME NEW S \in SUBSET Nat, S # {}
  PROVE  \E n \in S : \A m \in S : n <= m
<1> DEFINE Less == {ss \in Nat \X Nat : ss[1] < ss[2]}
<1>1. IsWellFoundedOn(Less, Nat)
  BY NatLessThanWellFounded DEF OpToRel
<1>2. PICK n \in S : \A m \in S : <<m, n>> \notin Less
  <2> HIDE DEF Less
  <2> QED BY <1>1, WFMin
<1>3. ASSUME NEW m \in S PROVE n <= m
  <2>1. <<m, n>> \in Nat \X Nat /\ <<m, n>>[1] = m /\ <<m, n>>[2] = n
    OBVIOUS
  <2>2. ~ (m < n)
    BY <1>2, <2>1
  <2> QED BY <2>2
<1> QED BY <1>3

-----------------------------------------------------------------------------
(* Strings, escapes and nesting, from one place to the next.                *)

\* The backslashes that stand right before k are a run of some length.
LEMMA RunBefore ==
  ASSUME NEW t \in Seq(STRING), NEW k \in 1 .. Len(t) + 1
  PROVE  \E m \in 0 .. k - 1 :
            /\ \A j \in k - m .. k - 1 : t[j] = "\\"
            /\ k - m - 1 >= 1 => t[k - m - 1] # "\\"
<1> DEFINE S == {m \in 0 .. k - 1 : k - m - 1 >= 1 => t[k - m - 1] # "\\"}
<1>1. k - 1 \in S /\ S \in SUBSET Nat
  OBVIOUS
<1>2. PICK m \in S : \A n \in S : m <= n
  <2> HIDE DEF S
  <2> QED BY <1>1, Least
<1>3. ASSUME NEW j \in k - m .. k - 1 PROVE t[j] = "\\"
  <2>1. k - j - 1 \in 0 .. k - 1 /\ k - j - 1 < m /\ k - (k - j - 1) - 1 = j
    OBVIOUS
  <2>2. k - j - 1 \notin S
    <3> HIDE DEF S
    <3>1. m \in Int
      BY <1>1
    <3> QED BY <1>2, <2>1, <3>1
  <2> QED BY <2>1, <2>2
<1> QED BY <1>2, <1>3

\* No place is escaped before the first backslash.
LEMMA EscapedFirst ==
  ASSUME NEW t \in Seq(STRING)
  PROVE  ~Escaped(t, 1)
BY DEF Escaped

\* A place is escaped if the one before it is a backslash that is not.
LEMMA EscapedStep ==
  ASSUME NEW t \in Seq(STRING), NEW k \in 1 .. Len(t)
  PROVE  Escaped(t, k + 1) <=> (t[k] = "\\" /\ ~Escaped(t, k))
<1>1. ASSUME Escaped(t, k + 1) PROVE t[k] = "\\" /\ ~Escaped(t, k)
  <2>1. PICK n \in 0 .. k :
          /\ n % 2 = 1
          /\ \A j \in k + 1 - n .. k : t[j] = "\\"
          /\ k - n >= 1 => t[k - n] # "\\"
    BY <1>1 DEF Escaped
  <2>2. t[k] = "\\"
    BY <2>1
  <2>3. ASSUME NEW m \in 0 .. k - 1,
               m % 2 = 1,
               \A j \in k - m .. k - 1 : t[j] = "\\",
               k - m - 1 >= 1 => t[k - m - 1] # "\\"
        PROVE  FALSE
    <3>1. ~ (n - 1 < m)
      <4> SUFFICES ASSUME n - 1 < m PROVE FALSE
        OBVIOUS
      <4>1. n >= 1 /\ k - n \in k - m .. k - 1 /\ k - n >= 1
        BY <2>1
      <4> QED BY <4>1, <2>1, <2>3
    <3>2. ~ (n - 1 > m)
      <4> SUFFICES ASSUME n - 1 > m PROVE FALSE
        OBVIOUS
      <4>1. k - m - 1 \in k + 1 - n .. k /\ k - m - 1 >= 1
        OBVIOUS
      <4> QED BY <4>1, <2>1, <2>3
    <3>3. n = m + 1
      BY <3>1, <3>2
    <3> QED BY <2>1, <2>3, <3>3
  <2> QED BY <2>2, <2>3 DEF Escaped
<1>2. ASSUME t[k] = "\\", ~Escaped(t, k) PROVE Escaped(t, k + 1)
  <2>1. PICK m \in 0 .. k - 1 :
          /\ \A j \in k - m .. k - 1 : t[j] = "\\"
          /\ k - m - 1 >= 1 => t[k - m - 1] # "\\"
    BY RunBefore
  <2>2. m % 2 # 1
    BY <1>2, <2>1 DEF Escaped
  <2>3. (m + 1) % 2 = 1
    BY <2>2
  <2>4. \A j \in (k + 1) - (m + 1) .. (k + 1) - 1 : t[j] = "\\"
    BY <1>2, <2>1
  <2>5. (k + 1) - (m + 1) - 1 = k - m - 1 /\ m + 1 \in 0 .. (k + 1) - 1
    OBVIOUS
  <2> QED BY <2>1, <2>3, <2>4, <2>5 DEF Escaped
<1> QED BY <1>1, <1>2

\* How many members of a set lie in 1 .. k, from those in 1 .. k - 1
LEMMA CountStep ==
  ASSUME NEW S, NEW k \in Nat \ {0}
  PROVE  /\ Cardinality(S \cap (1 .. k - 1)) \in Nat
         /\ Cardinality(S \cap (1 .. k)) =
               Cardinality(S \cap (1 .. k - 1)) + IF k \in S THEN 1 ELSE 0
<1>1. IsFiniteSet(1 .. k - 1)
  BY FS_Interval
<1>2. IsFiniteSet(S \cap (1 .. k - 1))
  BY <1>1, FS_Subset
<1>3. Cardinality(S \cap (1 .. k - 1)) \in Nat
  BY <1>2, FS_CardinalityType
<1>4. CASE k \in S
  <2>1. S \cap (1 .. k) = (S \cap (1 .. k - 1)) \cup {k} /\ k \notin S \cap (1 .. k - 1)
    BY <1>4
  <2> QED BY <1>2, <1>3, <1>4, <2>1, FS_AddElement
<1>5. CASE k \notin S
  <2>1. S \cap (1 .. k) = S \cap (1 .. k - 1)
    BY <1>5
  <2>2. Cardinality(S \cap (1 .. k)) = Cardinality(S \cap (1 .. k - 1))
    BY <2>1
  <2> DEFINE c == Cardinality(S \cap (1 .. k - 1))
             d == Cardinality(S \cap (1 .. k))
  <2>3. c \in Nat /\ d = c /\ k \notin S
    BY <1>3, <1>5, <2>2
  <2> HIDE DEF c, d
  <2>4. c \in Nat /\ d = c + IF k \in S THEN 1 ELSE 0
    BY <2>3
  <2> QED BY <2>4 DEF c, d
<1> QED BY <1>4, <1>5

\* The first place is in no string, and a string begins or ends behind a quote
\* that is not escaped.
LEMMA InStringFirst ==
  ASSUME NEW t \in Seq(STRING)
  PROVE  ~InString(t, 1)
<1>1. {j \in 1 .. 1 - 1 : t[j] = Quote /\ ~Escaped(t, j)} = {}
  OBVIOUS
<1> QED BY <1>1, FS_EmptySet DEF InString

LEMMA InStringStep ==
  ASSUME NEW t \in Seq(STRING), NEW k \in 1 .. Len(t)
  PROVE  InString(t, k + 1) <=>
            IF t[k] = Quote /\ ~Escaped(t, k) THEN ~InString(t, k) ELSE InString(t, k)
<1> DEFINE Q == {j \in Nat : t[j] = Quote /\ ~Escaped(t, j)}
           n == Cardinality(Q \cap (1 .. k - 1))
<1>1. {j \in 1 .. k - 1 : t[j] = Quote /\ ~Escaped(t, j)} = Q \cap (1 .. k - 1)
  OBVIOUS
<1>2. {j \in 1 .. (k + 1) - 1 : t[j] = Quote /\ ~Escaped(t, j)} = Q \cap (1 .. k)
  OBVIOUS
<1>3. k \in Q <=> t[k] = Quote /\ ~Escaped(t, k)
  OBVIOUS
<1>4. n \in Nat /\ Cardinality(Q \cap (1 .. k)) = n + IF k \in Q THEN 1 ELSE 0
  <2> HIDE DEF Q
  <2> QED BY CountStep
<1>5. InString(t, k) <=> n % 2 = 1
  BY <1>1 DEF InString
<1>6. InString(t, k + 1) <=> (n + IF k \in Q THEN 1 ELSE 0) % 2 = 1
  BY <1>2, <1>4 DEF InString
<1>7. (n + 1) % 2 = 1 <=> n % 2 # 1
  BY <1>4
<1> HIDE DEF Q, n
<1>8. CASE k \in Q
  BY <1>3, <1>5, <1>6, <1>7, <1>8
<1>9. CASE k \notin Q
  BY <1>3, <1>4, <1>5, <1>6, <1>9
<1> QED BY <1>8, <1>9

\* The nesting behind k, from the nesting behind the place before it
LEMMA NestingStep ==
  ASSUME NEW t \in Seq(STRING), NEW k \in 1 .. Len(t)
  PROVE  /\ Nesting(t, k - 1) \in Int
         /\ Nesting(t, k) =
               Nesting(t, k - 1) + (IF t[k] = OpenBrace /\ ~InString(t, k) THEN 1 ELSE 0)
                                 - (IF t[k] = CloseBrace /\ ~InString(t, k) THEN 1 ELSE 0)
<1> DEFINE Opened == {j \in Nat : t[j] = OpenBrace /\ ~InString(t, j)}
           Closed == {j \in Nat : t[j] = CloseBrace /\ ~InString(t, j)}
<1>1. ASSUME NEW m \in Nat
      PROVE  Nesting(t, m) = Cardinality(Opened \cap (1 .. m)) - Cardinality(Closed \cap (1 .. m))
  <2>1. {j \in 1 .. m : t[j] = OpenBrace /\ ~InString(t, j)} = Opened \cap (1 .. m)
    OBVIOUS
  <2>2. {j \in 1 .. m : t[j] = CloseBrace /\ ~InString(t, j)} = Closed \cap (1 .. m)
    OBVIOUS
  <2> HIDE DEF Opened, Closed
  <2> QED BY <2>1, <2>2 DEF Nesting
<1>2. /\ k \in Opened <=> t[k] = OpenBrace /\ ~InString(t, k)
      /\ k \in Closed <=> t[k] = CloseBrace /\ ~InString(t, k)
  OBVIOUS
<1> HIDE DEF Opened, Closed
<1>3. /\ Nesting(t, k) = Cardinality(Opened \cap (1 .. k)) - Cardinality(Closed \cap (1 .. k))
      /\ Nesting(t, k - 1) =
            Cardinality(Opened \cap (1 .. k - 1)) - Cardinality(Closed \cap (1 .. k - 1))
  <2>1. k \in Nat /\ k - 1 \in Nat
    OBVIOUS
  <2> QED BY <1>1, <2>1
<1> DEFINE o == Cardinality(Opened \cap (1 .. k - 1))
           c == Cardinality(Closed \cap (1 .. k - 1))
<1>4. /\ o \in Nat
      /\ Cardinality(Opened \cap (1 .. k)) = o + IF k \in Opened THEN 1 ELSE 0
  BY CountStep
<1>5. /\ c \in Nat
      /\ Cardinality(Closed \cap (1 .. k)) = c + IF k \in Closed THEN 1 ELSE 0
  BY CountStep
<1>6. /\ Nesting(t, k - 1) = o - c
      /\ Nesting(t, k) = (o + IF k \in Opened THEN 1 ELSE 0) - (c + IF k \in Closed THEN 1 ELSE 0)
  BY <1>3, <1>4, <1>5
<1> HIDE DEF o, c
<1> QED BY <1>2, <1>4, <1>5, <1>6

LEMMA NestingFirst ==
  ASSUME NEW t \in Seq(STRING)
  PROVE  Nesting(t, 0) = 0
<1>1. /\ {j \in 1 .. 0 : t[j] = OpenBrace /\ ~InString(t, j)} = {}
      /\ {j \in 1 .. 0 : t[j] = CloseBrace /\ ~InString(t, j)} = {}
  OBVIOUS
<1> QED BY <1>1, FS_EmptySet DEF Nesting

-----------------------------------------------------------------------------
(* The scan of the nesting.                                                 *)

\* The values of the variables, and which modes a scan has
ScanTypes ==
    /\ scan \in {"depth", "multi", "params", "none"}
    /\ text \in Seq(STRING)
    /\ i \in 1 .. Len(text) + 1
    /\ depth \in Int
    /\ scan = "depth" => mode \in {"code", "string", "escaped"}
    /\ scan = "multi" => mode \in {"code", "single", "double", "line", "block"}
    /\ scan = "params" => mode \in {"code", "single", "double"}
    /\ scan # "none" => verdict = "none"

\* In front of i, the flags are what InString and Escaped say of place i, depth
\* is the nesting, and no nesting was too deep.  Once a backslash has stood
\* outside the strings the flags and the definitions have parted.
DepthInv ==
    /\ scan = "depth" /\ Lexical(text, i - 1) =>
          /\ mode = "escaped" <=> Escaped(text, i)
          /\ mode = "code" <=> ~InString(text, i)
          /\ depth = Nesting(text, i - 1)
    /\ scan = "depth" =>
          \A k \in 1 .. i - 1 : Lexical(text, k) => Nesting(text, k) <= MaxDepth
    /\ DepthAgrees

LEMMA LexicalStep ==
  ASSUME NEW t \in Seq(STRING), NEW k \in 1 .. Len(t)
  PROVE  Lexical(t, k) <=> Lexical(t, k - 1) /\ (t[k] = "\\" => InString(t, k))
BY DEF Lexical

\* The characters of JSON that the scan tells apart are different ones,
LEMMA Characters ==
  Quote # "\\" /\ OpenBrace # Quote /\ CloseBrace # Quote /\ OpenBrace # CloseBrace
BY Zenon DEF Quote, OpenBrace, CloseBrace

\* and so are those of SQL.
LEMMA SqlCharacters ==
  /\ Quote \notin {"'", "-", "/", "*", ":", "nl"}
  /\ Semicolon \notin {"'", Quote, "-", "/", "*", ":", "nl"}
BY Zenon DEF Quote, Semicolon

LEMMA DepthStarts ==
  Init => DepthInv
<1> SUFFICES ASSUME Init PROVE DepthInv
  OBVIOUS
<1>1. text \in Seq(STRING)
  BY ScannerAssumption DEF Init
<1>2. verdict = "none" /\ i = 1 /\ mode = "code" /\ depth = 0
  BY DEF Init
<1>3. ~Escaped(text, i) /\ ~InString(text, i) /\ Nesting(text, i - 1) = 0
  BY <1>1, <1>2, EscapedFirst, InStringFirst, NestingFirst
<1> QED BY <1>2, <1>3 DEF DepthInv, DepthAgrees

LEMMA DepthStays ==
  ASSUME ScanTypes, DepthInv, UNCHANGED text, scan # "depth", scan' # "depth",
         verdict' \in {"allowed", "tooDeep"} => verdict' = verdict
  PROVE  DepthInv'
BY DEF DepthInv, DepthAgrees

LEMMA DepthInStringKeeps ==
  ASSUME ScanTypes, DepthInv, DepthInString
  PROVE  DepthInv'
<1>1. /\ text' = text /\ i' = i + 1 /\ depth' = depth /\ verdict' = verdict /\ scan' = scan
      /\ verdict = "none" /\ scan = "depth" /\ i \in 1 .. Len(text)
      /\ mode \in {"string", "escaped"}
  BY DEF ScanTypes, DepthInString
<1>2. text \in Seq(STRING) /\ (i + 1) - 1 = i
  BY DEF ScanTypes
<1>3. ASSUME Lexical(text, i)
      PROVE  /\ mode' = "escaped" <=> Escaped(text, i + 1)
             /\ mode' = "code" <=> ~InString(text, i + 1)
             /\ Nesting(text, i) = depth
  <2>1. Lexical(text, i - 1)
    BY <1>1, <1>2, <1>3, LexicalStep
  <2>2. /\ mode = "escaped" <=> Escaped(text, i)
        /\ InString(text, i)
        /\ depth = Nesting(text, i - 1)
    BY <1>1, <2>1 DEF DepthInv
  <2>3. mode' = IF mode = "escaped" THEN "string"
                ELSE IF text[i] = "\\" THEN "escaped"
                ELSE IF text[i] = Quote THEN "code" ELSE "string"
    BY <1>1 DEF DepthInString, AfterInString, At
  <2>4. Escaped(text, i + 1) <=> text[i] = "\\" /\ ~Escaped(text, i)
    BY <1>1, <1>2, EscapedStep
  <2>5. InString(text, i + 1) <=> ~(text[i] = Quote /\ ~Escaped(text, i))
    BY <1>1, <1>2, <2>2, InStringStep
  <2>6. Nesting(text, i) = Nesting(text, i - 1)
    BY <1>1, <1>2, <2>2, NestingStep
  <2> QED BY <1>1, <2>2, <2>3, <2>4, <2>5, <2>6, Characters
<1>4. \A k \in 1 .. i : Lexical(text, k) => Nesting(text, k) <= MaxDepth
  <2>1. Lexical(text, i) => Nesting(text, i) <= MaxDepth
    <3> SUFFICES ASSUME Lexical(text, i) PROVE Nesting(text, i) <= MaxDepth
      OBVIOUS
    <3>1. Lexical(text, i - 1) /\ Nesting(text, i) = Nesting(text, i - 1)
      BY <1>1, <1>2, <1>3, LexicalStep DEF DepthInv
    <3>2. CASE i = 1
      BY <1>2, <3>1, <3>2, NestingFirst, ScannerAssumption
    <3>3. CASE i # 1
      <4>1. i - 1 \in 1 .. i - 1
        BY <1>1, <3>3
      <4> QED BY <1>1, <3>1, <4>1 DEF DepthInv
    <3> QED BY <3>2, <3>3
  <2> QED BY <1>1, <2>1 DEF DepthInv
<1> QED BY <1>1, <1>2, <1>3, <1>4 DEF DepthInv, DepthAgrees

LEMMA DepthOutsideKeeps ==
  ASSUME ScanTypes, DepthInv, DepthOutside
  PROVE  DepthInv'
<1>1. /\ text' = text /\ verdict = "none" /\ scan = "depth" /\ i \in 1 .. Len(text)
      /\ mode = "code" /\ text \in Seq(STRING) /\ depth \in Int /\ (i + 1) - 1 = i
  BY DEF ScanTypes, DepthOutside
<1>2. /\ mode' = IF text[i] = Quote THEN "string" ELSE "code"
      /\ depth' = depth + (IF text[i] = OpenBrace THEN 1 ELSE 0)
                        - (IF text[i] = CloseBrace THEN 1 ELSE 0)
  BY <1>1, Characters DEF DepthOutside, At
<1>3. ASSUME Lexical(text, i)
      PROVE  /\ mode' = "escaped" <=> Escaped(text, i + 1)
             /\ mode' = "code" <=> ~InString(text, i + 1)
             /\ Nesting(text, i) = depth'
  <2>1. Lexical(text, i - 1) /\ (text[i] = "\\" => InString(text, i))
    BY <1>1, <1>3, LexicalStep
  <2>2. /\ ~Escaped(text, i)
        /\ ~InString(text, i)
        /\ depth = Nesting(text, i - 1)
    BY <1>1, <2>1 DEF DepthInv
  <2>3. ~Escaped(text, i + 1)
    BY <1>1, <2>1, <2>2, EscapedStep
  <2>4. InString(text, i + 1) <=> text[i] = Quote
    BY <1>1, <2>2, InStringStep
  <2>5. Nesting(text, i) = depth'
    BY <1>1, <1>2, <2>2, NestingStep
  <2> QED BY <1>2, <2>3, <2>4, <2>5
<1>4. CASE depth' > MaxDepth \/ depth' < 0
  <2>1. scan' = "none" /\ verdict' = "tooDeep"
    BY <1>4 DEF DepthOutside, Verdict
  <2>2. Lexical(text, Len(text)) => Lexical(text, i)
    BY <1>1 DEF Lexical
  <2>3. Lexical(text, Len(text)) => Nesting(text, i) > MaxDepth \/ Nesting(text, i) < 0
    BY <1>3, <1>4, <2>2
  <2> QED BY <1>1, <2>1, <2>3 DEF DepthInv, DepthAgrees, Places
<1>5. CASE ~(depth' > MaxDepth \/ depth' < 0)
  <2>1. scan' = scan /\ verdict' = verdict /\ i' = i + 1
    BY <1>5 DEF DepthOutside
  <2>2. depth' <= MaxDepth
    BY <1>1, <1>2, <1>5, ScannerAssumption
  <2>3. \A k \in 1 .. i : Lexical(text, k) => Nesting(text, k) <= MaxDepth
    BY <1>1, <1>3, <2>2 DEF DepthInv
  <2> QED BY <1>1, <1>3, <2>1, <2>3 DEF DepthInv, DepthAgrees
<1> QED BY <1>4, <1>5

LEMMA DepthEndsKeeps ==
  ASSUME ScanTypes, DepthInv, DepthEnds
  PROVE  DepthInv'
<1>1. /\ text' = text /\ scan = "depth" /\ i - 1 = Len(text)
      /\ scan' = "none" /\ verdict' = "allowed"
  BY DEF ScanTypes, DepthEnds, Verdict
<1> QED BY <1>1 DEF DepthInv, DepthAgrees, Places

LEMMA DepthKeeps ==
  ASSUME ScanTypes, DepthInv, [Next]_vars
  PROVE  DepthInv'
<1>1. CASE DepthInString
  BY <1>1, DepthInStringKeeps
<1>2. CASE DepthOutside
  BY <1>2, DepthOutsideKeeps
<1>3. CASE DepthEnds
  BY <1>3, DepthEndsKeeps
<1>4. CASE \/ InLineComment   \/ InBlockComment \/ InQuotes  \/ OpenQuote \/ OpenComment
           \/ SecondStatement \/ MultiSkips     \/ MultiEnds
           \/ CopyInQuotes    \/ Placeholder    \/ Copy      \/ ParamsEnd
  <2>1. /\ text' = text /\ scan # "depth" /\ scan' # "depth"
        /\ verdict' \in {"allowed", "tooDeep"} => verdict' = verdict
    BY <1>4 DEF InLineComment, InBlockComment, InQuotes, OpenQuote, OpenComment,
         SecondStatement, MultiSkips, MultiEnds, CopyInQuotes, Placeholder, Copy,
         ParamsEnd, Verdict
  <2> QED BY <2>1, DepthStays
<1>5. CASE UNCHANGED vars
  BY <1>5 DEF vars, DepthInv, DepthAgrees
<1> QED BY <1>1, <1>2, <1>3, <1>4, <1>5 DEF Next, Ended

-----------------------------------------------------------------------------
(* Where the tokens of a text end and begin.                                *)

LEMMA FirstAfterIs ==
  ASSUME NEW t \in Seq(STRING), NEW S \in SUBSET (1 .. Len(t))
  PROVE  /\ S = {} => FirstAfter(t, S) = Len(t)
         /\ S # {} => FirstAfter(t, S) \in S /\ \A j \in S : FirstAfter(t, S) <= j
<1>1. ASSUME S # {} PROVE FirstAfter(t, S) \in S /\ \A j \in S : FirstAfter(t, S) <= j
  <2>1. \E n \in S : \A j \in S : n <= j
    BY <1>1, Least
  <2> QED BY <1>1, <2>1 DEF FirstAfter
<1> QED BY <1>1 DEF FirstAfter

\* A literal ends at the next quote of its kind, or with the text.
LEMMA LiteralEnd ==
  ASSUME NEW t \in Seq(STRING), NEW k \in Places(t), t[k] \in {"'", Quote}
  PROVE  /\ TokenEnd(t, k) \in k .. Len(t)
         /\ \A j \in k + 1 .. TokenEnd(t, k) - 1 : t[j] # t[k]
         /\ \/ TokenEnd(t, k) > k /\ t[TokenEnd(t, k)] = t[k]
            \/ TokenEnd(t, k) = Len(t) /\ \A j \in k + 1 .. Len(t) : t[j] # t[k]
<1> DEFINE S == {j \in k + 1 .. Len(t) : t[j] = t[k]}
           e == FirstAfter(t, S)
<1>1. S \in SUBSET (1 .. Len(t)) /\ k \in 1 .. Len(t)
  BY DEF Places
<1>2. TokenEnd(t, k) = e
  <2>1. ~Starts(t, k, "-", "-") /\ ~Starts(t, k, "/", "*")
    BY SqlCharacters DEF Starts
  <2> QED BY <2>1 DEF TokenEnd
<1>3. CASE S = {}
  <2>1. e = Len(t)
    <3> HIDE DEF S
    <3> QED BY <1>1, <1>3, FirstAfterIs
  <2>2. \A j \in k + 1 .. Len(t) : ~(t[j] = t[k])
    BY <1>3
  <2> HIDE DEF e
  <2> QED BY <1>1, <1>2, <2>1, <2>2
<1>4. CASE S # {}
  <2>1. e \in S /\ \A j \in S : e <= j
    <3> HIDE DEF S
    <3> QED BY <1>1, <1>4, FirstAfterIs
  <2> HIDE DEF e
  <2>2. /\ e \in k + 1 .. Len(t) /\ t[e] = t[k]
        /\ \A j \in k + 1 .. e - 1 : ~(t[j] = t[k])
    BY <1>1, <2>1
  <2> QED BY <1>1, <1>2, <2>2
<1> QED BY <1>3, <1>4

\* A line comment ends with its line, or with the text.
LEMMA LineCommentEnd ==
  ASSUME NEW t \in Seq(STRING), NEW k \in Places(t), Starts(t, k, "-", "-")
  PROVE  /\ TokenEnd(t, k) \in k + 1 .. Len(t)
         /\ \A j \in k + 2 .. TokenEnd(t, k) - 1 : t[j] # NewLine
         /\ \/ TokenEnd(t, k) > k + 1 /\ t[TokenEnd(t, k)] = NewLine
            \/ TokenEnd(t, k) = Len(t) /\ \A j \in k + 2 .. Len(t) : t[j] # NewLine
<1> DEFINE S == {j \in k + 2 .. Len(t) : t[j] = NewLine}
           e == FirstAfter(t, S)
<1>1. S \in SUBSET (1 .. Len(t)) /\ k \in 1 .. Len(t) - 1 /\ t[k] = "-"
  BY DEF Places, Starts
<1>2. TokenEnd(t, k) = e
  <2>1. t[k] \notin {"'", Quote} /\ ~Starts(t, k, "/", "*")
    BY <1>1, SqlCharacters DEF Starts
  <2> QED BY <2>1 DEF TokenEnd
<1>3. CASE S = {}
  <2>1. e = Len(t)
    <3> HIDE DEF S
    <3> QED BY <1>1, <1>3, FirstAfterIs
  <2>2. \A j \in k + 2 .. Len(t) : ~(t[j] = NewLine)
    BY <1>3
  <2> HIDE DEF e
  <2> QED BY <1>1, <1>2, <2>1, <2>2
<1>4. CASE S # {}
  <2>1. e \in S /\ \A j \in S : e <= j
    <3> HIDE DEF S
    <3> QED BY <1>1, <1>4, FirstAfterIs
  <2> HIDE DEF e
  <2>2. /\ e \in k + 2 .. Len(t) /\ t[e] = NewLine
        /\ \A j \in k + 2 .. e - 1 : ~(t[j] = NewLine)
    BY <1>1, <2>1
  <2> QED BY <1>1, <1>2, <2>2
<1> QED BY <1>3, <1>4

\* A block comment ends with the first "*/" behind its beginning, or with the text.
LEMMA BlockCommentEnd ==
  ASSUME NEW t \in Seq(STRING), NEW k \in Places(t), Starts(t, k, "/", "*")
  PROVE  /\ TokenEnd(t, k) \in k + 1 .. Len(t)
         /\ \A j \in k + 3 .. TokenEnd(t, k) - 1 : ~(t[j - 1] = "*" /\ t[j] = "/")
         /\ \/ /\ TokenEnd(t, k) > k + 2
               /\ t[TokenEnd(t, k) - 1] = "*" /\ t[TokenEnd(t, k)] = "/"
            \/ /\ TokenEnd(t, k) = Len(t)
               /\ \A j \in k + 3 .. Len(t) : ~(t[j - 1] = "*" /\ t[j] = "/")
<1> DEFINE S == {j \in k + 3 .. Len(t) : t[j - 1] = "*" /\ t[j] = "/"}
           e == FirstAfter(t, S)
<1>1. S \in SUBSET (1 .. Len(t)) /\ k \in 1 .. Len(t) - 1 /\ t[k] = "/"
  BY DEF Places, Starts
<1>2. TokenEnd(t, k) = e
  <2>1. t[k] \notin {"'", Quote} /\ ~Starts(t, k, "-", "-")
    BY <1>1, SqlCharacters DEF Starts
  <2> QED BY <2>1 DEF TokenEnd
<1>3. CASE S = {}
  <2>1. e = Len(t)
    <3> HIDE DEF S
    <3> QED BY <1>1, <1>3, FirstAfterIs
  <2>2. \A j \in k + 3 .. Len(t) : ~(t[j - 1] = "*" /\ t[j] = "/")
    BY <1>3
  <2> HIDE DEF e
  <2> QED BY <1>1, <1>2, <2>1, <2>2
<1>4. CASE S # {}
  <2>1. e \in S /\ \A j \in S : e <= j
    <3> HIDE DEF S
    <3> QED BY <1>1, <1>4, FirstAfterIs
  <2> HIDE DEF e
  <2>2. /\ e \in k + 3 .. Len(t) /\ t[e - 1] = "*" /\ t[e] = "/"
        /\ \A j \in k + 3 .. e - 1 : ~(t[j - 1] = "*" /\ t[j] = "/")
    BY <1>1, <2>1
  <2> QED BY <1>1, <1>2, <2>2
<1> QED BY <1>3, <1>4

\* Every other character is a token of its own.
LEMMA OtherEnd ==
  ASSUME NEW t \in Seq(STRING), NEW k \in Places(t), t[k] \notin {"'", Quote},
         ~Starts(t, k, "-", "-"), ~Starts(t, k, "/", "*")
  PROVE  TokenEnd(t, k) = k
BY DEF TokenEnd

LEMMA TokenEndIn ==
  ASSUME NEW t \in Seq(STRING), NEW k \in Places(t)
  PROVE  TokenEnd(t, k) \in k .. Len(t)
<1>1. k \in 1 .. Len(t) /\ Len(t) \in Nat
  BY DEF Places
<1>2. CASE t[k] \in {"'", Quote}
  BY <1>2, LiteralEnd
<1>3. CASE Starts(t, k, "-", "-")
  BY <1>1, <1>3, LineCommentEnd
<1>4. CASE Starts(t, k, "/", "*")
  BY <1>1, <1>4, BlockCommentEnd
<1>5. CASE t[k] \notin {"'", Quote} /\ ~Starts(t, k, "-", "-") /\ ~Starts(t, k, "/", "*")
  BY <1>1, <1>5, OtherEnd
<1> QED BY <1>2, <1>3, <1>4, <1>5

\* The function that Beginnings is defined with, up to place n
BeginsUpTo(t, n, f) ==
    f = [k \in 1 .. n |->
            k = 1 \/ \E j \in 1 .. k - 1 : f[j] /\ TokenEnd(t, j) = k - 1]

LEMMA BeginsExists ==
  ASSUME NEW t \in Seq(STRING), NEW n \in Nat
  PROVE  \E f : BeginsUpTo(t, n, f)
<1> DEFINE S == {m \in Nat : ~ \E f : BeginsUpTo(t, m, f)}
<1> SUFFICES ASSUME S # {} PROVE FALSE
  OBVIOUS
<1>1. PICK m \in S : \A k \in S : m <= k
  <2>1. S \in SUBSET Nat
    OBVIOUS
  <2> HIDE DEF S
  <2> QED BY <2>1, Least
<1>2. CASE m = 0
  <2> DEFINE f == [k \in 1 .. 0 |-> TRUE]
  <2>1. BeginsUpTo(t, 0, f)
    BY DEF BeginsUpTo
  <2> QED BY <1>2, <2>1
<1>3. CASE m # 0
  <2>1. m - 1 \in Nat /\ m - 1 \notin S /\ m \in Nat
    <3>1. m \in Nat
      OBVIOUS
    <3>2. m - 1 \in Nat /\ ~(m <= m - 1)
      BY <1>3, <3>1
    <3> HIDE DEF S
    <3> QED BY <1>1, <3>1, <3>2
  <2>2. PICK f : BeginsUpTo(t, m - 1, f)
    BY <2>1
  <2> DEFINE last == m = 1 \/ \E j \in 1 .. m - 1 : f[j] /\ TokenEnd(t, j) = m - 1
             g == [k \in 1 .. m |-> IF k = m THEN last ELSE f[k]]
  <2>3. BeginsUpTo(t, m, g)
    <3>1. ASSUME NEW k \in 1 .. m
          PROVE  g[k] = (k = 1 \/ \E j \in 1 .. k - 1 : g[j] /\ TokenEnd(t, j) = k - 1)
      <4>1. \A j \in 1 .. k - 1 : g[j] = f[j]
        BY <2>1
      <4>2. CASE k = m
        <5>1. g[k] = last
          BY <4>2
        <5> HIDE DEF g
        <5> QED BY <4>1, <4>2, <5>1
      <4>3. CASE k # m
        <5>1. g[k] = f[k] /\ k \in 1 .. m - 1
          BY <2>1, <4>3
        <5>2. f[k] = (k = 1 \/ \E j \in 1 .. k - 1 : f[j] /\ TokenEnd(t, j) = k - 1)
          BY <2>2, <5>1 DEF BeginsUpTo
        <5> HIDE DEF g
        <5> QED BY <4>1, <5>1, <5>2
      <4> QED BY <4>2, <4>3
    <3> DEFINE h == [k \in 1 .. m |->
                      k = 1 \/ \E j \in 1 .. k - 1 : g[j] /\ TokenEnd(t, j) = k - 1]
    <3>2. \A k \in 1 .. m : h[k] = g[k]
      <4> HIDE DEF g
      <4> QED BY <3>1
    <3>3. g = h
      <4> HIDE DEF last
      <4> QED BY <3>2
    <3> QED BY <3>3 DEF BeginsUpTo
  <2> HIDE DEF g
  <2> QED BY <2>1, <2>3
<1> QED BY <1>2, <1>3

\* A token begins with the text and behind every token.
LEMMA BeginningsAre ==
  ASSUME NEW t \in Seq(STRING), NEW k \in Places(t)
  PROVE  k \in Beginnings(t) <=>
            k = 1 \/ \E j \in 1 .. k - 1 : j \in Beginnings(t) /\ TokenEnd(t, j) = k - 1
<1> DEFINE f == CHOOSE f : BeginsUpTo(t, Len(t), f)
<1>1. BeginsUpTo(t, Len(t), f)
  <2>1. Len(t) \in Nat
    OBVIOUS
  <2>2. \E g : BeginsUpTo(t, Len(t), g)
    BY <2>1, BeginsExists
  <2> QED BY <2>2
<1>2. Beginnings(t) = {b \in Places(t) : f[b]}
  BY DEF Beginnings, BeginsUpTo, Places
<1> HIDE DEF f
<1>3. \A b \in Places(t) :
        f[b] = (b = 1 \/ \E j \in 1 .. b - 1 : f[j] /\ TokenEnd(t, j) = b - 1)
  BY <1>1 DEF BeginsUpTo, Places
<1>4. \A j \in 1 .. k - 1 : j \in Beginnings(t) <=> f[j]
  BY <1>2 DEF Places
<1> QED BY <1>2, <1>3, <1>4

LEMMA FirstBegins ==
  ASSUME NEW t \in Seq(STRING), Len(t) > 0
  PROVE  1 \in Beginnings(t)
BY BeginningsAre DEF Places

LEMMA NextBegins ==
  ASSUME NEW t \in Seq(STRING), NEW b \in Beginnings(t), TokenEnd(t, b) < Len(t)
  PROVE  TokenEnd(t, b) + 1 \in Beginnings(t)
<1>1. b \in Places(t)
  BY DEF Beginnings
<1>2. TokenEnd(t, b) \in b .. Len(t)
  BY <1>1, TokenEndIn
<1>3. TokenEnd(t, b) + 1 \in Places(t) /\ b \in 1 .. (TokenEnd(t, b) + 1) - 1
  BY <1>1, <1>2 DEF Places
<1> QED BY <1>2, <1>3, BeginningsAre

\* Tokens do not overlap.
LEMMA TokensDisjoint ==
  ASSUME NEW t \in Seq(STRING), NEW b \in Beginnings(t), NEW c \in Beginnings(t), b < c
  PROVE  TokenEnd(t, b) < c
<1> DEFINE S == {d \in Beginnings(t) : \E a \in Beginnings(t) : a < d /\ TokenEnd(t, a) >= d}
<1> SUFFICES ASSUME c \in S PROVE FALSE
  <2>1. b \in Places(t) /\ c \in Places(t)
    BY DEF Beginnings
  <2>2. TokenEnd(t, b) \in Int /\ c \in Int
    BY <2>1, TokenEndIn DEF Places
  <2> QED BY <2>2
<1>1. Beginnings(t) \subseteq 1 .. Len(t)
  BY DEF Beginnings, Places
<1>2. PICK d \in S : \A e \in S : d <= e
  <2>1. S \in SUBSET Nat
    BY <1>1
  <2> HIDE DEF S
  <2> QED BY <2>1, Least
<1>3. PICK a \in Beginnings(t) : a < d /\ TokenEnd(t, a) >= d
  OBVIOUS
<1>4. d \in 1 .. Len(t) /\ a \in 1 .. Len(t) /\ TokenEnd(t, a) \in Int
  BY <1>1, TokenEndIn DEF Places
<1>5. PICK j \in 1 .. d - 1 : j \in Beginnings(t) /\ TokenEnd(t, j) = d - 1
  BY <1>3, <1>4, BeginningsAre DEF Places
<1>6. CASE j = a
  BY <1>3, <1>4, <1>5, <1>6
<1>7. CASE j < a
  <2>1. a \in S
    BY <1>3, <1>4, <1>5, <1>7
  <2> HIDE DEF S
  <2> QED BY <1>2, <1>3, <1>4, <2>1
<1>8. CASE j > a
  <2>1. j \in S
    BY <1>3, <1>4, <1>5, <1>8
  <2> HIDE DEF S
  <2> QED BY <1>2, <1>4, <1>5, <2>1
<1> QED BY <1>4, <1>5, <1>6, <1>7, <1>8

\* Every place is in a token.
LEMMA TokensCover ==
  ASSUME NEW t \in Seq(STRING), NEW k \in Places(t)
  PROVE  \E b \in Beginnings(t) : b <= k /\ k <= TokenEnd(t, b)
<1> DEFINE S == {j \in Places(t) : ~ \E b \in Beginnings(t) : b <= j /\ j <= TokenEnd(t, b)}
<1> SUFFICES ASSUME S # {} PROVE FALSE
  OBVIOUS
<1>1. PICK m \in S : \A j \in S : m <= j
  <2>1. S \in SUBSET Nat
    BY DEF Places
  <2> HIDE DEF S
  <2> QED BY <2>1, Least
<1>2. m \in 1 .. Len(t) /\ Beginnings(t) \subseteq 1 .. Len(t)
  BY DEF Places, Beginnings
<1>3. m \notin Beginnings(t)
  BY <1>2, TokenEndIn DEF Places
<1>4. m # 1
  BY <1>2, <1>3, FirstBegins
<1>5. m - 1 \in Places(t) /\ m - 1 \notin S
  <2>1. m - 1 \in Places(t) /\ ~(m <= m - 1)
    BY <1>2, <1>4 DEF Places
  <2> HIDE DEF S
  <2> QED BY <1>1, <2>1
<1>6. PICK b \in Beginnings(t) : b <= m - 1 /\ m - 1 <= TokenEnd(t, b)
  BY <1>5
<1>7. b \in Places(t) /\ TokenEnd(t, b) \in b .. Len(t)
  BY <1>2, TokenEndIn DEF Places
<1>8. TokenEnd(t, b) = m - 1
  BY <1>2, <1>6, <1>7 DEF Places
<1>9. m \in Beginnings(t)
  BY <1>2, <1>8, NextBegins
<1> QED BY <1>3, <1>9

\* The token at a place is the only one that reaches over it.
LEMMA TokenAtIs ==
  ASSUME NEW t \in Seq(STRING), NEW b \in Beginnings(t), NEW k \in b .. TokenEnd(t, b)
  PROVE  TokenAt(t, k) = b
<1>1. Beginnings(t) \subseteq 1 .. Len(t)
  BY DEF Places, Beginnings
<1>2. \A c \in Beginnings(t) : c \in Int /\ TokenEnd(t, c) \in Int
  BY <1>1, TokenEndIn DEF Places
<1>3. b <= k /\ k <= TokenEnd(t, b) /\ k \in Int
  BY <1>2
<1>4. ASSUME NEW c \in Beginnings(t), c <= k, k <= TokenEnd(t, c) PROVE c = b
  <2>1. ~(b < c)
    BY <1>2, <1>3, <1>4, TokensDisjoint
  <2>2. ~(c < b)
    BY <1>2, <1>3, <1>4, TokensDisjoint
  <2> QED BY <1>2, <2>1, <2>2
<1> QED BY <1>3, <1>4 DEF TokenAt

-----------------------------------------------------------------------------
(* Where a scan of SQL can be: at the beginning of a token, or behind the   *)
(* beginning of one that has not ended before k.                            *)

InQuote(t, k, m) ==
    \E b \in Beginnings(t) :
        /\ b < k /\ t[b] = QuoteOf[m]
        /\ \A j \in b + 1 .. k - 1 : t[j] # QuoteOf[m]

InLine(t, k) ==
    \E b \in Beginnings(t) :
        /\ Starts(t, b, "-", "-") /\ b + 2 <= k
        /\ \A j \in b + 2 .. k - 1 : t[j] # NewLine

InBlock(t, k) ==
    \E b \in Beginnings(t) :
        /\ Starts(t, b, "/", "*") /\ b + 2 <= k
        /\ \A j \in b + 3 .. k : j <= Len(t) => ~(t[j - 1] = "*" /\ t[j] = "/")

LEMMA Quotes ==
  ASSUME NEW m
  PROVE  /\ m \in DOMAIN QuoteOf <=> m \in {"single", "double"}
         /\ m \in DOMAIN QuoteOf => QuoteOf[m] \in {"'", Quote}
         /\ QuoteOf["single"] = "'" /\ QuoteOf["double"] = Quote
BY DEF QuoteOf

LEMMA BeginsIn ==
  ASSUME NEW t \in Seq(STRING), NEW b \in Beginnings(t)
  PROVE  b \in Places(t) /\ b \in 1 .. Len(t) /\ TokenEnd(t, b) \in b .. Len(t)
<1>1. b \in Places(t)
  BY DEF Beginnings
<1> QED BY <1>1, TokenEndIn DEF Places

\* In a literal, the scan goes on in it, leaves it, or enters the one next to it.
LEMMA QuotedStep ==
  ASSUME NEW t \in Seq(STRING), NEW k \in Places(t), NEW m \in DOMAIN QuoteOf, InQuote(t, k, m)
  PROVE  /\ InLiteral(t, k) /\ k \notin Beginnings(t)
         /\ t[k] # QuoteOf[m] => InQuote(t, k + 1, m)
         /\ t[k] = QuoteOf[m] /\ k < Len(t) => k + 1 \in Beginnings(t)
         /\ t[k] = QuoteOf[m] /\ k < Len(t) /\ t[k + 1] = QuoteOf[m] =>
               InLiteral(t, k + 1) /\ InQuote(t, k + 2, m)
<1>1. PICK b \in Beginnings(t) :
        /\ b < k /\ t[b] = QuoteOf[m]
        /\ \A j \in b + 1 .. k - 1 : t[j] # QuoteOf[m]
  BY DEF InQuote
<1>2. b \in Places(t) /\ b \in 1 .. Len(t) /\ TokenEnd(t, b) \in b .. Len(t) /\ k \in 1 .. Len(t)
  BY BeginsIn DEF Places
<1>3. t[b] \in {"'", Quote}
  BY <1>1, Quotes
<1>4. TokenEnd(t, b) >= k /\ (t[k] = QuoteOf[m] => TokenEnd(t, b) = k)
  <2>1. /\ \A j \in b + 1 .. TokenEnd(t, b) - 1 : t[j] # t[b]
        /\ \/ TokenEnd(t, b) > b /\ t[TokenEnd(t, b)] = t[b]
           \/ TokenEnd(t, b) = Len(t) /\ \A j \in b + 1 .. Len(t) : t[j] # t[b]
    BY <1>2, <1>3, LiteralEnd
  <2> QED BY <1>1, <1>2, <2>1
<1>5. TokenAt(t, k) = b
  BY <1>1, <1>2, <1>4, TokenAtIs
<1>6. InLiteral(t, k)
  BY <1>3, <1>5 DEF InLiteral
<1>7. k \notin Beginnings(t)
  BY <1>1, <1>2, <1>4, TokensDisjoint
<1>8. ASSUME t[k] # QuoteOf[m] PROVE InQuote(t, k + 1, m)
  BY <1>1, <1>2, <1>8 DEF InQuote
<1>9. ASSUME t[k] = QuoteOf[m], k < Len(t) PROVE k + 1 \in Beginnings(t)
  BY <1>4, <1>9, NextBegins
<1>10. ASSUME t[k] = QuoteOf[m], k < Len(t), t[k + 1] = QuoteOf[m]
       PROVE  InLiteral(t, k + 1) /\ InQuote(t, k + 2, m)
  <2>1. k + 1 \in Beginnings(t)
    BY <1>9, <1>10
  <2>2. TokenAt(t, k + 1) = k + 1
    <3>1. TokenEnd(t, k + 1) \in k + 1 .. Len(t)
      BY <2>1, BeginsIn
    <3> QED BY <1>2, <2>1, <3>1, TokenAtIs
  <2>3. InLiteral(t, k + 1)
    BY <1>10, <2>2, Quotes DEF InLiteral
  <2>4. InQuote(t, k + 2, m)
    BY <1>2, <1>10, <2>1 DEF InQuote
  <2> QED BY <2>3, <2>4
<1> QED BY <1>6, <1>7, <1>8, <1>9, <1>10

\* In a line comment
LEMMA LineStep ==
  ASSUME NEW t \in Seq(STRING), NEW k \in Places(t), InLine(t, k)
  PROVE  /\ InComment(t, k)
         /\ t[k] # NewLine => InLine(t, k + 1)
         /\ t[k] = NewLine /\ k < Len(t) => k + 1 \in Beginnings(t)
<1>1. PICK b \in Beginnings(t) :
        /\ Starts(t, b, "-", "-") /\ b + 2 <= k
        /\ \A j \in b + 2 .. k - 1 : t[j] # NewLine
  BY DEF InLine
<1>2. b \in Places(t) /\ b \in 1 .. Len(t) /\ TokenEnd(t, b) \in b .. Len(t) /\ k \in 1 .. Len(t)
  BY BeginsIn DEF Places
<1>3. TokenEnd(t, b) >= k /\ (t[k] = NewLine => TokenEnd(t, b) = k)
  <2>1. /\ \A j \in b + 2 .. TokenEnd(t, b) - 1 : t[j] # NewLine
        /\ \/ TokenEnd(t, b) > b + 1 /\ t[TokenEnd(t, b)] = NewLine
           \/ TokenEnd(t, b) = Len(t) /\ \A j \in b + 2 .. Len(t) : t[j] # NewLine
    BY <1>1, <1>2, LineCommentEnd
  <2> QED BY <1>1, <1>2, <2>1
<1>4. TokenAt(t, k) = b
  BY <1>1, <1>2, <1>3, TokenAtIs
<1>5. InComment(t, k)
  BY <1>1, <1>4 DEF InComment
<1>6. ASSUME t[k] # NewLine PROVE InLine(t, k + 1)
  BY <1>1, <1>2, <1>6 DEF InLine
<1>7. ASSUME t[k] = NewLine, k < Len(t) PROVE k + 1 \in Beginnings(t)
  BY <1>3, <1>7, NextBegins
<1> QED BY <1>5, <1>6, <1>7

\* In a block comment
LEMMA BlockStep ==
  ASSUME NEW t \in Seq(STRING), NEW k \in Places(t), InBlock(t, k)
  PROVE  /\ InComment(t, k)
         /\ ~Starts(t, k, "*", "/") => InBlock(t, k + 1)
         /\ Starts(t, k, "*", "/") =>
               InComment(t, k + 1) /\ (k + 1 < Len(t) => k + 2 \in Beginnings(t))
<1>1. PICK b \in Beginnings(t) :
        /\ Starts(t, b, "/", "*") /\ b + 2 <= k
        /\ \A j \in b + 3 .. k : j <= Len(t) => ~(t[j - 1] = "*" /\ t[j] = "/")
  BY DEF InBlock
<1>2. b \in Places(t) /\ b \in 1 .. Len(t) /\ TokenEnd(t, b) \in b .. Len(t) /\ k \in 1 .. Len(t)
  BY BeginsIn DEF Places
<1>3. /\ TokenEnd(t, b) >= k
      /\ Starts(t, k, "*", "/") => TokenEnd(t, b) = k + 1
  <2>1. /\ \A j \in b + 3 .. TokenEnd(t, b) - 1 : ~(t[j - 1] = "*" /\ t[j] = "/")
        /\ \/ /\ TokenEnd(t, b) > b + 2
              /\ t[TokenEnd(t, b) - 1] = "*" /\ t[TokenEnd(t, b)] = "/"
           \/ /\ TokenEnd(t, b) = Len(t)
              /\ \A j \in b + 3 .. Len(t) : ~(t[j - 1] = "*" /\ t[j] = "/")
    BY <1>1, <1>2, BlockCommentEnd
  <2>2. TokenEnd(t, b) > k \/ TokenEnd(t, b) = Len(t)
    BY <1>1, <1>2, <2>1
  <2>3. ASSUME Starts(t, k, "*", "/") PROVE TokenEnd(t, b) = k + 1
    <3>1. t[(k + 1) - 1] = "*" /\ t[k + 1] = "/" /\ k + 1 \in b + 3 .. Len(t)
      BY <1>1, <1>2, <2>3 DEF Starts
    <3>2. ~(TokenEnd(t, b) > k + 1)
      BY <1>2, <2>1, <3>1
    <3> QED BY <1>2, <2>2, <3>1, <3>2
  <2> QED BY <1>2, <2>2, <2>3
<1>4. TokenAt(t, k) = b
  BY <1>1, <1>2, <1>3, TokenAtIs
<1>5. InComment(t, k)
  BY <1>1, <1>4 DEF InComment
<1>6. ASSUME ~Starts(t, k, "*", "/") PROVE InBlock(t, k + 1)
  <2>1. \A j \in b + 3 .. k + 1 : j <= Len(t) => ~(t[j - 1] = "*" /\ t[j] = "/")
    BY <1>1, <1>2, <1>6 DEF Starts
  <2> QED BY <1>1, <1>2, <2>1 DEF InBlock
<1>7. ASSUME Starts(t, k, "*", "/")
      PROVE  InComment(t, k + 1) /\ (k + 1 < Len(t) => k + 2 \in Beginnings(t))
  <2>1. TokenAt(t, k + 1) = b
    BY <1>1, <1>2, <1>3, <1>7, TokenAtIs
  <2>2. InComment(t, k + 1)
    BY <1>1, <2>1 DEF InComment
  <2>3. (k + 1) + 1 = k + 2
    BY <1>2
  <2> QED BY <1>3, <1>7, <2>2, <2>3, NextBegins
<1> QED BY <1>5, <1>6, <1>7

\* At the beginning of a token
LEMMA CodeStep ==
  ASSUME NEW t \in Seq(STRING), NEW k \in Beginnings(t)
  PROVE  /\ \A m \in DOMAIN QuoteOf :
               t[k] = QuoteOf[m] => InLiteral(t, k) /\ InQuote(t, k + 1, m)
         /\ Starts(t, k, "-", "-") => InComment(t, k) /\ InComment(t, k + 1) /\ InLine(t, k + 2)
         /\ Starts(t, k, "/", "*") => InComment(t, k) /\ InComment(t, k + 1) /\ InBlock(t, k + 2)
         /\ t[k] \notin {"'", Quote} => ~InLiteral(t, k)
         /\ ~Starts(t, k, "-", "-") /\ ~Starts(t, k, "/", "*") => ~InComment(t, k)
         /\ /\ t[k] \notin {"'", Quote}
            /\ ~Starts(t, k, "-", "-") /\ ~Starts(t, k, "/", "*")
            /\ k < Len(t)
            => k + 1 \in Beginnings(t)
<1>1. k \in Places(t) /\ k \in 1 .. Len(t) /\ TokenEnd(t, k) \in k .. Len(t)
  BY BeginsIn
<1>2. TokenAt(t, k) = k
  BY <1>1, TokenAtIs
<1>3. ASSUME NEW m \in DOMAIN QuoteOf, t[k] = QuoteOf[m]
      PROVE  InLiteral(t, k) /\ InQuote(t, k + 1, m)
  <2>1. InLiteral(t, k)
    BY <1>2, <1>3, Quotes DEF InLiteral
  <2> QED BY <1>1, <1>3, <2>1 DEF InQuote
<1>4. ASSUME Starts(t, k, "-", "-")
      PROVE  InComment(t, k) /\ InComment(t, k + 1) /\ InLine(t, k + 2)
  <2>1. TokenEnd(t, k) \in k + 1 .. Len(t)
    BY <1>1, <1>4, LineCommentEnd
  <2>2. TokenAt(t, k + 1) = k
    BY <1>1, <2>1, TokenAtIs
  <2> QED BY <1>1, <1>2, <1>4, <2>2 DEF InComment, InLine
<1>5. ASSUME Starts(t, k, "/", "*")
      PROVE  InComment(t, k) /\ InComment(t, k + 1) /\ InBlock(t, k + 2)
  <2>1. TokenEnd(t, k) \in k + 1 .. Len(t)
    BY <1>1, <1>5, BlockCommentEnd
  <2>2. TokenAt(t, k + 1) = k
    BY <1>1, <2>1, TokenAtIs
  <2> QED BY <1>1, <1>2, <1>5, <2>2 DEF InComment, InBlock
<1>6. t[k] \notin {"'", Quote} => ~InLiteral(t, k)
  BY <1>2 DEF InLiteral
<1>7. ~Starts(t, k, "-", "-") /\ ~Starts(t, k, "/", "*") => ~InComment(t, k)
  BY <1>2 DEF InComment
<1>8. ASSUME t[k] \notin {"'", Quote}, ~Starts(t, k, "-", "-"), ~Starts(t, k, "/", "*"),
             k < Len(t)
      PROVE  k + 1 \in Beginnings(t)
  <2>1. TokenEnd(t, k) = k
    BY <1>1, <1>8, OtherEnd
  <2> QED BY <1>8, <2>1, NextBegins
<1> QED BY <1>3, <1>4, <1>5, <1>6, <1>7, <1>8

-----------------------------------------------------------------------------
(* The types.                                                               *)

\* NameEnd finds the end of a name, or of the text.
LEMMA NameEndIs ==
  ASSUME text \in Seq(STRING), NEW k \in 1 .. Len(text) + 1
  PROVE  /\ NameEnd(k) \in k .. Len(text) + 1
         /\ \A j \in k .. NameEnd(k) - 1 : text[j] \in IdentifierChar
         /\ NameEnd(k) > Len(text) \/ text[NameEnd(k)] \notin IdentifierChar
<1> DEFINE S == {e \in k .. Len(text) + 1 : e > Len(text) \/ text[e] \notin IdentifierChar}
<1>1. PICK e \in S : \A d \in S : e <= d
  <2>1. S \in SUBSET Nat /\ Len(text) + 1 \in S
    OBVIOUS
  <2> HIDE DEF S
  <2> QED BY <2>1, Least
<1>2. \A j \in k .. e - 1 : text[j] \in IdentifierChar
  <2> SUFFICES ASSUME NEW j \in k .. e - 1, text[j] \notin IdentifierChar PROVE FALSE
    OBVIOUS
  <2>1. j \in S /\ j < e
    OBVIOUS
  <2>2. e \in Int /\ j \in Int
    OBVIOUS
  <2> HIDE DEF S
  <2> QED BY <1>1, <2>1, <2>2
<1>3. \E d \in k .. Len(text) + 1 :
        /\ \A j \in k .. d - 1 : text[j] \in IdentifierChar
        /\ d > Len(text) \/ text[d] \notin IdentifierChar
  BY <1>2
<1> DEFINE P(d) == /\ \A j \in k .. d - 1 : text[j] \in IdentifierChar
                   /\ d > Len(text) \/ text[d] \notin IdentifierChar
<1>4. NameEnd(k) = CHOOSE d \in k .. Len(text) + 1 : P(d)
  BY DEF NameEnd
<1>5. \E d \in k .. Len(text) + 1 : P(d)
  BY <1>3
<1>6. NameEnd(k) \in k .. Len(text) + 1 /\ P(NameEnd(k))
  <2> HIDE DEF P
  <2> QED BY <1>4, <1>5
<1> QED BY <1>6

LEMMA TypesStart ==
  Init => ScanTypes
BY ScannerAssumption DEF Init, ScanTypes

LEMMA TypesKeep ==
  ASSUME ScanTypes, [Next]_vars
  PROVE  ScanTypes'
<1> USE DEF ScanTypes
<1>1. CASE DepthInString
  BY <1>1 DEF DepthInString, AfterInString
<1>2. CASE DepthOutside
  BY <1>2 DEF DepthOutside, Verdict
<1>3. CASE DepthEnds \/ ParamsEnd
  BY <1>3 DEF DepthEnds, ParamsEnd, Verdict
<1>4. CASE InLineComment \/ MultiSkips \/ MultiEnds \/ SecondStatement
  BY <1>4 DEF InLineComment, MultiSkips, MultiEnds, SecondStatement, Verdict, At
<1>5. CASE InBlockComment
  BY <1>5 DEF InBlockComment, Pair
<1>6. CASE InQuotes
  <2>1. /\ mode' \in {"code", mode} /\ i' \in {i + 1, i + 2} /\ i <= Len(text)
        /\ i' = i + 2 => i < Len(text)
        /\ UNCHANGED <<scan, text, depth, verdict>>
    BY <1>6 DEF InQuotes, Pair
  <2> QED BY <1>6, <2>1 DEF InQuotes
<1>7. CASE OpenQuote
  <2>1. mode' \in {"single", "double"} /\ i <= Len(text)
    BY <1>7, Quotes DEF OpenQuote, At
  <2> QED BY <1>7, <2>1 DEF OpenQuote
<1>8. CASE OpenComment
  BY <1>8 DEF OpenComment, Pair
<1>9. CASE CopyInQuotes
  <2>1. /\ mode' \in {"code", mode} /\ i' \in {i + 1, i + 2} /\ i <= Len(text)
        /\ i' = i + 2 => i < Len(text)
        /\ UNCHANGED <<scan, text, depth, verdict>>
    BY <1>9 DEF CopyInQuotes, Pair
  <2> QED BY <1>9, <2>1 DEF CopyInQuotes
<1>10. CASE Placeholder
  <2>1. i + 1 \in 1 .. Len(text) + 1 /\ i + 1 > 1
    BY <1>10 DEF Placeholder, AtParameter
  <2>2. NameEnd(i + 1) \in 1 .. Len(text) + 1
    BY <2>1, NameEndIs
  <2>3. /\ UNCHANGED <<text, mode, depth>> /\ scan = "params"
        /\ \/ i' = NameEnd(i + 1) /\ UNCHANGED <<scan, verdict>>
           \/ Verdict("missing") /\ UNCHANGED i
    BY <1>10 DEF Placeholder
  <2> QED BY <2>2, <2>3 DEF Verdict
<1>11. CASE Copy
  BY <1>11 DEF Copy
<1>12. CASE UNCHANGED vars
  BY <1>12 DEF vars
<1> QED BY <1>1, <1>2, <1>3, <1>4, <1>5, <1>6, <1>7, <1>8, <1>9, <1>10, <1>11, <1>12
       DEF Next, Ended

-----------------------------------------------------------------------------
(* The search for a second statement.                                       *)

\* If k is a semicolon that ends a statement, nothing but blanks follows it.
Harmless(t, k) ==
    t[k] = Semicolon /\ ~InLiteral(t, k) /\ ~InComment(t, k) =>
        \A j \in k + 1 .. Len(t) : t[j] \in Blanks

\* The mode is what the tokens of the text say of place i, and no semicolon
\* that lies behind i has ended a statement before the last.
MultiInv ==
    /\ scan = "multi" =>
          /\ mode = "code" /\ i <= Len(text) => i \in Beginnings(text)
          /\ mode \in DOMAIN QuoteOf => InQuote(text, i, mode)
          /\ mode = "line" => InLine(text, i)
          /\ mode = "block" => InBlock(text, i)
          /\ \A k \in 1 .. i - 1 : Harmless(text, k)
    /\ scan = "params" => \A k \in Places(text) : Harmless(text, k)
    /\ ScriptsRefused

LEMMA MultiStarts ==
  Init => MultiInv
<1> SUFFICES ASSUME Init PROVE MultiInv
  OBVIOUS
<1>1. /\ text \in Seq(STRING) /\ i = 1 /\ mode = "code" /\ verdict = "none"
      /\ scan \in {"depth", "multi"}
  BY ScannerAssumption DEF Init
<1>2. 1 <= Len(text) => 1 \in Beginnings(text)
  BY <1>1, FirstBegins
<1>3. "code" \notin DOMAIN QuoteOf
  BY Quotes
<1> QED BY <1>1, <1>2, <1>3 DEF MultiInv, ScriptsRefused

\* A step over harmless places that lands where its mode says
LEMMA MultiMoves ==
  ASSUME ScanTypes, MultiInv, scan = "multi", UNCHANGED <<scan, text, verdict>>,
         NEW n \in {i + 1, i + 2}, i' = n,
         \A k \in i .. n - 1 : Harmless(text, k),
         mode' = "code" /\ n <= Len(text) => n \in Beginnings(text),
         mode' \in DOMAIN QuoteOf => InQuote(text, n, mode'),
         mode' = "line" => InLine(text, n),
         mode' = "block" => InBlock(text, n)
  PROVE  MultiInv'
<1>1. verdict' = "none" /\ scan' = "multi" /\ text' = text /\ i \in Nat /\ verdict = "none"
  BY DEF ScanTypes
<1>2. \A k \in 1 .. n - 1 : Harmless(text, k)
  <2>1. \A k \in 1 .. i - 1 : Harmless(text, k)
    BY DEF MultiInv
  <2> QED BY <1>1, <2>1
<1>3. ScriptsRefused'
  BY <1>1 DEF ScriptsRefused
<1> QED BY <1>1, <1>2, <1>3 DEF MultiInv

LEMMA InLineCommentKeeps ==
  ASSUME ScanTypes, MultiInv, InLineComment
  PROVE  MultiInv'
<1>1. /\ scan = "multi" /\ UNCHANGED <<scan, text, verdict>> /\ i' = i + 1
      /\ text \in Seq(STRING) /\ i \in 1 .. Len(text) /\ i \in Places(text)
      /\ mode = "line" /\ mode' = IF text[i] = NewLine THEN "code" ELSE "line"
  BY DEF ScanTypes, InLineComment, At, Places
<1>2. InLine(text, i)
  BY <1>1 DEF MultiInv
<1>3. InComment(text, i) /\ Harmless(text, i)
  BY <1>1, <1>2, LineStep DEF Harmless
<1>4. CASE text[i] = NewLine
  BY <1>1, <1>2, <1>3, <1>4, LineStep, Quotes, MultiMoves
<1>5. CASE text[i] # NewLine
  BY <1>1, <1>2, <1>3, <1>5, LineStep, Quotes, MultiMoves
<1> QED BY <1>4, <1>5

LEMMA InBlockCommentKeeps ==
  ASSUME ScanTypes, MultiInv, InBlockComment
  PROVE  MultiInv'
<1>1. /\ scan = "multi" /\ UNCHANGED <<scan, text, verdict>>
      /\ text \in Seq(STRING) /\ i \in 1 .. Len(text) /\ i \in Places(text)
      /\ mode = "block"
  BY DEF ScanTypes, InBlockComment, Places
<1>2. InBlock(text, i)
  BY <1>1 DEF MultiInv
<1>3. Harmless(text, i)
  BY <1>1, <1>2, BlockStep DEF Harmless
<1>4. Pair("*", "/") <=> Starts(text, i, "*", "/")
  BY <1>1 DEF Pair, At, Starts
<1>5. CASE Pair("*", "/")
  <2>1. mode' = "code" /\ i' = i + 2 /\ i + 1 <= Len(text)
    BY <1>1, <1>5 DEF InBlockComment, Pair
  <2>2. Harmless(text, i + 1)
    BY <1>1, <1>2, <1>4, <1>5, BlockStep DEF Harmless
  <2>3. i + 2 <= Len(text) => i + 2 \in Beginnings(text)
    BY <1>1, <1>2, <1>4, <1>5, BlockStep
  <2>4. \A k \in i .. (i + 2) - 1 : Harmless(text, k)
    <3>1. \A k \in i .. (i + 2) - 1 : k = i \/ k = i + 1
      BY <1>1, <2>1
    <3> QED BY <1>3, <2>2, <3>1
  <2> QED BY <1>1, <2>1, <2>3, <2>4, Quotes, MultiMoves
<1>6. CASE ~Pair("*", "/")
  <2>1. mode' = "block" /\ i' = i + 1
    BY <1>1, <1>6 DEF InBlockComment
  <2>2. InBlock(text, i + 1)
    BY <1>1, <1>2, <1>4, <1>6, BlockStep
  <2> QED BY <1>1, <1>3, <2>1, <2>2, Quotes, MultiMoves
<1> QED BY <1>5, <1>6

LEMMA InQuotesKeeps ==
  ASSUME ScanTypes, MultiInv, InQuotes
  PROVE  MultiInv'
<1> DEFINE q == QuoteOf[mode]
<1>1. /\ scan = "multi" /\ UNCHANGED <<scan, text, verdict>>
      /\ text \in Seq(STRING) /\ i \in 1 .. Len(text) /\ i \in Places(text)
      /\ mode \in DOMAIN QuoteOf
  BY DEF ScanTypes, InQuotes, Places
<1>2. InQuote(text, i, mode)
  BY <1>1 DEF MultiInv
<1>3. Harmless(text, i)
  BY <1>1, <1>2, QuotedStep DEF Harmless
<1>4. CASE Pair(q, q)
  <2>1. /\ mode' = mode /\ i' = i + 2
        /\ i < Len(text) /\ text[i] = q /\ text[i + 1] = q
    BY <1>4 DEF InQuotes, Pair, At
  <2>2. InLiteral(text, i + 1) /\ InQuote(text, i + 2, mode)
    BY <1>1, <1>2, <2>1, QuotedStep
  <2>3. \A k \in i .. (i + 2) - 1 : Harmless(text, k)
    <3>1. \A k \in i .. (i + 2) - 1 : k = i \/ k = i + 1
      BY <1>1, <2>1
    <3> QED BY <1>3, <2>2, <3>1 DEF Harmless
  <2> QED BY <1>1, <2>1, <2>2, <2>3, Quotes, MultiMoves
<1>5. CASE At(q) /\ ~Pair(q, q)
  <2>1. mode' = "code" /\ i' = i + 1 /\ text[i] = q
    BY <1>5 DEF InQuotes, At
  <2>2. i + 1 <= Len(text) => i + 1 \in Beginnings(text)
    BY <1>1, <1>2, <2>1, QuotedStep
  <2> QED BY <1>1, <1>3, <2>1, <2>2, Quotes, MultiMoves
<1>6. CASE ~At(q)
  <2>1. mode' = mode /\ i' = i + 1 /\ text[i] # q
    BY <1>1, <1>6 DEF InQuotes, Pair, At
  <2>2. InQuote(text, i + 1, mode)
    BY <1>1, <1>2, <2>1, QuotedStep
  <2> QED BY <1>1, <1>3, <2>1, <2>2, Quotes, MultiMoves
<1> QED BY <1>4, <1>5, <1>6

LEMMA OpenQuoteKeeps ==
  ASSUME ScanTypes, MultiInv, OpenQuote
  PROVE  MultiInv'
<1>1. /\ scan = "multi" /\ UNCHANGED <<scan, text, verdict>> /\ i' = i + 1 /\ mode = "code"
      /\ text \in Seq(STRING) /\ i \in Nat
  BY DEF ScanTypes, OpenQuote
<1>2. mode' \in DOMAIN QuoteOf /\ i <= Len(text) /\ text[i] = QuoteOf[mode']
  BY DEF OpenQuote, At
<1>3. i \in Beginnings(text)
  BY <1>1, <1>2 DEF MultiInv
<1>4. InLiteral(text, i) /\ InQuote(text, i + 1, mode')
  BY <1>1, <1>2, <1>3, CodeStep
<1>5. Harmless(text, i)
  BY <1>4 DEF Harmless
<1> QED BY <1>1, <1>2, <1>4, <1>5, Quotes, MultiMoves

LEMMA OpenCommentKeeps ==
  ASSUME ScanTypes, MultiInv, OpenComment
  PROVE  MultiInv'
<1>1. /\ scan = "multi" /\ UNCHANGED <<scan, text, verdict>> /\ i' = i + 2 /\ mode = "code"
      /\ text \in Seq(STRING) /\ i \in Nat
  BY DEF ScanTypes, OpenComment
<1>2. \/ Starts(text, i, "-", "-") /\ mode' = "line"
      \/ Starts(text, i, "/", "*") /\ mode' = "block"
  BY DEF OpenComment, Pair, At, Starts
<1>3. i \in Beginnings(text)
  BY <1>1, <1>2 DEF MultiInv, Starts
<1>4. /\ InComment(text, i) /\ InComment(text, i + 1)
      /\ mode' = "line" => InLine(text, i + 2)
      /\ mode' = "block" => InBlock(text, i + 2)
  BY <1>1, <1>2, <1>3, CodeStep
<1>5. \A k \in i .. (i + 2) - 1 : Harmless(text, k)
  <2>1. \A k \in i .. (i + 2) - 1 : k = i \/ k = i + 1
    BY <1>1
  <2> QED BY <1>4, <2>1 DEF Harmless
<1> QED BY <1>1, <1>2, <1>4, <1>5, Quotes, MultiMoves

LEMMA SecondStatementKeeps ==
  ASSUME ScanTypes, MultiInv, SecondStatement
  PROVE  MultiInv'
<1>1. /\ scan = "multi" /\ scan' = "none" /\ text' = text /\ verdict' = "multi"
      /\ text \in Seq(STRING) /\ i \in 1 .. Len(text) /\ text[i] = Semicolon /\ mode = "code"
      /\ ~BlankAfter(i)
  BY DEF ScanTypes, SecondStatement, Verdict, At
<1>2. i \in Beginnings(text) /\ i \in Places(text)
  BY <1>1 DEF MultiInv, Places
<1>3. ~InLiteral(text, i) /\ ~InComment(text, i)
  <2>1. text[i] \notin {"'", Quote} /\ ~Starts(text, i, "-", "-") /\ ~Starts(text, i, "/", "*")
    BY <1>1, SqlCharacters DEF Starts
  <2> QED BY <1>1, <1>2, <2>1, CodeStep
<1> QED BY <1>1, <1>2, <1>3 DEF MultiInv, ScriptsRefused, BlankAfter

LEMMA MultiSkipsKeeps ==
  ASSUME ScanTypes, MultiInv, MultiSkips
  PROVE  MultiInv'
<1>1. /\ scan = "multi" /\ UNCHANGED <<scan, text, verdict, mode>> /\ i' = i + 1
      /\ text \in Seq(STRING) /\ i \in 1 .. Len(text) /\ mode = "code"
      /\ text[i] \notin {"'", Quote}
      /\ text[i] = Semicolon => BlankAfter(i)
  BY DEF ScanTypes, MultiSkips, At
<1>2. ~Starts(text, i, "-", "-") /\ ~Starts(text, i, "/", "*")
  BY <1>1 DEF MultiSkips, Pair, At, Starts
<1>3. i \in Beginnings(text)
  BY <1>1 DEF MultiInv
<1>4. i + 1 <= Len(text) => i + 1 \in Beginnings(text)
  BY <1>1, <1>2, <1>3, CodeStep
<1>5. Harmless(text, i)
  BY <1>1 DEF Harmless, BlankAfter
<1> QED BY <1>1, <1>4, <1>5, Quotes, MultiMoves

LEMMA MultiEndsKeeps ==
  ASSUME ScanTypes, MultiInv, MultiEnds
  PROVE  MultiInv'
<1>1. /\ scan = "multi" /\ scan' = "params" /\ UNCHANGED <<text, verdict>>
      /\ i - 1 = Len(text) /\ verdict = "none"
  BY DEF ScanTypes, MultiEnds
<1> QED BY <1>1 DEF MultiInv, ScriptsRefused, Places

\* A text whose parameters are made positional has no second statement.
LEMMA MultiStays ==
  ASSUME ScanTypes, MultiInv, scan = "params", text' = text,
         \/ UNCHANGED <<scan, verdict>>
         \/ scan' = "none" /\ verdict' \in {"rewritten", "missing"}
  PROVE  MultiInv'
<1>1. verdict = "none" /\ \A k \in Places(text) : Harmless(text, k)
  BY DEF ScanTypes, MultiInv
<1>2. CASE UNCHANGED <<scan, verdict>>
  BY <1>1, <1>2 DEF MultiInv, ScriptsRefused
<1>3. CASE scan' = "none" /\ verdict' \in {"rewritten", "missing"}
  BY <1>1, <1>3 DEF MultiInv, ScriptsRefused, Harmless
<1> QED BY <1>2, <1>3

LEMMA MultiKeeps ==
  ASSUME ScanTypes, MultiInv, [Next]_vars
  PROVE  MultiInv'
<1>1. CASE DepthInString \/ DepthOutside \/ DepthEnds
  <2>1. /\ text' = text /\ verdict' \in {"none", "allowed", "tooDeep"}
        /\ scan' \in {"depth", "none"}
    BY <1>1 DEF ScanTypes, DepthInString, DepthOutside, DepthEnds, Verdict
  <2> QED BY <2>1 DEF MultiInv, ScriptsRefused
<1>2. CASE InLineComment
  BY <1>2, InLineCommentKeeps
<1>3. CASE InBlockComment
  BY <1>3, InBlockCommentKeeps
<1>4. CASE InQuotes
  BY <1>4, InQuotesKeeps
<1>5. CASE OpenQuote
  BY <1>5, OpenQuoteKeeps
<1>6. CASE OpenComment
  BY <1>6, OpenCommentKeeps
<1>7. CASE SecondStatement
  BY <1>7, SecondStatementKeeps
<1>8. CASE MultiSkips
  BY <1>8, MultiSkipsKeeps
<1>9. CASE MultiEnds
  BY <1>9, MultiEndsKeeps
<1>10. CASE CopyInQuotes \/ Placeholder \/ Copy \/ ParamsEnd
  <2>1. /\ scan = "params" /\ text' = text
        /\ \/ UNCHANGED <<scan, verdict>>
           \/ scan' = "none" /\ verdict' \in {"rewritten", "missing"}
    BY <1>10 DEF CopyInQuotes, Placeholder, Copy, ParamsEnd, Verdict
  <2> QED BY <2>1, MultiStays
<1>11. CASE UNCHANGED vars
  BY <1>11 DEF vars, MultiInv, ScriptsRefused
<1> QED BY <1>1, <1>2, <1>3, <1>4, <1>5, <1>6, <1>7, <1>8, <1>9, <1>10, <1>11 DEF Next, Ended

-----------------------------------------------------------------------------
(* What a text is rewritten to, from one place to the next.                 *)

Letters == STRING \union {"$"}

\* What stands for place k in the rewritten text
Piece(t, k) ==
    IF Parameter(t, k) THEN <<"$">> ELSE IF OfName(t, k) THEN <<>> ELSE <<t[k]>>

\* The function that FlattenSeq is defined with, up to member n
FlattenUpTo(s, n, f) ==
    f = [m \in 1 .. n |-> IF m = 1 THEN s[m] ELSE f[m - 1] \o s[m]]

LEMMA FlattenExists ==
  ASSUME NEW s, NEW n \in Nat
  PROVE  \E f : FlattenUpTo(s, n, f)
<1> DEFINE S == {m \in Nat : ~ \E f : FlattenUpTo(s, m, f)}
<1> SUFFICES ASSUME S # {} PROVE FALSE
  OBVIOUS
<1>1. PICK m \in S : \A k \in S : m <= k
  <2>1. S \in SUBSET Nat
    OBVIOUS
  <2> HIDE DEF S
  <2> QED BY <2>1, Least
<1>2. CASE m = 0
  <2> DEFINE f == [k \in 1 .. 0 |-> <<>>]
  <2>1. FlattenUpTo(s, 0, f)
    BY DEF FlattenUpTo
  <2> QED BY <1>2, <2>1
<1>3. CASE m # 0
  <2>1. m - 1 \in Nat /\ m - 1 \notin S /\ m \in Nat
    <3>1. m \in Nat
      OBVIOUS
    <3>2. m - 1 \in Nat /\ ~(m <= m - 1)
      BY <1>3, <3>1
    <3> HIDE DEF S
    <3> QED BY <1>1, <3>1, <3>2
  <2>2. PICK f : FlattenUpTo(s, m - 1, f)
    BY <2>1
  <2> DEFINE last == IF m = 1 THEN s[m] ELSE f[m - 1] \o s[m]
             g == [k \in 1 .. m |-> IF k = m THEN last ELSE f[k]]
             h == [k \in 1 .. m |-> IF k = 1 THEN s[k] ELSE g[k - 1] \o s[k]]
  <2>3. ASSUME NEW k \in 1 .. m PROVE h[k] = g[k]
    <3>1. k # 1 => k - 1 \in 1 .. m /\ k - 1 # m /\ g[k - 1] = f[k - 1]
      BY <2>1
    <3>2. CASE k = m
      <4>1. g[k] = last
        BY <3>2
      <4> HIDE DEF g
      <4> QED BY <3>1, <3>2, <4>1
    <3>3. CASE k # m
      <4>1. g[k] = f[k] /\ k \in 1 .. m - 1
        BY <2>1, <3>3
      <4>2. f[k] = IF k = 1 THEN s[k] ELSE f[k - 1] \o s[k]
        BY <2>2, <4>1 DEF FlattenUpTo
      <4> HIDE DEF g
      <4> QED BY <3>1, <4>1, <4>2
    <3> QED BY <3>2, <3>3
  <2>4. g = h
    <3> HIDE DEF last
    <3> QED BY <2>3
  <2>5. FlattenUpTo(s, m, g)
    BY <2>4 DEF FlattenUpTo
  <2> HIDE DEF g
  <2> QED BY <2>1, <2>5
<1> QED BY <1>2, <1>3

\* What the places up to n are rewritten to
Flattened(s) == CHOOSE f : FlattenUpTo(s, Len(s), f)

PieceSeq(t) == [k \in Places(t) |-> Piece(t, k)]

Written(t, n) == IF n = 0 THEN <<>> ELSE Flattened(PieceSeq(t))[n]

LEMMA PieceSeqIs ==
  ASSUME NEW t \in Seq(STRING)
  PROVE  /\ PieceSeq(t) \in Seq(Seq(Letters)) /\ Len(PieceSeq(t)) = Len(t)
         /\ \A k \in Places(t) : PieceSeq(t)[k] = Piece(t, k) /\ Piece(t, k) \in Seq(Letters)
<1>1. ASSUME NEW k \in Places(t) PROVE Piece(t, k) \in Seq(Letters)
  <2>1. t[k] \in Letters /\ "$" \in Letters
    BY DEF Letters, Places
  <2>2. <<"$">> \in Seq(Letters) /\ <<t[k]>> \in Seq(Letters) /\ <<>> \in Seq(Letters)
    BY <2>1
  <2> QED BY <2>2 DEF Piece
<1>2. PieceSeq(t) \in [1 .. Len(t) -> Seq(Letters)] /\ Len(t) \in Nat
  BY <1>1 DEF PieceSeq, Places
<1> QED BY <1>1, <1>2 DEF PieceSeq

LEMMA WrittenFrom ==
  ASSUME NEW t \in Seq(STRING), NEW k \in Places(t)
  PROVE  Written(t, k) = IF k = 1 THEN Piece(t, k) ELSE Written(t, k - 1) \o Piece(t, k)
<1> DEFINE s == PieceSeq(t)
<1>1. Len(s) = Len(t) /\ s[k] = Piece(t, k) /\ Len(t) \in Nat /\ k \in 1 .. Len(t)
  BY PieceSeqIs DEF Places
<1>2. FlattenUpTo(s, Len(s), Flattened(s))
  <2>1. \E f : FlattenUpTo(s, Len(s), f)
    BY <1>1, FlattenExists
  <2> QED BY <2>1 DEF Flattened
<1>3. Flattened(s)[k] = IF k = 1 THEN s[k] ELSE Flattened(s)[k - 1] \o s[k]
  BY <1>1, <1>2 DEF FlattenUpTo
<1> QED BY <1>1, <1>3 DEF Written

\* The places before one are rewritten to letters.
LEMMA WrittenIn ==
  ASSUME NEW t \in Seq(STRING), NEW n \in 0 .. Len(t)
  PROVE  Written(t, n) \in Seq(Letters)
<1> DEFINE S == {k \in 0 .. Len(t) : Written(t, k) \notin Seq(Letters)}
<1> SUFFICES ASSUME S # {} PROVE FALSE
  OBVIOUS
<1>1. PICK m \in S : \A k \in S : m <= k
  <2>1. S \in SUBSET Nat
    OBVIOUS
  <2> HIDE DEF S
  <2> QED BY <2>1, Least
<1>2. m \in 0 .. Len(t) /\ Written(t, m) \notin Seq(Letters) /\ Len(t) \in Nat
  OBVIOUS
<1>3. m # 0
  BY <1>2 DEF Written
<1>4. Written(t, m - 1) \in Seq(Letters)
  <2>1. m - 1 \in 0 .. Len(t) /\ ~(m <= m - 1)
    BY <1>2, <1>3
  <2>2. m - 1 \notin S
    <3> HIDE DEF S
    <3> QED BY <1>1, <2>1
  <2> QED BY <2>1, <2>2
<1>5. m \in Places(t) /\ Piece(t, m) \in Seq(Letters)
  BY <1>2, <1>3, PieceSeqIs DEF Places
<1>6. Written(t, m) = Piece(t, m) \/ Written(t, m) = Written(t, m - 1) \o Piece(t, m)
  BY <1>5, WrittenFrom
<1>7. Written(t, m - 1) \o Piece(t, m) \in Seq(Letters)
  BY <1>4, <1>5, ConcatProperties
<1> QED BY <1>2, <1>5, <1>6, <1>7

\* A place adds its piece.
LEMMA WrittenStep ==
  ASSUME NEW t \in Seq(STRING), NEW k \in Places(t)
  PROVE  /\ Written(t, k - 1) \in Seq(Letters)
         /\ Written(t, k) = Written(t, k - 1) \o Piece(t, k)
<1>1. k \in 1 .. Len(t) /\ Piece(t, k) \in Seq(Letters)
  BY PieceSeqIs DEF Places
<1>2. Written(t, k - 1) \in Seq(Letters)
  BY <1>1, WrittenIn
<1>3. CASE k = 1
  <2>1. Written(t, k - 1) = <<>>
    BY <1>3 DEF Written
  <2>2. <<>> \o Piece(t, k) = Piece(t, k)
    BY <1>1
  <2> QED BY <1>2, <1>3, <2>1, <2>2, WrittenFrom
<1>4. CASE k # 1
  BY <1>2, <1>4, WrittenFrom
<1> QED BY <1>3, <1>4

LEMMA SubstitutedIs ==
  ASSUME NEW t \in Seq(STRING)
  PROVE  Substituted(t) = Written(t, Len(t))
<1> DEFINE s == PieceSeq(t)
<1>1. Substituted(t) = FlattenSeq(s)
  BY DEF Substituted, PieceSeq, Piece
<1>2. Len(s) = Len(t) /\ Len(t) \in Nat /\ s \in Seq(Seq(Letters))
  BY PieceSeqIs
<1>3. CASE Len(t) = 0
  <2>1. FlattenSeq(s) = s
    BY <1>2, <1>3 DEF FlattenSeq
  <2>2. s = <<>>
    <3> HIDE DEF s
    <3> QED BY <1>2, <1>3
  <2> QED BY <1>1, <1>3, <2>1, <2>2 DEF Written
<1>4. CASE Len(t) # 0
  <2>1. FlattenSeq(s) = Flattened(s)[Len(s)]
    BY <1>2, <1>4 DEF FlattenSeq, Flattened, FlattenUpTo
  <2> QED BY <1>1, <1>2, <1>4, <2>1 DEF Written
<1> QED BY <1>3, <1>4

-----------------------------------------------------------------------------
(* Literals, comments and names, as the parameter scan meets them.          *)

\* No comment has a quote in it.
QuietComments(t) == \A k \in Places(t) : InComment(t, k) => t[k] \notin {"'", Quote}

\* Outside the literals the scan goes on through comments.
Outside(t, k) == k \in Beginnings(t) \/ InComment(t, k)

LEMMA IdentifierCharacters ==
  /\ Quote \notin IdentifierChar /\ "'" \notin IdentifierChar /\ ":" \notin IdentifierChar
  /\ Quote # ":" /\ IdentifierStart \subseteq IdentifierChar
<1>1. Quote \notin {"a", "b", "1", ":"}
  BY Zenon DEF Quote
<1> QED BY <1>1 DEF IdentifierChar, IdentifierStart

LEMMA OutsideStep ==
  ASSUME NEW t \in Seq(STRING), NEW k \in Places(t), QuietComments(t), Outside(t, k)
  PROVE  /\ \A m \in DOMAIN QuoteOf :
               t[k] = QuoteOf[m] => InLiteral(t, k) /\ InQuote(t, k + 1, m)
         /\ t[k] \notin {"'", Quote} => ~InLiteral(t, k)
         /\ t[k] \notin {"'", Quote} /\ k < Len(t) => Outside(t, k + 1)
<1>1. CASE InComment(t, k)
  <2>1. t[k] \notin {"'", Quote}
    BY <1>1 DEF QuietComments
  <2>2. PICK b \in Beginnings(t) : b <= k /\ k <= TokenEnd(t, b)
    BY TokensCover
  <2>3. b \in 1 .. Len(t) /\ TokenEnd(t, b) \in b .. Len(t) /\ k \in 1 .. Len(t)
    BY BeginsIn DEF Places
  <2>4. TokenAt(t, k) = b
    BY <2>2, <2>3, TokenAtIs
  <2>5. Starts(t, b, "-", "-") \/ Starts(t, b, "/", "*")
    BY <1>1, <2>4 DEF InComment
  <2>6. ~InLiteral(t, k)
    BY <2>4, <2>5, SqlCharacters DEF InLiteral, Starts
  <2>7. ASSUME k < Len(t) PROVE Outside(t, k + 1)
    <3>1. CASE k = TokenEnd(t, b)
      BY <2>7, <3>1, NextBegins DEF Outside
    <3>2. CASE k # TokenEnd(t, b)
      <4>1. TokenAt(t, k + 1) = b
        BY <2>2, <2>3, <3>2, TokenAtIs
      <4> QED BY <2>5, <4>1 DEF Outside, InComment
    <3> QED BY <3>1, <3>2
  <2> QED BY <2>1, <2>6, <2>7, Quotes
<1>2. CASE ~InComment(t, k)
  <2>1. k \in Beginnings(t)
    BY <1>2 DEF Outside
  <2>2. ~Starts(t, k, "-", "-") /\ ~Starts(t, k, "/", "*")
    BY <1>2, <2>1, CodeStep
  <2> QED BY <2>1, <2>2, CodeStep DEF Outside
<1> QED BY <1>1, <1>2

\* A name goes from k + 1 to the last identifier character in a row.
LEMMA NameOfIs ==
  ASSUME NEW t \in Seq(STRING), NEW k \in Places(t), k < Len(t), t[k + 1] \in IdentifierStart
  PROVE  \E e \in k + 1 .. Len(t) :
            /\ \A j \in k + 1 .. e : t[j] \in IdentifierChar
            /\ e < Len(t) => t[e + 1] \notin IdentifierChar
            /\ NameOf(t, k) = SubSeq(t, k + 1, e) /\ Len(NameOf(t, k)) = e - k
<1> DEFINE P(e) == /\ \A j \in k + 1 .. e : t[j] \in IdentifierChar
                   /\ e < Len(t) => t[e + 1] \notin IdentifierChar
           S == {e \in k + 1 .. Len(t) : e < Len(t) => t[e + 1] \notin IdentifierChar}
           last == CHOOSE e \in k + 1 .. Len(t) : P(e)
<1>1. k \in 1 .. Len(t) /\ Len(t) \in Nat /\ t[k + 1] \in IdentifierChar
  BY IdentifierCharacters DEF Places
<1>2. PICK d \in S : \A c \in S : d <= c
  <2>1. S \in SUBSET Nat /\ Len(t) \in S
    BY <1>1
  <2> HIDE DEF S
  <2> QED BY <2>1, Least
<1>3. \A j \in k + 1 .. d : t[j] \in IdentifierChar
  <2> SUFFICES ASSUME NEW j \in k + 1 .. d, t[j] \notin IdentifierChar PROVE FALSE
    OBVIOUS
  <2>1. j # k + 1 /\ j \in Int /\ d \in k + 1 .. Len(t)
    BY <1>1
  <2>2. j - 1 \in S /\ ~(d <= j - 1)
    BY <1>1, <2>1
  <2> HIDE DEF S
  <2> QED BY <1>2, <2>2
<1>4. P(d) /\ d \in k + 1 .. Len(t)
  BY <1>3
<1>5. last \in k + 1 .. Len(t) /\ P(last)
  <2> HIDE DEF P
  <2> QED BY <1>4
<1>6. NameOf(t, k) = SubSeq(t, k + 1, last)
  BY DEF NameOf
<1> HIDE DEF last
<1>7. Len(SubSeq(t, k + 1, last)) = last - k
  <2>1. k + 1 \in Int /\ last \in Int /\ \A j \in k + 1 .. last : t[j] \in STRING
    BY <1>1, <1>5
  <2>2. Len(SubSeq(t, k + 1, last)) = IF k + 1 <= last THEN last - (k + 1) + 1 ELSE 0
    BY <2>1, SubSeqProperties
  <2> QED BY <1>1, <1>5, <2>2
<1> QED BY <1>5, <1>6, <1>7

\* There is no parameter in a literal, and no name reaches into one.
LEMMA LiteralsStay ==
  ASSUME NEW t \in Seq(STRING), NEW k \in Places(t), InLiteral(t, k)
  PROVE  ~Parameter(t, k) /\ ~OfName(t, k)
<1>1. ~Parameter(t, k)
  BY DEF Parameter
<1>2. PICK b \in Beginnings(t) : b <= k /\ k <= TokenEnd(t, b)
  BY TokensCover
<1>3. b \in 1 .. Len(t) /\ TokenEnd(t, b) \in b .. Len(t) /\ k \in 1 .. Len(t)
  BY BeginsIn DEF Places
<1>4. TokenAt(t, k) = b
  BY <1>2, <1>3, TokenAtIs
<1>5. t[b] \in {"'", Quote}
  BY <1>4 DEF InLiteral
<1>6. ASSUME NEW p \in 1 .. k - 1, Parameter(t, p), k <= p + Len(NameOf(t, p))
      PROVE  FALSE
  <2>1. p < b
    <3> SUFFICES ASSUME p >= b PROVE FALSE
      BY <1>3
    <3>1. TokenAt(t, p) = b
      BY <1>2, <1>3, TokenAtIs
    <3> QED BY <1>5, <1>6, <3>1 DEF Parameter, InLiteral
  <2>2. p \in Places(t) /\ p < Len(t) /\ t[p + 1] \in IdentifierStart
    BY <1>3, <1>6 DEF Parameter, Places
  <2>3. PICK e \in p + 1 .. Len(t) :
          /\ \A j \in p + 1 .. e : t[j] \in IdentifierChar
          /\ Len(NameOf(t, p)) = e - p
    BY <2>2, NameOfIs
  <2>4. k <= e
    BY <1>3, <1>6, <2>3
  <2>5. b \in p + 1 .. e
    BY <1>2, <1>3, <2>1, <2>4
  <2> QED BY <1>5, <2>3, <2>5, IdentifierCharacters
<1> QED BY <1>1, <1>6 DEF OfName

\* Behind a place that is neither a parameter nor of a name no name goes on.
LEMMA NoNameStep ==
  ASSUME NEW t \in Seq(STRING), NEW k \in Places(t), ~Parameter(t, k), ~OfName(t, k)
  PROVE  ~OfName(t, k + 1)
<1> SUFFICES ASSUME NEW p \in 1 .. (k + 1) - 1, Parameter(t, p), k + 1 <= p + Len(NameOf(t, p))
             PROVE  FALSE
  BY DEF OfName
<1>1. p # k /\ k \in 1 .. Len(t) /\ p \in 1 .. k - 1
  BY DEF Places
<1>2. p \in Places(t) /\ p < Len(t) /\ t[p + 1] \in IdentifierStart
  BY <1>1 DEF Parameter, Places
<1>3. Len(NameOf(t, p)) \in Int
  BY <1>2, NameOfIs
<1> QED BY <1>1, <1>3 DEF OfName

\* Behind a parameter comes its name, and behind the name neither it nor
\* another one goes on.
LEMMA NameStep ==
  ASSUME NEW t \in Seq(STRING), NEW k \in Places(t), Parameter(t, k),
         NEW e \in k + 1 .. Len(t),
         \A j \in k + 1 .. e : t[j] \in IdentifierChar,
         e < Len(t) => t[e + 1] \notin IdentifierChar
  PROVE  /\ NameOf(t, k) = SubSeq(t, k + 1, e)
         /\ \A j \in k + 1 .. e : OfName(t, j) /\ ~Parameter(t, j)
         /\ ~OfName(t, e + 1)
<1>1. k \in 1 .. Len(t) /\ k < Len(t) /\ t[k + 1] \in IdentifierStart /\ t[k] = ":"
  BY DEF Places, Parameter
<1>2. PICK d \in k + 1 .. Len(t) :
        /\ \A j \in k + 1 .. d : t[j] \in IdentifierChar
        /\ d < Len(t) => t[d + 1] \notin IdentifierChar
        /\ NameOf(t, k) = SubSeq(t, k + 1, d) /\ Len(NameOf(t, k)) = d - k
  BY <1>1, NameOfIs
<1>3. d = e
  <2>1. ASSUME d < e PROVE FALSE
    <3>1. d < Len(t) /\ d + 1 \in k + 1 .. e
      BY <1>1, <2>1
    <3> QED BY <1>2, <3>1
  <2>2. ASSUME e < d PROVE FALSE
    <3>1. e < Len(t) /\ e + 1 \in k + 1 .. d
      BY <1>1, <2>2
    <3> QED BY <1>2, <3>1
  <2> QED BY <1>1, <2>1, <2>2
<1>4. ASSUME NEW j \in k + 1 .. e PROVE OfName(t, j) /\ ~Parameter(t, j)
  <2>1. k \in 1 .. j - 1 /\ j <= k + Len(NameOf(t, k))
    BY <1>1, <1>2, <1>3
  <2>2. t[j] # ":"
    BY IdentifierCharacters
  <2> QED BY <2>1, <2>2 DEF OfName, Parameter
<1>5. ASSUME NEW p \in 1 .. (e + 1) - 1, Parameter(t, p), e + 1 <= p + Len(NameOf(t, p))
      PROVE  FALSE
  <2>1. t[p] = ":" /\ p \in Places(t) /\ p < Len(t) /\ t[p + 1] \in IdentifierStart
    BY <1>1, <1>5 DEF Parameter, Places
  <2>2. p \notin k + 1 .. e
    BY <2>1, IdentifierCharacters
  <2>3. p # k
    BY <1>1, <1>2, <1>3, <1>5
  <2>4. p < k
    BY <1>1, <2>2, <2>3
  <2>5. PICK c \in p + 1 .. Len(t) :
          (\A j \in p + 1 .. c : t[j] \in IdentifierChar) /\ Len(NameOf(t, p)) = c - p
    BY <2>1, NameOfIs
  <2>6. k \in p + 1 .. c
    BY <1>1, <1>5, <2>4, <2>5
  <2> QED BY <1>1, <2>5, <2>6, IdentifierCharacters
<1> QED BY <1>2, <1>3, <1>4, <1>5 DEF OfName

\* A parameter and its name are rewritten to "$".
LEMMA NameWritten ==
  ASSUME NEW t \in Seq(STRING), NEW k \in Places(t), Parameter(t, k),
         NEW e \in k + 1 .. Len(t),
         \A j \in k + 1 .. e : OfName(t, j) /\ ~Parameter(t, j)
  PROVE  Written(t, e) = Append(Written(t, k - 1), "$")
<1>1. k \in 1 .. Len(t) /\ "$" \in Letters
  BY DEF Places, Letters
<1>2. Written(t, k - 1) \in Seq(Letters) /\ Written(t, k) = Written(t, k - 1) \o <<"$">>
  BY WrittenStep DEF Piece
<1>3. Written(t, k) = Append(Written(t, k - 1), "$")
  BY <1>1, <1>2, AppendIsConcat
<1> DEFINE S == {j \in k + 1 .. e : Written(t, j) # Written(t, k)}
<1>4. S = {}
  <2> SUFFICES ASSUME S # {} PROVE FALSE
    OBVIOUS
  <2>1. PICK m \in S : \A j \in S : m <= j
    <3>1. S \in SUBSET Nat
      BY <1>1
    <3> HIDE DEF S
    <3> QED BY <3>1, Least
  <2>2. m \in k + 1 .. e /\ m \in Places(t) /\ Written(t, m) # Written(t, k)
    BY <1>1 DEF Places
  <2>3. Piece(t, m) = <<>>
    BY <2>2 DEF Piece
  <2>4. Written(t, m) = Written(t, m - 1)
    <3>1. Written(t, m - 1) \in Seq(Letters) /\ Written(t, m) = Written(t, m - 1) \o <<>>
      BY <2>2, <2>3, WrittenStep
    <3> QED BY <3>1, ConcatEmptySeq
  <2>5. CASE m = k + 1
    BY <1>1, <2>2, <2>4, <2>5
  <2>6. CASE m # k + 1
    <3>1. m - 1 \in k + 1 .. e /\ ~(m <= m - 1)
      BY <1>1, <2>2, <2>6
    <3>2. m - 1 \notin S
      <4> HIDE DEF S
      <4> QED BY <2>1, <3>1
    <3> QED BY <2>2, <2>4, <3>1, <3>2
  <2> QED BY <2>5, <2>6
<1>5. e \in k + 1 .. e
  BY <1>1
<1> QED BY <1>3, <1>4, <1>5

\* Another place outside the names is copied.
LEMMA CopyWritten ==
  ASSUME NEW t \in Seq(STRING), NEW k \in Places(t), ~Parameter(t, k), ~OfName(t, k)
  PROVE  Written(t, k) = Append(Written(t, k - 1), t[k])
<1>1. t[k] \in Letters
  BY DEF Places, Letters
<1>2. Written(t, k - 1) \in Seq(Letters) /\ Written(t, k) = Written(t, k - 1) \o <<t[k]>>
  BY WrittenStep DEF Piece
<1> QED BY <1>1, <1>2, AppendIsConcat

-----------------------------------------------------------------------------
(* The parameters.                                                          *)

\* A row of places without a quote does not lead into a literal.
LEMMA OutsideRow ==
  ASSUME NEW t \in Seq(STRING), NEW k \in Places(t), QuietComments(t), Outside(t, k),
         NEW e \in k .. Len(t) - 1,
         \A j \in k .. e : t[j] \notin {"'", Quote}
  PROVE  Outside(t, e + 1)
<1> DEFINE S == {j \in k .. e + 1 : ~Outside(t, j)}
<1>1. k \in 1 .. Len(t) /\ Len(t) \in Nat
  BY DEF Places
<1>2. S = {}
  <2> SUFFICES ASSUME S # {} PROVE FALSE
    OBVIOUS
  <2>1. PICK m \in S : \A j \in S : m <= j
    <3>1. S \in SUBSET Nat
      BY <1>1
    <3> HIDE DEF S
    <3> QED BY <3>1, Least
  <2>2. m \in k .. e + 1 /\ m # k /\ ~Outside(t, m)
    OBVIOUS
  <2>3. m - 1 \in k .. e /\ m - 1 \in Places(t) /\ m - 1 < Len(t) /\ ~(m <= m - 1)
    BY <1>1, <2>2 DEF Places
  <2>4. m - 1 \notin S
    <3> HIDE DEF S
    <3> QED BY <2>1, <2>3
  <2>5. Outside(t, m - 1)
    BY <1>1, <2>3, <2>4
  <2>6. Outside(t, (m - 1) + 1)
    BY <2>3, <2>5, OutsideStep
  <2> QED BY <1>1, <2>2, <2>6
<1>3. e + 1 \in k .. e + 1
  BY <1>1
<1> QED BY <1>2, <1>3

\* Behind i everything is rewritten as Substituted does it.
ParamsInv ==
    /\ scan \in {"depth", "multi"} => rewritten = <<>>
    /\ scan = "params" /\ QuietComments(text) =>
          /\ mode = "code" /\ i <= Len(text) => Outside(text, i)
          /\ mode \in DOMAIN QuoteOf => InQuote(text, i, mode)
          /\ ~OfName(text, i)
          /\ rewritten = Written(text, i - 1)
    /\ ParametersInPlace

LEMMA ParamsStart ==
  Init => ParamsInv
BY DEF Init, ParamsInv, ParametersInPlace

\* A step over places that are rewritten as they should be
LEMMA ParamsMoves ==
  ASSUME ScanTypes, scan = "params", UNCHANGED <<scan, text, verdict>>,
         NEW n \in Nat, i' = n,
         QuietComments(text) =>
            /\ mode' = "code" /\ n <= Len(text) => Outside(text, n)
            /\ mode' \in DOMAIN QuoteOf => InQuote(text, n, mode')
            /\ ~OfName(text, n)
            /\ rewritten' = Written(text, n - 1)
  PROVE  ParamsInv'
<1>1. verdict' = "none" /\ scan' = "params" /\ text' = text
  BY DEF ScanTypes
<1>2. ParametersInPlace'
  BY <1>1 DEF ParametersInPlace
<1> QED BY <1>1, <1>2 DEF ParamsInv

LEMMA MultiEndsStarts ==
  ASSUME ScanTypes, ParamsInv, MultiEnds
  PROVE  ParamsInv'
<1>1. /\ scan' = "params" /\ text' = text /\ verdict' = "none" /\ i' = 1 /\ mode' = "code"
      /\ rewritten' = <<>> /\ text \in Seq(STRING)
  BY DEF ScanTypes, MultiEnds, ParamsInv
<1>2. 1 <= Len(text) => Outside(text, 1)
  BY <1>1, FirstBegins DEF Outside
<1>3. ~OfName(text, 1)
  BY DEF OfName
<1>4. Written(text, 1 - 1) = <<>>
  BY DEF Written
<1> QED BY <1>1, <1>2, <1>3, <1>4, Quotes DEF ParamsInv, ParametersInPlace

\* Characters that are copied one by one, or two in one go
LEMMA CopyOne ==
  ASSUME NEW t \in Seq(STRING), NEW k \in 1 .. Len(t), NEW s \in Seq(Letters)
  PROVE  s \o SubSeq(t, k, k) = Append(s, t[k])
<1>1. /\ t[k] \in STRING /\ t[k] \in Letters /\ k \in 1 .. Len(t) /\ k \in Int
      /\ \A j \in k .. k : t[j] \in STRING
  BY DEF Letters
<1>2. /\ SubSeq(t, k, k) \in Seq(STRING) /\ Len(SubSeq(t, k, k)) = 1
      /\ SubSeq(t, k, k)[1] = t[k]
  <2>1. /\ SubSeq(t, k, k) \in Seq(STRING)
        /\ Len(SubSeq(t, k, k)) = IF k <= k THEN k - k + 1 ELSE 0
        /\ \A j \in 1 .. k - k + 1 : SubSeq(t, k, k)[j] = t[k + j - 1]
    BY <1>1, SubSeqProperties
  <2> QED BY <1>1, <2>1
<1> DEFINE u == SubSeq(t, k, k)
<1>3. u \in Seq(STRING) /\ Len(u) = 1 /\ u[1] = t[k]
  BY <1>2
<1> HIDE DEF u
<1>4. u = <<t[k]>>
  BY <1>3
<1>5. SubSeq(t, k, k) = <<t[k]>>
  BY <1>4 DEF u
<1> QED BY <1>1, <1>5, AppendIsConcat

LEMMA CopyTwo ==
  ASSUME NEW t \in Seq(STRING), NEW k \in 1 .. Len(t) - 1, NEW s \in Seq(Letters)
  PROVE  s \o SubSeq(t, k, k + 1) = Append(Append(s, t[k]), t[k + 1])
<1>1. /\ t[k] \in Letters /\ t[k + 1] \in Letters /\ k \in 1 .. Len(t) /\ k + 1 \in 1 .. Len(t)
      /\ k \in Int /\ k + 1 \in Int
      /\ \A j \in k .. k + 1 : t[j] \in STRING
  BY DEF Letters
<1>2. /\ SubSeq(t, k, k + 1) \in Seq(STRING) /\ Len(SubSeq(t, k, k + 1)) = 2
      /\ SubSeq(t, k, k + 1)[1] = t[k] /\ SubSeq(t, k, k + 1)[2] = t[k + 1]
  <2>1. /\ SubSeq(t, k, k + 1) \in Seq(STRING)
        /\ Len(SubSeq(t, k, k + 1)) = IF k <= k + 1 THEN (k + 1) - k + 1 ELSE 0
        /\ \A j \in 1 .. (k + 1) - k + 1 : SubSeq(t, k, k + 1)[j] = t[k + j - 1]
    BY <1>1, SubSeqProperties
  <2> QED BY <1>1, <2>1
<1>3. SubSeq(t, k, k + 1) = <<t[k]>> \o <<t[k + 1]>>
  BY <1>1, <1>2
<1>4. <<t[k]>> \in Seq(Letters) /\ <<t[k + 1]>> \in Seq(Letters)
  BY <1>1
<1>5. s \o (<<t[k]>> \o <<t[k + 1]>>) = (s \o <<t[k]>>) \o <<t[k + 1]>>
  BY <1>4, ConcatAssociative
<1>6. s \o <<t[k]>> = Append(s, t[k]) /\ Append(s, t[k]) \in Seq(Letters)
  BY <1>1, AppendIsConcat, AppendProperties
<1>7. Append(s, t[k]) \o <<t[k + 1]>> = Append(Append(s, t[k]), t[k + 1])
  BY <1>1, <1>6, AppendIsConcat
<1> QED BY <1>3, <1>5, <1>6, <1>7

LEMMA CopyInQuotesKeeps ==
  ASSUME ScanTypes, ParamsInv, CopyInQuotes
  PROVE  ParamsInv'
<1> DEFINE q == QuoteOf[mode]
<1>1. /\ scan = "params" /\ UNCHANGED <<scan, text, verdict>>
      /\ text \in Seq(STRING) /\ i \in 1 .. Len(text) /\ i \in Places(text)
      /\ mode \in DOMAIN QuoteOf
  BY DEF ScanTypes, CopyInQuotes, Places
<1>2. ASSUME QuietComments(text)
      PROVE  /\ InQuote(text, i, mode) /\ InLiteral(text, i)
             /\ ~Parameter(text, i) /\ ~OfName(text, i) /\ ~OfName(text, i + 1)
             /\ rewritten = Written(text, i - 1) /\ rewritten \in Seq(Letters)
             /\ Append(rewritten, text[i]) = Written(text, i)
  <2>1. InQuote(text, i, mode) /\ rewritten = Written(text, i - 1)
    BY <1>1, <1>2 DEF ParamsInv
  <2>2. InLiteral(text, i)
    BY <1>1, <2>1, QuotedStep
  <2>3. ~Parameter(text, i) /\ ~OfName(text, i)
    BY <1>1, <2>2, LiteralsStay
  <2>4. ~OfName(text, i + 1)
    BY <1>1, <2>3, NoNameStep
  <2>5. rewritten \in Seq(Letters) /\ Append(rewritten, text[i]) = Written(text, i)
    BY <1>1, <2>1, <2>3, WrittenStep, CopyWritten
  <2> QED BY <2>1, <2>2, <2>3, <2>4, <2>5
<1>3. CASE Pair(q, q)
  <2>1. /\ mode' = mode /\ i' = i + 2 /\ rewritten' = rewritten \o SubSeq(text, i, i + 1)
        /\ i < Len(text) /\ text[i] = q /\ text[i + 1] = q
    <3>1. mode' = mode /\ i' = i + 2 /\ i < Len(text) /\ text[i] = q /\ text[i + 1] = q
      BY <1>3 DEF CopyInQuotes, Pair, At
    <3>2. (i + 2) - 1 = i + 1
      BY <1>1
    <3> QED BY <3>1, <3>2 DEF CopyInQuotes
  <2>2. ASSUME QuietComments(text)
        PROVE  /\ InQuote(text, i + 2, mode) /\ ~OfName(text, i + 2)
               /\ rewritten' = Written(text, (i + 2) - 1)
    <3>1. InLiteral(text, i + 1) /\ InQuote(text, i + 2, mode)
      BY <1>1, <1>2, <2>1, <2>2, QuotedStep
    <3>2. i + 1 \in Places(text) /\ (i + 1) + 1 = i + 2 /\ (i + 1) - 1 = i /\ (i + 2) - 1 = i + 1
      BY <1>1, <2>1 DEF Places
    <3>3. ~Parameter(text, i + 1) /\ ~OfName(text, i + 1)
      BY <1>1, <3>1, <3>2, LiteralsStay
    <3>4. ~OfName(text, i + 2)
      BY <1>1, <3>2, <3>3, NoNameStep
    <3>5. Written(text, i + 1) = Append(Written(text, i), text[i + 1])
      BY <1>1, <3>2, <3>3, CopyWritten
    <3>6. i \in 1 .. Len(text) - 1
      BY <1>1, <2>1
    <3>7. rewritten' = Append(Append(rewritten, text[i]), text[i + 1])
      BY <1>1, <1>2, <2>1, <2>2, <3>6, CopyTwo
    <3> QED BY <1>2, <2>2, <3>1, <3>2, <3>4, <3>5, <3>7
  <2> QED BY <1>1, <2>1, <2>2, Quotes, ParamsMoves
<1>4. CASE ~Pair(q, q)
  <2>1. /\ mode' = IF text[i] = q THEN "code" ELSE mode
        /\ i' = i + 1 /\ rewritten' = rewritten \o SubSeq(text, i, i)
    <3>1. mode' = (IF text[i] = q THEN "code" ELSE mode) /\ i' = i + 1
      BY <1>1, <1>4 DEF CopyInQuotes, At
    <3>2. (i + 1) - 1 = i
      BY <1>1
    <3> QED BY <3>1, <3>2 DEF CopyInQuotes
  <2>2. ASSUME QuietComments(text)
        PROVE  /\ mode' = "code" /\ i + 1 <= Len(text) => Outside(text, i + 1)
               /\ mode' \in DOMAIN QuoteOf => InQuote(text, i + 1, mode')
               /\ rewritten' = Written(text, (i + 1) - 1)
    <3>1. rewritten' = Written(text, (i + 1) - 1)
      <4>1. rewritten \in Seq(Letters) /\ Append(rewritten, text[i]) = Written(text, i)
        BY <1>2, <2>2
      <4>2. rewritten' = Append(rewritten, text[i])
        BY <1>1, <2>1, <4>1, CopyOne
      <4>3. (i + 1) - 1 = i
        BY <1>1
      <4> QED BY <4>1, <4>2, <4>3
    <3>2. CASE text[i] = q
      BY <1>1, <1>2, <2>1, <2>2, <3>1, <3>2, QuotedStep, Quotes DEF Outside
    <3>3. CASE text[i] # q
      BY <1>1, <1>2, <2>1, <2>2, <3>1, <3>3, QuotedStep, Quotes
    <3> QED BY <3>2, <3>3
  <2> QED BY <1>1, <1>2, <2>1, <2>2, ParamsMoves
<1> QED BY <1>3, <1>4

LEMMA PlaceholderKeeps ==
  ASSUME ScanTypes, ParamsInv, Placeholder
  PROVE  ParamsInv'
<1> DEFINE e == NameEnd(i + 1) - 1
<1>1. /\ scan = "params" /\ mode = "code" /\ UNCHANGED <<text, mode>>
      /\ text \in Seq(STRING) /\ i \in 1 .. Len(text) - 1 /\ i \in Places(text)
      /\ text[i] = ":" /\ text[i + 1] \in IdentifierStart
      /\ i = 1 \/ text[i - 1] # ":"
  BY DEF ScanTypes, Placeholder, AtParameter, At, Places
<1>2. /\ e \in i + 1 .. Len(text)
      /\ \A j \in i + 1 .. e : text[j] \in IdentifierChar
      /\ e < Len(text) => text[e + 1] \notin IdentifierChar
  <2> DEFINE d == NameEnd(i + 1)
  <2>1. /\ d \in i + 1 .. Len(text) + 1
        /\ \A j \in i + 1 .. d - 1 : text[j] \in IdentifierChar
        /\ d > Len(text) \/ text[d] \notin IdentifierChar
    BY <1>1, NameEndIs
  <2>2. text[i + 1] \in IdentifierChar
    BY <1>1, IdentifierCharacters
  <2> HIDE DEF d
  <2>3. d # i + 1
    BY <1>1, <2>1, <2>2
  <2>4. /\ d - 1 \in i + 1 .. Len(text) /\ (d - 1) + 1 = d
        /\ d - 1 < Len(text) => text[d] \notin IdentifierChar
    BY <1>1, <2>1, <2>3
  <2> QED BY <2>1, <2>4 DEF d
<1>3. NameEnd(i + 1) = e + 1
  <2>1. NameEnd(i + 1) \in Int
    BY <1>1, NameEndIs
  <2> QED BY <2>1
<1> HIDE DEF e
<1>4. ASSUME QuietComments(text)
      PROVE  /\ Parameter(text, i) /\ Outside(text, i)
             /\ NameOf(text, i) = SubSeq(text, i + 1, e)
             /\ e + 1 <= Len(text) => Outside(text, e + 1)
             /\ ~OfName(text, e + 1)
             /\ Append(rewritten, "$") = Written(text, e)
  <2>1. Outside(text, i) /\ rewritten = Written(text, i - 1)
    BY <1>1, <1>4 DEF ParamsInv
  <2>2. ~InLiteral(text, i)
    BY <1>1, <1>4, <2>1, OutsideStep, SqlCharacters
  <2>3. Parameter(text, i)
    BY <1>1, <2>2 DEF Parameter
  <2>4. /\ NameOf(text, i) = SubSeq(text, i + 1, e)
        /\ \A j \in i + 1 .. e : OfName(text, j) /\ ~Parameter(text, j)
        /\ ~OfName(text, e + 1)
    BY <1>1, <1>2, <2>3, NameStep
  <2>5. Append(rewritten, "$") = Written(text, e)
    BY <1>1, <1>2, <2>1, <2>3, <2>4, NameWritten
  <2>6. ASSUME e + 1 <= Len(text) PROVE Outside(text, e + 1)
    <3>1. e \in i .. Len(text) - 1
      BY <1>1, <1>2, <2>6
    <3>2. \A j \in i .. e : text[j] \notin {"'", Quote}
      BY <1>1, <1>2, IdentifierCharacters
    <3> QED BY <1>1, <1>4, <2>1, <3>1, <3>2, OutsideRow
  <2> QED BY <2>1, <2>3, <2>4, <2>5, <2>6
<1>5. CASE SubSeq(text, i + 1, e) \in Known
  <2>1. i' = e + 1 /\ rewritten' = Append(rewritten, "$") /\ UNCHANGED <<scan, verdict>>
    <3>1. (e + 1) - 1 = e
      BY <1>1, <1>2
    <3> QED BY <1>3, <1>5, <3>1 DEF Placeholder
  <2>2. e + 1 \in Nat /\ (e + 1) - 1 = e
    BY <1>1, <1>2
  <2>3. QuietComments(text) =>
          /\ mode' = "code" /\ e + 1 <= Len(text) => Outside(text, e + 1)
          /\ mode' \in DOMAIN QuoteOf => InQuote(text, e + 1, mode')
          /\ ~OfName(text, e + 1)
          /\ rewritten' = Written(text, (e + 1) - 1)
    <3>1. mode' = "code" /\ mode' \notin DOMAIN QuoteOf
      BY <1>1, Quotes
    <3>2. QuietComments(text) => rewritten' = Written(text, e)
      BY <1>4, <2>1
    <3>3. QuietComments(text) =>
            ~OfName(text, e + 1) /\ (e + 1 <= Len(text) => Outside(text, e + 1))
      BY <1>4
    <3> QED BY <2>2, <3>1, <3>2, <3>3
  <2>4. UNCHANGED <<scan, text, verdict>>
    BY <1>1, <2>1
  <2> QED BY <1>1, <2>1, <2>2, <2>3, <2>4, ParamsMoves
<1>6. CASE SubSeq(text, i + 1, e) \notin Known
  <2>1. scan' = "none" /\ verdict' = "missing"
    <3>1. (e + 1) - 1 = e
      BY <1>1, <1>2
    <3> QED BY <1>3, <1>6, <3>1 DEF Placeholder, Verdict
  <2>2. QuietComments(text) => Parameter(text, i) /\ NameOf(text, i) \notin Known
    BY <1>4, <1>6
  <2> QED BY <1>1, <2>1, <2>2 DEF ParamsInv, ParametersInPlace, QuietComments
<1> QED BY <1>5, <1>6

LEMMA CopyKeeps ==
  ASSUME ScanTypes, ParamsInv, Copy
  PROVE  ParamsInv'
<1>1. /\ scan = "params" /\ mode = "code" /\ UNCHANGED <<scan, text, verdict>> /\ i' = i + 1
      /\ text \in Seq(STRING) /\ i \in 1 .. Len(text) /\ i \in Places(text)
      /\ rewritten' = Append(rewritten, text[i])
      /\ mode' = IF text[i] = "'" THEN "single" ELSE IF text[i] = Quote THEN "double" ELSE "code"
  BY DEF ScanTypes, Copy, Places, At
<1>2. ~Parameter(text, i)
  BY <1>1 DEF Copy, AtParameter, At, Parameter
<1>3. ASSUME QuietComments(text)
      PROVE  /\ mode' = "code" /\ i + 1 <= Len(text) => Outside(text, i + 1)
             /\ mode' \in DOMAIN QuoteOf => InQuote(text, i + 1, mode')
             /\ ~OfName(text, i + 1)
             /\ rewritten' = Written(text, (i + 1) - 1)
  <2>1. Outside(text, i) /\ ~OfName(text, i) /\ rewritten = Written(text, i - 1)
    BY <1>1, <1>3 DEF ParamsInv
  <2>2. ~OfName(text, i + 1) /\ (i + 1) - 1 = i
    BY <1>1, <1>2, <2>1, NoNameStep
  <2>3. rewritten' = Written(text, i)
    BY <1>1, <1>2, <2>1, CopyWritten
  <2>4. CASE text[i] \in {"'", Quote}
    <3>1. mode' \in DOMAIN QuoteOf /\ text[i] = QuoteOf[mode']
      BY <1>1, <2>4, SqlCharacters, Quotes
    <3>2. InQuote(text, i + 1, mode')
      BY <1>1, <1>3, <2>1, <3>1, OutsideStep
    <3> QED BY <2>2, <2>3, <3>1, <3>2, Quotes
  <2>5. CASE text[i] \notin {"'", Quote}
    <3>1. mode' = "code"
      BY <1>1, <2>5
    <3>2. i + 1 <= Len(text) => Outside(text, i + 1)
      BY <1>1, <1>3, <2>1, <2>5, OutsideStep
    <3> QED BY <2>2, <2>3, <3>1, <3>2, Quotes
  <2> QED BY <2>4, <2>5
<1>4. i + 1 \in Nat
  BY <1>1
<1> QED BY <1>1, <1>3, <1>4, ParamsMoves

LEMMA ParamsEndKeeps ==
  ASSUME ScanTypes, ParamsInv, ParamsEnd
  PROVE  ParamsInv'
<1>1. /\ scan = "params" /\ scan' = "none" /\ verdict' = "rewritten" /\ UNCHANGED <<text, rewritten>>
      /\ text \in Seq(STRING) /\ i - 1 = Len(text)
  BY DEF ScanTypes, ParamsEnd, Verdict
<1>2. QuietComments(text) => rewritten = Substituted(text)
  BY <1>1, SubstitutedIs DEF ParamsInv
<1> QED BY <1>1, <1>2 DEF ParamsInv, ParametersInPlace, QuietComments

LEMMA ParamsKeep ==
  ASSUME ScanTypes, ParamsInv, [Next]_vars
  PROVE  ParamsInv'
<1>1. CASE \/ DepthInString \/ DepthOutside   \/ DepthEnds
           \/ InLineComment \/ InBlockComment \/ InQuotes  \/ OpenQuote \/ OpenComment
           \/ SecondStatement \/ MultiSkips
  <2>1. /\ scan \in {"depth", "multi"} /\ rewritten' = rewritten
        /\ scan' = scan \/ scan' = "none"
        /\ verdict' = verdict \/ verdict' \in {"allowed", "tooDeep", "multi"}
    BY <1>1 DEF DepthInString, DepthOutside, DepthEnds, InLineComment, InBlockComment,
         InQuotes, OpenQuote, OpenComment, SecondStatement, MultiSkips, Verdict
  <2>2. verdict' \notin {"rewritten", "missing"} /\ scan' # "params"
    BY <2>1 DEF ScanTypes
  <2> QED BY <2>1, <2>2 DEF ParamsInv, ParametersInPlace
<1>2. CASE MultiEnds
  BY <1>2, MultiEndsStarts
<1>3. CASE CopyInQuotes
  BY <1>3, CopyInQuotesKeeps
<1>4. CASE Placeholder
  BY <1>4, PlaceholderKeeps
<1>5. CASE Copy
  BY <1>5, CopyKeeps
<1>6. CASE ParamsEnd
  BY <1>6, ParamsEndKeeps
<1>7. CASE UNCHANGED vars
  BY <1>7 DEF vars, ParamsInv, ParametersInPlace
<1> QED BY <1>1, <1>2, <1>3, <1>4, <1>5, <1>6, <1>7 DEF Next, Ended

-----------------------------------------------------------------------------
(* What the runs check, for texts of any length.                            *)

LEMMA ScannerTypes ==
  Spec => []ScanTypes
<1>1. ScanTypes /\ [Next]_vars => ScanTypes'
  BY TypesKeep
<1> QED BY <1>1, TypesStart, PTL DEF Spec

\* The pre-check of the depth agrees with the nesting of every text that is
\* JSON as far as its backslashes go (IsJsonDepthAllowed).
THEOREM DepthIsChecked ==
  Spec => []DepthAgrees
<1>1. ScanTypes /\ DepthInv /\ [Next]_vars => DepthInv'
  BY DepthKeeps
<1>2. DepthInv => DepthAgrees
  BY DEF DepthInv
<1> QED BY <1>1, <1>2, DepthStarts, ScannerTypes, PTL DEF Spec

\* A text is refused as a script exactly if something follows a semicolon that
\* is neither in a literal nor in a comment (ContainsMultiStatement).
THEOREM ScriptsAreRefused ==
  Spec => []ScriptsRefused
<1>1. ScanTypes /\ MultiInv /\ [Next]_vars => MultiInv'
  BY MultiKeeps
<1>2. MultiInv => ScriptsRefused
  BY DEF MultiInv
<1> QED BY <1>1, <1>2, MultiStarts, ScannerTypes, PTL DEF Spec

\* Exactly the parameters outside the literals are replaced, unless a comment
\* has a quote in it (BuildPositionalCommandParams).
THEOREM ParametersAreInPlace ==
  Spec => []ParametersInPlace
<1>1. ScanTypes /\ ParamsInv /\ [Next]_vars => ParamsInv'
  BY ParamsKeep
<1>2. ParamsInv => ParametersInPlace
  BY DEF ParamsInv
<1> QED BY <1>1, <1>2, ParamsStart, ScannerTypes, PTL DEF Spec

=============================================================================
