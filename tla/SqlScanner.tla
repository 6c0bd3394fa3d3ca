----------------------------- MODULE SqlScanner -----------------------------
(***************************************************************************)
(* The three scans of a request, character by character:                   *)
(* IsJsonDepthAllowed and ContainsMultiStatement of lsrequestvalidation.pas *)
(* and BuildPositionalCommandParams of lsstoolapadapter.pas (both in       *)
(* server/src/liquidstoolap_server).  A text starts either as the body of  *)
(* a request, or as the sql of one: then it is first searched for a second *)
(* statement and, unless it has one, its parameters are made positional.   *)
(*                                                                         *)
(* One iteration of a loop is one action.  Characters are classes: what    *)
(* none of the scans tells apart is one letter.  The flags of a loop       *)
(* exclude each other and are the variable mode.                           *)
(***************************************************************************)
EXTENDS Integers, Sequences, FiniteSets, SequencesExt

CONSTANTS
    Bodies,    \* bodies of requests, as sequences of characters
    Sqls,      \* SQL texts
    Known,     \* the names, as sequences, of which the request has a value
    MaxDepth   \* MAX_JSON_DEPTH

\* Characters that mean something to a scan; the others stand as themselves.
Quote == "\""
OpenBrace == "{"
CloseBrace == "}"
Semicolon == ";"

\* NewLine and blank stand for all characters that Trim removes.
NewLine == "nl"
Blanks == {NewLine, " "}
IdentifierStart == {"a", "b"}
IdentifierChar == IdentifierStart \union {"1"}

ASSUME ScannerAssumption ==
    /\ MaxDepth \in Nat \ {0}
    /\ \A t \in Bodies \union Sqls : t \in Seq(STRING)

VARIABLES
    scan,      \* the scan that runs: depth, multi, params, or none any more
    text,      \* Source, Sql
    i,         \* I
    mode,      \* InString, Escaped; InSingleQuote ... InBlockComment
    depth,     \* Depth
    rewritten, \* RewrittenSql, a parameter being the one character "$"
    verdict    \* what came of it

vars == <<scan, text, i, mode, depth, rewritten, verdict>>

Init ==
    /\ \/ scan = "depth" /\ text \in Bodies
       \/ scan = "multi" /\ text \in Sqls
    /\ i = 1
    /\ mode = "code"
    /\ depth = 0
    /\ rewritten = <<>>
    /\ verdict = "none"

At(ch) == i <= Len(text) /\ text[i] = ch
Pair(a, b) == At(a) /\ i < Len(text) /\ text[i + 1] = b

Verdict(v) == verdict' = v /\ scan' = "none"

-----------------------------------------------------------------------------
(* IsJsonDepthAllowed                                                       *)

\* Mutant: a backslash escapes nothing.
AfterInStringRaw == IF At(Quote) THEN "code" ELSE "string"

AfterInString ==
    IF mode = "escaped" THEN "string"
    ELSE IF At("\\")    THEN "escaped"
    ELSE IF At(Quote)   THEN "code"
    ELSE                     "string"

DepthInString ==
    /\ scan = "depth" /\ i <= Len(text)
    /\ mode \in {"string", "escaped"}
    /\ mode' = AfterInString
    /\ i' = i + 1
    /\ UNCHANGED <<scan, text, depth, rewritten, verdict>>

DepthOutside ==
    /\ scan = "depth" /\ i <= Len(text)
    /\ mode = "code"
    /\ mode' = IF At(Quote) THEN "string" ELSE "code"
    /\ depth' = CASE At(OpenBrace) -> depth + 1
                  [] At(CloseBrace) -> depth - 1
                  [] OTHER   -> depth
    /\ IF depth' > MaxDepth \/ depth' < 0
       THEN Verdict("tooDeep") /\ UNCHANGED i
       ELSE i' = i + 1 /\ UNCHANGED <<scan, verdict>>
    /\ UNCHANGED <<text, rewritten>>

DepthEnds ==
    /\ scan = "depth" /\ i > Len(text)
    /\ Verdict("allowed")
    /\ UNCHANGED <<text, i, mode, depth, rewritten>>

-----------------------------------------------------------------------------
(* ContainsMultiStatement                                                   *)

QuoteOf == [single |-> "'", double |-> Quote]

InLineComment ==
    /\ scan = "multi" /\ i <= Len(text) /\ mode = "line"
    /\ mode' = IF At(NewLine) THEN "code" ELSE mode
    /\ i' = i + 1
    /\ UNCHANGED <<scan, text, depth, rewritten, verdict>>

InBlockComment ==
    /\ scan = "multi" /\ i <= Len(text) /\ mode = "block"
    /\ IF Pair("*", "/") THEN mode' = "code" /\ i' = i + 2
                         ELSE i' = i + 1 /\ UNCHANGED mode
    /\ UNCHANGED <<scan, text, depth, rewritten, verdict>>

\* InSingleQuote and InDoubleQuote, which are alike
InQuotes ==
    /\ scan = "multi" /\ i <= Len(text) /\ mode \in DOMAIN QuoteOf
    /\ LET q == QuoteOf[mode] IN
          /\ mode' = IF At(q) /\ ~Pair(q, q) THEN "code" ELSE mode
          /\ i' = IF Pair(q, q) THEN i + 2 ELSE i + 1
    /\ UNCHANGED <<scan, text, depth, rewritten, verdict>>

OpenQuote ==
    /\ scan = "multi" /\ mode = "code"
    /\ \E m \in DOMAIN QuoteOf : At(QuoteOf[m]) /\ mode' = m
    /\ i' = i + 1
    /\ UNCHANGED <<scan, text, depth, rewritten, verdict>>

\* Mutant: the star of "/*" is looked at again.
OpenCommentShort ==
    /\ scan = "multi" /\ mode = "code"
    /\ \/ Pair("-", "-") /\ mode' = "line"
       \/ Pair("/", "*") /\ mode' = "block"
    /\ i' = i + 1
    /\ UNCHANGED <<scan, text, depth, rewritten, verdict>>

OpenComment ==
    /\ scan = "multi" /\ mode = "code"
    /\ \/ Pair("-", "-") /\ mode' = "line"
       \/ Pair("/", "*") /\ mode' = "block"
    /\ i' = i + 2
    /\ UNCHANGED <<scan, text, depth, rewritten, verdict>>

BlankAfter(k) == \A j \in k + 1 .. Len(text) : text[j] \in Blanks

SecondStatement ==
    /\ scan = "multi" /\ mode = "code"
    /\ At(Semicolon) /\ ~BlankAfter(i)
    /\ Verdict("multi")
    /\ UNCHANGED <<text, i, mode, depth, rewritten>>

MultiSkips ==
    /\ scan = "multi" /\ mode = "code" /\ i <= Len(text)
    /\ ~At("'") /\ ~At(Quote) /\ ~Pair("-", "-") /\ ~Pair("/", "*")
    /\ At(Semicolon) => BlankAfter(i)
    /\ i' = i + 1
    /\ UNCHANGED <<scan, text, mode, depth, rewritten, verdict>>

\* One statement.  If it is a command and there are parameters, CommandJson
\* goes on with the same text.
MultiEnds ==
    /\ scan = "multi" /\ i > Len(text)
    /\ scan' = "params"
    /\ i' = 1
    /\ mode' = "code"
    /\ UNCHANGED <<text, depth, rewritten, verdict>>

-----------------------------------------------------------------------------
(* BuildPositionalCommandParams                                             *)

\* A doubled quote is copied in one go.
CopyInQuotes ==
    /\ scan = "params" /\ i <= Len(text) /\ mode \in DOMAIN QuoteOf
    /\ LET q == QuoteOf[mode] IN
          /\ mode' = IF At(q) /\ ~Pair(q, q) THEN "code" ELSE mode
          /\ i' = IF Pair(q, q) THEN i + 2 ELSE i + 1
    /\ rewritten' = rewritten \o SubSeq(text, i, i' - 1)
    /\ UNCHANGED <<scan, text, depth, verdict>>

\* Mutant: "::" does not hold back a parameter.
AtParameterAfterCast ==
    At(":") /\ i < Len(text) /\ text[i + 1] \in IdentifierStart

AtParameter ==
    /\ At(":") /\ (i > 1 => text[i - 1] # ":")
    /\ i < Len(text) /\ text[i + 1] \in IdentifierStart

\* The first place after the name that begins at k
NameEnd(k) ==
    CHOOSE e \in k .. Len(text) + 1 :
        /\ \A j \in k .. e - 1 : text[j] \in IdentifierChar
        /\ e > Len(text) \/ text[e] \notin IdentifierChar

Placeholder ==
    /\ scan = "params" /\ mode = "code"
    /\ AtParameter
    /\ LET e == NameEnd(i + 1) IN
          IF SubSeq(text, i + 1, e - 1) \in Known
          THEN /\ rewritten' = Append(rewritten, "$")
               /\ i' = e
               /\ UNCHANGED <<scan, verdict>>
          ELSE Verdict("missing") /\ UNCHANGED <<rewritten, i>>
    /\ UNCHANGED <<text, mode, depth>>

Copy ==
    /\ scan = "params" /\ mode = "code" /\ i <= Len(text)
    /\ ~AtParameter
    /\ mode' = IF At("'") THEN "single" ELSE IF At(Quote) THEN "double" ELSE "code"
    /\ rewritten' = Append(rewritten, text[i])
    /\ i' = i + 1
    /\ UNCHANGED <<scan, text, depth, verdict>>

ParamsEnd ==
    /\ scan = "params" /\ i > Len(text)
    /\ Verdict("rewritten")
    /\ UNCHANGED <<text, i, mode, depth, rewritten>>

Ended == scan = "none" /\ UNCHANGED vars

Next ==
    \/ DepthInString   \/ DepthOutside   \/ DepthEnds
    \/ InLineComment   \/ InBlockComment \/ InQuotes  \/ OpenQuote \/ OpenComment
    \/ SecondStatement \/ MultiSkips     \/ MultiEnds
    \/ CopyInQuotes    \/ Placeholder    \/ Copy      \/ ParamsEnd
    \/ Ended

Spec == Init /\ [][Next]_vars

-----------------------------------------------------------------------------
(* What a text means, defined without a scan.                               *)

Places(t) == 1 .. Len(t)

\* JSON: a quote is one unless an odd number of backslashes stands before it.
Escaped(t, k) ==
    \E n \in 0 .. k - 1 :
        /\ n % 2 = 1
        /\ \A j \in k - n .. k - 1 : t[j] = "\\"
        /\ k - n - 1 >= 1 => t[k - n - 1] # "\\"

InString(t, k) ==
    Cardinality({j \in 1 .. k - 1 : t[j] = Quote /\ ~Escaped(t, j)}) % 2 = 1

\* up to k every backslash is in a string, as in every JSON text
Lexical(t, k) == \A j \in 1 .. k : t[j] = "\\" => InString(t, j)

Nesting(t, k) ==
    Cardinality({j \in 1 .. k : t[j] = OpenBrace /\ ~InString(t, j)})
    - Cardinality({j \in 1 .. k : t[j] = CloseBrace /\ ~InString(t, j)})

\* SQL: what begins at k ends at the next quote of the kind (a doubled quote is
\* two literals side by side), at the end of the line, at "*/", or with the text.
FirstAfter(t, S) == IF S = {} THEN Len(t) ELSE CHOOSE k \in S : \A j \in S : k <= j

Starts(t, k, a, b) == k < Len(t) /\ t[k] = a /\ t[k + 1] = b

TokenEnd(t, k) ==
    CASE t[k] \in {"'", Quote} ->
            FirstAfter(t, {j \in k + 1 .. Len(t) : t[j] = t[k]})
      [] Starts(t, k, "-", "-") ->
            FirstAfter(t, {j \in k + 2 .. Len(t) : t[j] = NewLine})
      [] Starts(t, k, "/", "*") ->
            FirstAfter(t, {j \in k + 3 .. Len(t) : t[j - 1] = "*" /\ t[j] = "/"})
      [] OTHER -> k

\* the places at which a token begins
Beginnings(t) ==
    LET begins[k \in Places(t)] ==
            k = 1 \/ \E j \in 1 .. k - 1 : begins[j] /\ TokenEnd(t, j) = k - 1
    IN  {k \in Places(t) : begins[k]}

TokenAt(t, k) == CHOOSE b \in Beginnings(t) : b <= k /\ k <= TokenEnd(t, b)

InLiteral(t, k) == t[TokenAt(t, k)] \in {"'", Quote}
InComment(t, k) == LET b == TokenAt(t, k) IN Starts(t, b, "-", "-") \/ Starts(t, b, "/", "*")

\* A parameter outside the literals; the rest of its name
Parameter(t, k) ==
    /\ ~InLiteral(t, k)
    /\ t[k] = ":" /\ (k = 1 \/ t[k - 1] # ":")
    /\ k < Len(t) /\ t[k + 1] \in IdentifierStart

NameOf(t, k) ==
    LET e == CHOOSE e \in k + 1 .. Len(t) :
                 /\ \A j \in k + 1 .. e : t[j] \in IdentifierChar
                 /\ e < Len(t) => t[e + 1] \notin IdentifierChar
    IN  SubSeq(t, k + 1, e)

OfName(t, k) == \E p \in 1 .. k - 1 : Parameter(t, p) /\ k <= p + Len(NameOf(t, p))

Substituted(t) ==
    FlattenSeq([k \in Places(t) |-> IF Parameter(t, k) THEN <<"$">>
                                    ELSE IF OfName(t, k) THEN <<>> ELSE <<t[k]>>])

-----------------------------------------------------------------------------
(* Properties.                                                              *)

\* The pre-check of the depth agrees with the nesting a JSON parser meets: it
\* lets none through that is deeper than MaxDepth, as far as the text is JSON,
\* and refuses no JSON text that is not.
DepthAgrees ==
    /\ verdict = "allowed" =>
          \A k \in Places(text) : Lexical(text, k) => Nesting(text, k) <= MaxDepth
    /\ verdict = "tooDeep" =>
          \/ ~Lexical(text, Len(text))
          \/ \E k \in Places(text) : Nesting(text, k) > MaxDepth \/ Nesting(text, k) < 0

\* A text is refused as a script if and only if something other than blanks
\* follows a semicolon that is neither in a literal nor in a comment.  (A
\* comment behind the last semicolon counts as something.)
ScriptsRefused ==
    verdict \in {"multi", "rewritten", "missing"} =>
        (verdict = "multi" <=>
            \E k \in Places(text) :
                /\ text[k] = Semicolon /\ ~InLiteral(text, k) /\ ~InComment(text, k)
                /\ \E j \in k + 1 .. Len(text) : text[j] \notin Blanks)

\* Unless a comment has a quote in it, exactly the parameters outside the
\* literals are replaced, those in comments among them, everything else stays
\* as it is, and a parameter is missing only if the request has no value for it.
ParametersInPlace ==
    /\ verdict \in {"rewritten", "missing"}
    /\ \A k \in Places(text) : InComment(text, k) => text[k] \notin {"'", Quote}
    =>
        /\ verdict = "rewritten" => rewritten = Substituted(text)
        /\ verdict = "missing" =>
              \E k \in Places(text) : Parameter(text, k) /\ NameOf(text, k) \notin Known

=============================================================================
