------------------------ MODULE PythonClient_proofs ------------------------
(***************************************************************************)
(* Proofs about PythonClient, for any number of calls, any menu of         *)
(* statements, any settings of the client and any answers of the database: *)
(* no statement goes out without a token that the client could have had,   *)
(* a login brings a newer token, and what the end of a call tells of its    *)
(* statement is true.                                                      *)
(***************************************************************************)
EXTENDS PythonClient, SequenceTheorems, TLAPS

-----------------------------------------------------------------------------
(* What is left of an answer on its way to the program, for any limit of     *)
(* rows and any answer.                                                     *)

USE RowsAssumption

\* The payload has the first rows, counts them, and says whether there are more.
LEMMA PayloadOfAnswer ==
    ASSUME NEW a, IsAnswer(a)
    PROVE  LET p == RowsToJson(a)
           IN  /\ p.kind = "result_set" /\ p.columns = a.columns
               /\ Len(p.rows) \in Nat /\ Len(p.rows) <= Len(a.rows)
               /\ DOMAIN p.rows = 1 .. Len(p.rows)
               /\ p.row_count = Len(p.rows)
               /\ \A i \in 1 .. Len(p.rows) : p.rows[i] = a.rows[i]
               /\ p.truncated <=> Len(p.rows) < Len(a.rows)
               /\ Len(p.rows) = IF Len(a.rows) > MaxRows THEN MaxRows ELSE Len(a.rows)
               /\ p.rows = <<>> <=> a.rows = <<>>
<1> DEFINE R == {a.rows[i] : i \in DOMAIN a.rows}
           sent == IF Len(a.rows) > MaxRows THEN MaxRows ELSE Len(a.rows)
<1>1. a.rows \in Seq(R) /\ Len(a.rows) \in Nat /\ DOMAIN a.rows = 1 .. Len(a.rows)
  BY DEF IsAnswer, IsSequence
<1> HIDE DEF R
<1>2. sent \in 0 .. Len(a.rows)
  BY <1>1
<1>0. sent = IF Len(a.rows) > MaxRows THEN MaxRows ELSE Len(a.rows)
  OBVIOUS
<1>3. /\ SubSeq(a.rows, 1, sent) \in Seq(R) /\ Len(SubSeq(a.rows, 1, sent)) = sent
      /\ \A i \in 1 .. sent : SubSeq(a.rows, 1, sent)[i] = a.rows[i]
  BY <1>1, <1>2
<1>4. /\ RowsToJson(a).rows = SubSeq(a.rows, 1, sent) /\ RowsToJson(a).row_count = sent
      /\ RowsToJson(a).truncated = (Len(a.rows) > MaxRows)
      /\ RowsToJson(a).kind = "result_set" /\ RowsToJson(a).columns = a.columns
  BY DEF RowsToJson
<1>5. a.rows = <<>> <=> Len(a.rows) = 0
  BY <1>1, EmptySeq
<1>6. SubSeq(a.rows, 1, sent) = <<>> <=> sent = 0
  BY <1>3, EmptySeq
<1>7. /\ Len(a.rows) > MaxRows <=> sent < Len(a.rows)
      /\ sent = 0 <=> Len(a.rows) = 0
  BY <1>1
<1> HIDE DEF sent
<1>8. DOMAIN RowsToJson(a).rows = 1 .. sent
  BY <1>2, <1>3, <1>4
<1>9. Len(RowsToJson(a).rows) = sent
  BY <1>3, <1>4
<1>10. RowsToJson(a).truncated <=> Len(RowsToJson(a).rows) < Len(a.rows)
  BY <1>4, <1>7, <1>9, Zenon
<1>11. /\ Len(RowsToJson(a).rows) \in Nat /\ Len(RowsToJson(a).rows) <= Len(a.rows)
       /\ Len(RowsToJson(a).rows) = IF Len(a.rows) > MaxRows THEN MaxRows ELSE Len(a.rows)
  BY <1>0, <1>1, <1>2, <1>9
<1>12. \A i \in 1 .. Len(RowsToJson(a).rows) : RowsToJson(a).rows[i] = a.rows[i]
  BY <1>3, <1>4, <1>9
<1>13. RowsToJson(a).rows = <<>> <=> a.rows = <<>>
  BY <1>4, <1>5, <1>6, <1>7, Zenon
<1> QED
  BY <1>4, <1>8, <1>9, <1>10, <1>11, <1>12, <1>13, Zenon

\* A dictionary has all the names, and for each name the value of the last column
\* that has it.
Names(dict, columns, row) ==
    /\ DOMAIN dict = {columns[j] : j \in DOMAIN columns}
    /\ \A j \in DOMAIN columns :
          (\A k \in DOMAIN columns : columns[k] = columns[j] => k <= j)
          => dict[columns[j]] = row[j]

LEMMA NamesOfDict ==
    ASSUME NEW columns, IsSequence(columns), NEW row, IsSequence(row), Len(row) = Len(columns)
    PROVE  Names(DictZip(columns, row), columns, row)
<1> DEFINE places == (1 .. Len(columns)) \cap (1 .. Len(row))
           Last(name, i) == columns[i] = name /\ \A j \in places : columns[j] = name => j <= i
<1>1. places = DOMAIN columns /\ places \subseteq Nat
  BY DEF IsSequence
<1>2. DictZip(columns, row) =
        [name \in {columns[i] : i \in places} |-> row[CHOOSE i \in places : Last(name, i)]]
  BY DEF DictZip
<1> HIDE DEF places
<1>3. ASSUME NEW j \in places, \A k \in places : columns[k] = columns[j] => k <= j
      PROVE  (CHOOSE i \in places : Last(columns[j], i)) = j
  <2>1. Last(columns[j], j)
    BY <1>1, <1>3
  <2>2. \A i \in places : Last(columns[j], i) => i = j
    BY <1>1, <1>3
  <2> QED
    BY <2>1, <2>2
<1> QED
  BY <1>1, <1>2, <1>3 DEF Names

\* A value of a result is at most as long as the answer, and as_dicts gives one
\* dictionary for each row.
LEMMA DictsOfPayload ==
    ASSUME NEW a, IsAnswer(a)
    PROVE  LET p  == parse_result(RowsToJson(a))
               ds == as_dicts(p)
           IN  /\ Len(ds) = Len(p.rows)
               /\ \A i \in 1 .. Len(p.rows) : Names(ds[i], a.columns, a.rows[i])
               /\ ds = <<>> <=> p.rows = <<>>
<1> DEFINE p  == parse_result(RowsToJson(a))
           ds == as_dicts(p)
<1>1. p.rows = RowsToJson(a).rows /\ p.columns = a.columns
  BY PayloadOfAnswer DEF parse_result, SqlResultSet
<1>2. /\ Len(p.rows) \in Nat /\ DOMAIN p.rows = 1 .. Len(p.rows) /\ Len(p.rows) <= Len(a.rows)
      /\ \A i \in 1 .. Len(p.rows) : p.rows[i] = a.rows[i]
      /\ p.rows = <<>> <=> a.rows = <<>>
  BY <1>1, PayloadOfAnswer
<1>3. DOMAIN a.rows = 1 .. Len(a.rows) /\ Len(a.rows) \in Nat
  BY DEF IsAnswer, IsSequence
<1> HIDE DEF p
<1>4. ds = [i \in 1 .. Len(p.rows) |-> DictZip(p.columns, p.rows[i])]
  BY DEF as_dicts
<1>5. ASSUME NEW i \in 1 .. Len(p.rows)
      PROVE  Names(ds[i], a.columns, a.rows[i])
  <2>1. i \in DOMAIN a.rows
    BY <1>2, <1>3
  <2>2. ds[i] = DictZip(a.columns, a.rows[i])
    BY <1>1, <1>2, <1>4
  <2> QED
    BY <2>1, <2>2, NamesOfDict DEF IsAnswer
<1>6. ds \in Seq({ds[i] : i \in 1 .. Len(p.rows)}) /\ Len(ds) = Len(p.rows)
  BY <1>2, <1>4
<1>7. ds = <<>> <=> p.rows = <<>>
  <2>1. ds = <<>> <=> Len(p.rows) = 0
    BY <1>6
  <2>2. a.rows = <<>> <=> Len(a.rows) = 0
    BY DEF IsAnswer, IsSequence
  <2>3. p.rows = <<>> => Len(p.rows) = 0
    OBVIOUS
  <2>4. Len(p.rows) = 0 => p.rows = <<>>
    BY <1>1, PayloadOfAnswer DEF RowsToJson
  <2> QED
    BY <2>1, <2>3, <2>4
<1> QED
  BY <1>5, <1>6, <1>7 DEF p

-----------------------------------------------------------------------------
(* The tokens.                                                              *)

\* A token that awaits its call is newer than all that were known when the call
\* asked for it.
TokensAhead ==
    /\ known \in [Calls -> 0 .. newest] /\ before \in 0 .. newest
    /\ \A c \in Calls : Arrived(c, "login") => reply[c].token > known[c]
    /\ LoginRenews

TokenInv ==
    /\ pc \in [Calls -> Places] /\ DOMAIN reply = Calls
    /\ minted \in Nat /\ newest \in 0 .. minted
    /\ \A r \in requests : r.by \in Calls
    /\ \A c \in Calls : reply[c] # None => reply[c].token \in 0 .. minted
    /\ token # None => header = token
    /\ bare = {}
    /\ TokensAhead

USE ClientAssumption

\* Of all calls only c moves, and no statement goes out bare.
Moved(c) ==
    /\ pc' \in [Calls -> Places] /\ DOMAIN reply' = Calls
    /\ \A d \in Calls \ {c} : pc'[d] = pc[d] /\ reply'[d] = reply[d]
    /\ reply'[c] = None
    /\ \A r \in requests' : r.by \in Calls
    /\ known' = known \/ known' = [known EXCEPT ![c] = newest]
    /\ bare' = bare

LEMMA SendMoves ==
    ASSUME TokenInv, NEW c \in Calls, NEW kind \in {"login", "sql", "health"}, NEW h, NEW good,
           Send(c, kind, h, good),
           ~(kind = "sql" /\ h = None /\ auto /\ Complete(username, password))
    PROVE  Moved(c) /\ pc'[c] \in {kind, "done"}
<1>1. \/ EndAtOnce(c, Raised("RuntimeError", None, None))
      \/ /\ requests' = requests \union {[by |-> c, kind |-> kind, token |-> h, good |-> good]}
         /\ pc' = [pc EXCEPT ![c] = kind]
         /\ known' = IF kind = "login" THEN [known EXCEPT ![c] = newest] ELSE known
         /\ bare' = IF kind = "sql" /\ h = None /\ auto /\ Complete(username, password)
                    THEN bare \union {c} ELSE bare
  BY DEF Send
<1>2. reply' = [reply EXCEPT ![c] = None]
  BY DEF Send, EndAtOnce, End
<1>3. pc' = [pc EXCEPT ![c] = kind] \/ pc' = [pc EXCEPT ![c] = "done"]
  BY <1>1 DEF EndAtOnce, End
<1>4. \A r \in requests' : r.by \in Calls
  BY <1>1 DEF EndAtOnce, TokenInv
<1>5. known' = known \/ known' = [known EXCEPT ![c] = newest]
  BY <1>1 DEF EndAtOnce
<1>6. bare' = bare
  BY <1>1 DEF EndAtOnce
<1> QED
  BY <1>2, <1>3, <1>4, <1>5, <1>6 DEF TokenInv, Places, Moved

LEMMA EndMoves ==
    ASSUME TokenInv, NEW c \in Calls, NEW o, End(c, o), UNCHANGED <<requests, known, bare>>
    PROVE  Moved(c) /\ pc'[c] = "done"
BY DEF End, TokenInv, Moved, Places

LEMMA SendStatementMoves ==
    ASSUME TokenInv, NEW c \in Calls, NEW i, NEW h, SendStatement(c, i, h),
           ~(h = None /\ auto /\ Complete(username, password))
    PROVE  Moved(c) /\ pc'[c] \in {"sql", "done"}
<1>1. CASE i.fault = "unencodable"
  BY <1>1, EndMoves DEF SendStatement, EndAtOnce
<1>2. CASE i.fault # "unencodable"
  BY <1>2, SendMoves DEF SendStatement
<1> QED
  BY <1>1, <1>2

LEMMA MovedKeepsTokenInv ==
    ASSUME TokenInv, NEW c \in Calls, Moved(c), UNCHANGED <<token, header, minted, newest, before>>
    PROVE  TokenInv'
<1>1. /\ \A d \in Calls : reply'[d] # None => reply'[d].token \in 0 .. minted
      /\ \A r \in requests' : r.by \in Calls
  BY DEF TokenInv, Moved
<1>2. TokensAhead'
  <2>1. known' \in [Calls -> 0 .. newest] /\ before \in 0 .. newest
    BY DEF TokenInv, TokensAhead, Moved
  <2>2. ASSUME NEW d \in Calls, Arrived(d, "login")'
        PROVE  reply'[d].token > known'[d]
    BY <2>2 DEF TokenInv, TokensAhead, Moved, Arrived
  <2> QED
    BY <2>1, <2>2 DEF TokenInv, TokensAhead, LoginRenews
<1> QED
  BY <1>1, <1>2 DEF TokenInv, Moved

\* Nothing is sent bare: the client logs in first, or has a token.
LEMMA CallStepKeepsTokenInv ==
    ASSUME TokenInv, NEW c \in Calls, CallStep(c)
    PROVE  TokenInv'
<1>1. CASE BeginStatement(c)
  <2>1. PICK i \in Menu[c] : IF NeedsLogin THEN SendLogin(c, username, password)
                                           ELSE SendStatement(c, i, header)
    BY <1>1 DEF BeginStatement
  <2>2. ASSUME NeedsLogin PROVE Moved(c)
    BY <2>1, <2>2, SendMoves DEF SendLogin
  <2>3. ASSUME ~NeedsLogin PROVE Moved(c)
    <3>1. ~(header = None /\ auto /\ Complete(username, password))
      BY <2>3 DEF NeedsLogin, TokenInv
    <3> QED
      BY <2>1, <2>3, <3>1, SendStatementMoves
  <2>4. UNCHANGED <<token, header, minted, newest, before>>
    BY <1>1 DEF BeginStatement, client, server
  <2> QED
    BY <2>2, <2>3, <2>4, MovedKeepsTokenInv
<1>2. CASE login(c)
  <2>1. \/ SendLogin(c, username', password')
        \/ EndAtOnce(c, Raised("AuthenticationError", None, None))
    BY <1>2 DEF login
  <2>2. Moved(c)
    BY <2>1, SendMoves, EndMoves DEF SendLogin, EndAtOnce
  <2>3. UNCHANGED <<token, header, minted, newest, before>>
    BY <1>2 DEF login, server
  <2> QED
    BY <2>2, <2>3, MovedKeepsTokenInv
<1>3. CASE authenticate(c) \/ health(c)
  <2>1. Moved(c)
    BY <1>3, SendMoves DEF authenticate, health, SendLogin
  <2>2. UNCHANGED <<token, header, minted, newest, before>>
    BY <1>3 DEF authenticate, health, client, server
  <2> QED
    BY <2>1, <2>2, MovedKeepsTokenInv
<1>4. CASE \/ ExchangeBreaks(c) \/ Cancel(c) \/ ErrorArrives(c) \/ NoJsonArrives(c)
           \/ HealthArrives(c) \/ ResultArrives(c)
  <2>1. PICK o : End(c, o)
    BY <1>4 DEF ExchangeBreaks, Cancel, ErrorArrives, NoJsonArrives, HealthArrives, ResultArrives
  <2>2. UNCHANGED <<client, requests, server, history>>
    BY <1>4 DEF ExchangeBreaks, Cancel, ErrorArrives, NoJsonArrives, HealthArrives, ResultArrives
  <2> QED
    BY <2>1, <2>2, EndMoves, MovedKeepsTokenInv DEF client, server, history
<1>5. CASE LoginArrives(c)
  <2> DEFINE t == reply[c].token
  <2>1. /\ Arrived(c, "login") /\ pc[c] = "login" /\ t \in 0 .. minted
        /\ token' = t /\ header' = t /\ minted' = minted
        /\ newest' = IF t > newest THEN t ELSE newest
    BY <1>5 DEF LoginArrives, Arrived, set_token, server, TokenInv
  <2>2. Moved(c) /\ pc'[c] # "login"
    <3>1. header' # None
      BY <2>1 DEF TokenInv
    <3> QED
      BY <1>5, <3>1, SendStatementMoves, EndMoves DEF LoginArrives, EndAtOnce
  <2>3. /\ \A d \in Calls : reply'[d] # None => reply'[d].token \in 0 .. minted
        /\ newest' \in 0 .. minted
    BY <2>1, <2>2 DEF TokenInv, Moved
  <2>4. TokensAhead'
    <3>1. t > known[c] /\ before' = known[c] /\ newest' >= newest
      BY <1>5, <2>1 DEF LoginArrives, TokenInv, TokensAhead
    <3>2. known' \in [Calls -> 0 .. newest'] /\ before' \in 0 .. newest'
      BY <2>1, <2>2, <2>3, <3>1 DEF TokenInv, TokensAhead, Moved
    <3>3. ASSUME NEW d \in Calls, Arrived(d, "login")'
          PROVE  reply'[d].token > known'[d]
      BY <2>2, <3>3 DEF TokenInv, TokensAhead, Moved, Arrived
    <3> QED
      BY <2>1, <3>1, <3>2, <3>3 DEF TokensAhead, LoginRenews
  <2> QED
    BY <2>1, <2>2, <2>3, <2>4 DEF TokenInv, Moved
<1> QED
  BY <1>1, <1>2, <1>3, <1>4, <1>5 DEF CallStep

\* Every answer but a token's has none, and a token is newer than all before.
LEMMA AnswerTokens ==
    ASSUME TokenInv, NEW r \in requests, Handle(r)
    PROVE  \E a : /\ Respond(r, a)
                  /\ a.token \in 0 .. minted'
                  /\ minted' \in {minted, minted + 1}
                  /\ r.kind = "login" /\ a.status < 400 /\ a.json => a.token = minted + 1
                  /\ UNCHANGED <<client, pc, call, outcome, history>>
<1>1. minted \in Nat
  BY DEF TokenInv
<1>2. CASE IssueToken(r)
  BY <1>1, <1>2 DEF IssueToken, TokenAnswer
<1>3. CASE ~IssueToken(r)
  <2>1. \E a : /\ Respond(r, a)
               /\ a.token = 0
               /\ minted' = minted
               /\ ~(r.kind = "login" /\ a.status < 400 /\ a.json)
               /\ UNCHANGED <<client, pc, call, outcome, history>>
    <3>1. CASE Turn(r) \/ RefuseLogin(r)
      BY <3>1 DEF Turn, RefuseLogin, Answer, NoJson, server
    <3>2. CASE WriteHealth(r) \/ RefuseToken(r) \/ RefuseRequest(r)
      BY <3>2 DEF WriteHealth, RefuseToken, RefuseRequest, Answer, server
    <3>3. CASE ExecuteCommand(r)
      BY <3>3 DEF ExecuteCommand, LateErrors, Answer, SqlAnswer, NoJson, server
    <3>4. CASE ExecuteQuery(r)
      <4>1. r.kind = "sql" /\ UNCHANGED <<client, pc, call, outcome, minted, history>>
        BY <3>4 DEF ExecuteQuery, server
      <4>2. \/ \E answer \in Answers :
                  Respond(r, SqlAnswer(RowsToJson(answer)))
            \/ \E a \in {Answer(422, "sql_error")} \union LateErrors : Respond(r, a)
        BY <3>4 DEF ExecuteQuery
      <4>3. \A payload : SqlAnswer(payload).token = 0
        BY DEF Answer, SqlAnswer
      <4>4. \A a \in {Answer(422, "sql_error")} \union LateErrors : a.token = 0
        BY DEF LateErrors, Answer, NoJson
      <4>5. \E a : a.token = 0 /\ Respond(r, a)
        BY <4>2, <4>3, <4>4, Zenon
      <4> QED
        BY <4>1, <4>5
    <3>5. CASE StatementFails(r)
      BY <3>5 DEF StatementFails, Answer, server
    <3> QED
      BY <1>3, <3>1, <3>2, <3>3, <3>4, <3>5 DEF Handle
  <2> QED
    BY <1>1, <2>1
<1> QED
  BY <1>2, <1>3

LEMMA HandleKeepsTokenInv ==
    ASSUME TokenInv, NEW r \in requests, Handle(r)
    PROVE  TokenInv'
<1>1. PICK a : /\ Respond(r, a)
               /\ a.token \in 0 .. minted'
               /\ minted' \in {minted, minted + 1}
               /\ r.kind = "login" /\ a.status < 400 /\ a.json => a.token = minted + 1
               /\ UNCHANGED <<client, pc, call, outcome, history>>
  BY AnswerTokens
<1>2. /\ r.by \in Calls /\ requests' = requests \ {r}
      /\ \/ reply' = reply
         \/ pc[r.by] = r.kind /\ reply' = [reply EXCEPT ![r.by] = a]
  BY <1>1 DEF Respond, TokenInv
<1>3. UNCHANGED <<token, header, pc, newest, known, before, bare>>
  BY <1>1 DEF client, history
<1>4. minted \in Nat /\ minted' \in Nat /\ newest \in 0 .. minted /\ newest \in 0 .. minted'
  BY <1>1 DEF TokenInv
<1>5. DOMAIN reply' = Calls /\ \A c \in Calls : reply'[c] # None => reply'[c].token \in 0 .. minted'
  BY <1>1, <1>2, <1>4 DEF TokenInv
<1>6. TokensAhead'
  <2>1. TokensAhead /\ DOMAIN reply = Calls
    BY DEF TokenInv
  <2>2. ASSUME NEW c \in Calls, Arrived(c, "login")'
        PROVE  reply'[c].token > known[c]
    <3>1. pc[c] = "login" /\ reply'[c] # None /\ reply'[c].status < 400 /\ reply'[c].json
      BY <1>3, <2>2 DEF Arrived
    <3>2. CASE reply'[c] = reply[c]
      BY <2>1, <3>1, <3>2 DEF Arrived, TokensAhead
    <3>3. CASE reply'[c] # reply[c]
      <4>1. c = r.by /\ reply'[c] = a /\ r.kind = "login"
        BY <1>2, <2>1, <3>1, <3>3
      <4>2. known[c] \in 0 .. newest
        BY <2>1 DEF TokensAhead
      <4> QED
        BY <1>1, <1>4, <3>1, <4>1, <4>2
    <3> QED
      BY <3>2, <3>3
  <2> QED
    BY <1>3, <2>1, <2>2 DEF TokensAhead, LoginRenews
<1> QED
  BY <1>2, <1>3, <1>4, <1>5, <1>6 DEF TokenInv

LEMMA TokenInvInit == Init => TokenInv
<1> SUFFICES ASSUME Init PROVE TokenInv
  OBVIOUS
<1>1. token # None => header = token
  BY DEF Init
<1>2. token \notin Nat
  BY DEF Init, Opening
<1> QED
  BY <1>1, <1>2 DEF Init, TokenInv, TokensAhead, LoginRenews, Arrived, Places

LEMMA TokenInvStep == TokenInv /\ [Next]_vars => TokenInv'
<1> SUFFICES ASSUME TokenInv, [Next]_vars PROVE TokenInv'
  OBVIOUS
<1>1. CASE \E c \in Calls : CallStep(c)
  BY <1>1, CallStepKeepsTokenInv
<1>2. CASE \E r \in requests : Handle(r)
  BY <1>2, HandleKeepsTokenInv
<1>3. CASE SetToken
  <2>1. /\ token' \in {None, GivenToken} /\ header' = token'
        /\ UNCHANGED <<pc, reply, requests, minted, newest, known, before, bare>>
    BY <1>3 DEF SetToken, set_token, progress, server, history
  <2>2. TokensAhead'
    BY <2>1 DEF TokenInv, TokensAhead, LoginRenews, Arrived
  <2> QED
    BY <2>1, <2>2 DEF TokenInv
<1>4. CASE aclose \/ Revoke \/ Finished \/ UNCHANGED vars
  <2>1. UNCHANGED <<token, header, pc, reply, requests, minted, newest, known, before, bare>>
    BY <1>4 DEF aclose, Revoke, Finished, vars, client, progress, server, history
  <2>2. TokensAhead'
    BY <2>1 DEF TokenInv, TokensAhead, LoginRenews, Arrived
  <2> QED
    BY <2>1, <2>2 DEF TokenInv
<1> QED
  BY <1>1, <1>2, <1>3, <1>4 DEF Next

LEMMA TokenInvariant == Spec => []TokenInv
BY TokenInvInit, TokenInvStep, PTL DEF Spec

\* With credentials and auto_authenticate no statement is ever sent without a
\* token, whatever other calls do to the token and to the credentials.
THEOREM NoStatementBare == Spec => []NoBareStatement
<1>1. TokenInv => NoBareStatement
  BY DEF TokenInv, NoBareStatement
<1> QED
  BY <1>1, TokenInvariant, PTL

\* A login brings a token newer than all that the client had when it was sent,
\* however many logins overlap.
THEOREM LoginsRenew == Spec => []LoginRenews
<1>1. TokenInv => LoginRenews
  BY DEF TokenInv, TokensAhead
<1> QED
  BY <1>1, TokenInvariant, PTL

-----------------------------------------------------------------------------
(* The effects.                                                             *)

\* An answer by which the server says that it has not executed the statement.
IsRefusal(a, statement) ==
    /\ a.status >= 400
    /\ \/ ApiError(a.status, a.code) \in {"AuthenticationError", "AuthorizationError",
                                          "ValidationError", "LiquidStoolapError"}
       \/ ApiError(a.status, a.code) = "QueryError" /\ statement = "command"
       \/ ApiError(a.status, a.code) = "ServerError" /\ a.code = "backend_unavailable"

OnItsWay(r, c) == r.by = c /\ r.kind = "sql"

\* The request of c on its way is the only one, and was not handled before.
RequestHolds(c) ==
    \A r \in requests : OnItsWay(r, c) =>
        /\ executed[c] = 0 /\ IsStatement(c)
        /\ pc[c] \in {"sql", "done"}
        /\ pc[c] = "sql" => reply[c] = None
        /\ \A s \in requests : OnItsWay(s, c) => s = r

\* The answer that awaits c is true.
ReplyHolds(c) ==
    pc[c] = "sql" /\ reply[c] # None =>
        /\ reply[c].status < 400 /\ reply[c].json => executed[c] = 1
        /\ IsRefusal(reply[c], call[c].statement) => executed[c] = 0

\* What the end of c tells of its statement.
EndHolds(c) ==
    IsStatement(c) /\ pc[c] = "done" =>
        /\ Executed(c) => executed[c] = 1
        /\ Unexecuted(c) => executed[c] = 0 /\ \A r \in requests : ~OnItsWay(r, c)

CallHolds(c) ==
    /\ IF pc[c] = "idle" THEN call[c] = None ELSE call[c] \in Menu[c]
    /\ executed[c] \in {0, 1}
    /\ executed[c] # 0 => pc[c] \in {"sql", "done"}
    /\ executed[c] # 0 \/ pc[c] = "sql" => IsStatement(c)
    /\ pc[c] = "health" => ~IsStatement(c)
    /\ reply[c] # None => reply[c].status \in Nat
    /\ RequestHolds(c)
    /\ ReplyHolds(c)
    /\ EndHolds(c)

EffectShape ==
    /\ pc \in [Calls -> Places]
    /\ executed \in [Calls -> Nat]
    /\ DOMAIN call = Calls /\ DOMAIN reply = Calls /\ DOMAIN outcome = Calls
    /\ \A r \in requests : r.by \in Calls

EffectInv == EffectShape /\ \A c \in Calls : CallHolds(c)

\* What the program knows of c changes as StatementCalls allows, and of no other
\* call.
StageStep(c) ==
    /\ \A d \in Calls \ {c} : StageOf(d)' = StageOf(d)
    /\ \/ StageOf(c)' = StageOf(c)
       \/ StageOf(c) = "new" /\ StageOf(c)' = "pending"
       \/ StageOf(c) = "pending" /\ StageOf(c)' = "succeeded" /\ executed[c] = 1
       \/ StageOf(c) \in {"new", "pending"} /\ StageOf(c)' = "refused" /\ executed[c] = 0
       \/ StageOf(c) = "pending" /\ StageOf(c)' = "open"

LEMMA StageStepAllowed ==
    ASSUME EffectInv, NEW c \in Calls, StageStep(c), executed' = executed
    PROVE  [Promise!Next]_<<[d \in Calls |-> StageOf(d)], executed>>
<1> DEFINE stage == [d \in Calls |-> StageOf(d)]
<1>1. stage' = [stage EXCEPT ![c] = StageOf(c)']
  BY DEF StageStep
<1>2. stage[c] = StageOf(c) /\ stage \in [Calls -> {StageOf(d) : d \in Calls}]
  OBVIOUS
<1> HIDE DEF stage
<1>3. CASE StageOf(c)' = StageOf(c)
  <2>1. stage' = stage
    BY <1>1, <1>2, <1>3
  <2> QED
    BY <2>1 DEF stage
<1>4. CASE StageOf(c)' # StageOf(c)
  <2>1. \/ /\ stage[c] = "new" /\ stage' = [stage EXCEPT ![c] = "pending"]
        \/ /\ stage[c] = "pending" /\ stage' = [stage EXCEPT ![c] = "succeeded"]
           /\ executed[c] = 1
        \/ /\ stage[c] \in {"new", "pending"} /\ stage' = [stage EXCEPT ![c] = "refused"]
           /\ executed[c] = 0
        \/ /\ stage[c] = "pending" /\ stage' = [stage EXCEPT ![c] = "open"]
    BY <1>1, <1>2, <1>4 DEF StageStep
  <2>2. Promise!Issue(c) \/ Promise!Succeed(c) \/ Promise!Refuse(c) \/ Promise!Lose(c)
    BY <2>1 DEF Promise!Issue, Promise!Succeed, Promise!Refuse, Promise!Lose, stage
  <2> QED
    BY <2>2 DEF Promise!Next
<1> QED
  BY <1>3, <1>4

\* What other calls do does not matter.
LEMMA OtherCalls ==
    ASSUME NEW c, CallHolds(c),
           pc'[c] = pc[c], call'[c] = call[c], reply'[c] = reply[c],
           outcome'[c] = outcome[c], executed'[c] = executed[c],
           \A r \in requests' : OnItsWay(r, c) => r \in requests
    PROVE  CallHolds(c)' /\ StageOf(c)' = StageOf(c)
<1>1. IsStatement(c)' <=> IsStatement(c)
  BY DEF IsStatement
<1>2. (Executed(c)' <=> Executed(c)) /\ (Unexecuted(c)' <=> Unexecuted(c))
  BY DEF Executed, Unexecuted
<1>3. RequestHolds(c)' /\ ReplyHolds(c)' /\ EndHolds(c)'
  BY <1>1, <1>2 DEF CallHolds, RequestHolds, ReplyHolds, EndHolds
<1>4. StageOf(c)' = StageOf(c)
  BY <1>1, <1>2 DEF StageOf
<1> QED
  BY <1>1, <1>3, <1>4 DEF CallHolds

\* Before a statement is sent, none was executed.
LEMMA NothingSentYet ==
    ASSUME NEW c, CallHolds(c), pc[c] \in {"idle", "login", "health"}
    PROVE  executed[c] = 0 /\ \A r \in requests : ~OnItsWay(r, c)
BY DEF CallHolds, RequestHolds

\* A call ends without an exchange, by an error that tells as much.
LEMMA EndAtOnceKeeps ==
    ASSUME EffectInv, NEW c \in Calls, pc[c] \in {"idle", "login"}, NEW o, EndAtOnce(c, o),
           call'[c] \in Menu[c], DOMAIN call' = Calls,
           \A d \in Calls \ {c} : call'[d] = call[d],
           executed' = executed,
           pc[c] = "login" => call'[c] = call[c],
           IsStatement(c)' => o.error \in {"AuthenticationError", "RuntimeError", "TypeError"}
    PROVE  EffectInv' /\ StageStep(c)
<1>1. /\ pc' = [pc EXCEPT ![c] = "done"] /\ reply' = [reply EXCEPT ![c] = None]
      /\ outcome' = [outcome EXCEPT ![c] = o] /\ requests' = requests
  BY DEF EndAtOnce, End
<1>2. executed[c] = 0 /\ \A r \in requests : ~OnItsWay(r, c)
  BY NothingSentYet DEF EffectInv
<1>3. EffectShape'
  BY <1>1 DEF EffectInv, EffectShape, Places
<1>4. pc'[c] = "done" /\ outcome'[c] = o /\ reply'[c] = None
  BY <1>1 DEF EffectInv, EffectShape
<1>5. IsStatement(c)' => ~Executed(c)'
  <2>1. None \notin {"AuthenticationError", "RuntimeError", "TypeError"}
    BY NoneAssumption DEF SdkErrors, ForeignErrors
  <2> QED
    BY <1>4, <2>1 DEF Executed
<1>6. CallHolds(c)'
  BY <1>1, <1>2, <1>4, <1>5 DEF CallHolds, RequestHolds, ReplyHolds, EndHolds, EffectInv
<1>7. \A d \in Calls \ {c} : CallHolds(d)' /\ StageOf(d)' = StageOf(d)
  BY <1>1, OtherCalls DEF EffectInv, EffectShape
<1>8. StageStep(c)
  <2>1. IsStatement(c)' => StageOf(c)' = "refused"
    BY <1>4, <1>5 DEF StageOf, Unexecuted
  <2>2. ~IsStatement(c)' => StageOf(c)' = "new"
    BY DEF StageOf
  <2>3. StageOf(c) \in {"new", "pending"}
    BY DEF StageOf
  <2>4. ~IsStatement(c)' => StageOf(c) = "new"
    BY DEF StageOf, IsStatement, EffectInv, CallHolds
  <2> QED
    BY <1>2, <1>7, <2>1, <2>2, <2>3, <2>4 DEF StageStep
<1> QED
  BY <1>3, <1>6, <1>7, <1>8 DEF EffectInv

\* A call sends its statement, or what has to precede it.
LEMMA SendKeeps ==
    ASSUME EffectInv, NEW c \in Calls, pc[c] \in {"idle", "login"},
           NEW kind \in {"login", "sql", "health"}, NEW h, NEW good, Send(c, kind, h, good),
           call'[c] \in Menu[c], DOMAIN call' = Calls,
           \A d \in Calls \ {c} : call'[d] = call[d],
           executed' = executed,
           pc[c] = "login" => call'[c] = call[c],
           kind = "sql" => IsStatement(c)',
           kind = "health" => ~IsStatement(c)'
    PROVE  EffectInv' /\ StageStep(c)
<1>1. CASE EndAtOnce(c, Raised("RuntimeError", None, None))
  <2>1. Raised("RuntimeError", None, None).error = "RuntimeError"
    BY DEF Raised
  <2> QED
    BY <1>1, <2>1, EndAtOnceKeeps
<1>2. CASE ~EndAtOnce(c, Raised("RuntimeError", None, None))
  <2> DEFINE r == [by |-> c, kind |-> kind, token |-> h, good |-> good]
  <2>1. /\ requests' = requests \union {r}
        /\ pc' = [pc EXCEPT ![c] = kind] /\ reply' = [reply EXCEPT ![c] = None]
        /\ outcome' = outcome
    BY <1>2 DEF Send
  <2>2. r.by = c /\ r.kind = kind
    OBVIOUS
  <2> HIDE DEF r
  <2>3. executed[c] = 0 /\ \A s \in requests : ~OnItsWay(s, c)
    BY NothingSentYet DEF EffectInv
  <2>4. EffectShape'
    BY <2>1, <2>2 DEF EffectInv, EffectShape, Places
  <2>5. pc'[c] = kind /\ reply'[c] = None
    BY <2>1 DEF EffectInv, EffectShape
  <2>6. RequestHolds(c)'
    BY <2>1, <2>2, <2>3, <2>5 DEF RequestHolds, OnItsWay
  <2>7. CallHolds(c)'
    BY <2>1, <2>3, <2>5, <2>6 DEF CallHolds, ReplyHolds, EndHolds
  <2>8. \A d \in Calls \ {c} : CallHolds(d)' /\ StageOf(d)' = StageOf(d)
    BY <2>1, <2>2, OtherCalls DEF EffectInv, EffectShape, OnItsWay
  <2>9. StageStep(c)
    <3>1. StageOf(c)' = IF IsStatement(c)' THEN "pending" ELSE "new"
      BY <2>5 DEF StageOf
    <3>2. StageOf(c) = IF IsStatement(c) THEN "pending" ELSE "new"
      BY DEF StageOf
    <3>3. IsStatement(c) => IsStatement(c)'
      BY DEF IsStatement, EffectInv, CallHolds
    <3> QED
      BY <2>8, <3>1, <3>2, <3>3 DEF StageStep
  <2> QED
    BY <2>4, <2>7, <2>8, <2>9 DEF EffectInv
<1> QED
  BY <1>1, <1>2

\* A call that waited ends: by the answer, or without one.
LEMMA EndKeeps ==
    ASSUME EffectInv, NEW c \in Calls, Awaiting(c), NEW o, End(c, o),
           UNCHANGED <<call, requests, executed>>,
           EndHolds(c)'
    PROVE  EffectInv' /\ StageStep(c)
<1>1. /\ pc' = [pc EXCEPT ![c] = "done"] /\ reply' = [reply EXCEPT ![c] = None]
      /\ outcome' = [outcome EXCEPT ![c] = o]
  BY DEF End
<1>2. pc[c] \in {"login", "sql", "health"}
  BY DEF Awaiting
<1>3. EffectShape'
  BY <1>1 DEF EffectInv, EffectShape, Places
<1>4. pc'[c] = "done" /\ outcome'[c] = o /\ reply'[c] = None
  BY <1>1 DEF EffectInv, EffectShape
<1>5. IsStatement(c)' <=> IsStatement(c)
  BY DEF IsStatement
<1>6. CallHolds(c)'
  <2>1. CallHolds(c)
    BY DEF EffectInv
  <2>2. RequestHolds(c)'
    BY <1>4, <1>5, <2>1 DEF CallHolds, RequestHolds
  <2> QED
    BY <1>2, <1>4, <1>5, <2>1, <2>2 DEF CallHolds, ReplyHolds
<1>7. \A d \in Calls \ {c} : CallHolds(d)' /\ StageOf(d)' = StageOf(d)
  BY <1>1, OtherCalls DEF EffectInv, EffectShape
<1>8. StageStep(c)
  <2>1. StageOf(c) = IF IsStatement(c) THEN "pending" ELSE "new"
    BY <1>2 DEF StageOf
  <2>2. ~IsStatement(c)' => StageOf(c)' = "new"
    BY DEF StageOf
  <2>3. IsStatement(c)' => \/ StageOf(c)' = "succeeded" /\ executed[c] = 1
                           \/ StageOf(c)' = "refused" /\ executed[c] = 0
                           \/ StageOf(c)' = "open"
    BY <1>4 DEF StageOf, EndHolds
  <2> QED
    BY <1>5, <1>7, <2>1, <2>2, <2>3 DEF StageStep
<1> QED
  BY <1>3, <1>6, <1>7, <1>8 DEF EffectInv

LEMMA SendStatementKeeps ==
    ASSUME EffectInv, NEW c \in Calls, pc[c] \in {"idle", "login"}, NEW i, NEW h,
           SendStatement(c, i, h),
           call'[c] \in Menu[c], DOMAIN call' = Calls,
           \A d \in Calls \ {c} : call'[d] = call[d],
           executed' = executed,
           pc[c] = "login" => call'[c] = call[c],
           IsStatement(c)'
    PROVE  EffectInv' /\ StageStep(c)
<1>1. CASE i.fault = "unencodable"
  <2>1. EndAtOnce(c, Raised("TypeError", None, None))
    BY <1>1 DEF SendStatement
  <2>2. Raised("TypeError", None, None).error = "TypeError"
    BY DEF Raised
  <2> QED
    BY <2>1, <2>2, EndAtOnceKeeps
<1>2. CASE i.fault # "unencodable"
  BY <1>2, SendKeeps DEF SendStatement
<1> QED
  BY <1>1, <1>2

\* A payload is returned, or it is of the other kind.
LEMMA ConclusionsTell ==
    ASSUME NEW m, NEW p
    PROVE  LET o == Conclude(m, p)
           IN  o.error = None \/ (o.error = "QueryError" /\ o.status_code = None)
<1>1. \A v : Returned(v).error = None
  BY DEF Returned
<1>2. Raised("QueryError", None, None).error = "QueryError" /\ Raised("QueryError", None, None).status_code = None
  BY DEF Raised
<1> QED
  BY <1>1, <1>2, Zenon DEF Conclude, execute, query, command, fetch

LEMMA BeginEffect ==
    ASSUME EffectInv, NEW c \in Calls, NEW i, Begin(c, i)
    PROVE  /\ pc[c] = "idle" /\ i \in Menu[c] /\ call'[c] = i /\ DOMAIN call' = Calls
           /\ \A d \in Calls \ {c} : call'[d] = call[d]
           /\ IsStatement(c)' <=> i.method \in SqlMethods
<1>1. /\ pc[c] = "idle" /\ i \in Menu[c] /\ call'[c] = i /\ DOMAIN call' = Calls
      /\ \A d \in Calls \ {c} : call'[d] = call[d]
  BY DEF Begin, EffectInv, EffectShape
<1>2. i # None
  <2>1. i \in Invocation
    BY <1>1, ClientAssumption
  <2> QED
    BY <2>1, ClientAssumption
<1> QED
  BY <1>1, <1>2 DEF IsStatement

LEMMA CallStepKeepsEffectInv ==
    ASSUME EffectInv, NEW c \in Calls, CallStep(c)
    PROVE  EffectInv' /\ StageStep(c) /\ executed' = executed
<1>1. executed' = executed
  BY DEF CallStep, BeginStatement, login, authenticate, health, ExchangeBreaks, Cancel,
         ErrorArrives, NoJsonArrives, LoginArrives, HealthArrives, ResultArrives, effects
<1>2. CASE BeginStatement(c)
  <2>1. PICK i \in Menu[c] :
           /\ i.method \in SqlMethods
           /\ Begin(c, i)
           /\ IF NeedsLogin THEN SendLogin(c, username, password)
                            ELSE SendStatement(c, i, header)
    BY <1>2 DEF BeginStatement
  <2>2. CASE SendLogin(c, username, password)
    BY <1>1, <2>1, <2>2, BeginEffect, SendKeeps DEF SendLogin
  <2>3. CASE SendStatement(c, i, header)
    BY <1>1, <2>1, <2>3, BeginEffect, SendStatementKeeps
  <2> QED
    BY <1>1, <2>1, <2>2, <2>3
<1>3. CASE login(c)
  <2>1. PICK i \in Menu[c] :
           /\ i.method = "login"
           /\ Begin(c, i)
           /\ \/ SendLogin(c, username', password')
              \/ EndAtOnce(c, Raised("AuthenticationError", None, None))
    BY <1>3 DEF login
  <2>2. CASE SendLogin(c, username', password')
    BY <1>1, <2>1, <2>2, BeginEffect, SendKeeps DEF SendLogin
  <2>3. CASE EndAtOnce(c, Raised("AuthenticationError", None, None))
    <3>1. Raised("AuthenticationError", None, None).error = "AuthenticationError"
      BY DEF Raised
    <3> QED
      BY <1>1, <2>1, <2>3, <3>1, BeginEffect, EndAtOnceKeeps
  <2> QED
    BY <1>1, <2>1, <2>2, <2>3
<1>4. CASE authenticate(c) \/ health(c)
  <2>1. PICK i \in Menu[c], kind \in {"login", "health"} :
           /\ Begin(c, i) /\ i.method \notin SqlMethods
           /\ \E h, good : Send(c, kind, h, good)
    BY <1>4 DEF authenticate, health, SendLogin, SqlMethods, ResultSetMethods
  <2> QED
    BY <1>1, <2>1, BeginEffect, SendKeeps
<1>5. CASE ExchangeBreaks(c) \/ Cancel(c) \/ NoJsonArrives(c)
  <2>1. PICK e \in {"TimeoutError", "TransportError", "CancelledError", "JSONDecodeError"} :
           End(c, Raised(e, None, None))
    BY <1>5 DEF ExchangeBreaks, Cancel, NoJsonArrives
  <2>2. Awaiting(c) /\ UNCHANGED <<call, requests>>
    BY <1>5 DEF ExchangeBreaks, Cancel, NoJsonArrives
  <2>3. outcome'[c].error = e
    BY <2>1 DEF End, Raised, EffectInv, EffectShape
  <2>4. EndHolds(c)'
    <3>1. e # None
      BY NoneAssumption DEF SdkErrors, ForeignErrors
    <3> QED
      BY <2>3, <3>1 DEF EndHolds, Executed, Unexecuted
  <2> QED
    BY <1>1, <2>1, <2>2, <2>4, EndKeeps
<1>6. CASE ErrorArrives(c)
  <2> DEFINE a == reply[c]
             e == ApiError(a.status, a.code)
  <2>1. /\ End(c, Raised(e, a.code, a.status)) /\ Awaiting(c) /\ UNCHANGED <<call, requests>>
        /\ a # None /\ a.status >= 400
    BY <1>6 DEF ErrorArrives
  <2>2. outcome'[c] = Raised(e, a.code, a.status)
    BY <2>1 DEF End, EffectInv, EffectShape
  <2>3. e \in SdkErrors
    BY DEF ApiError, SdkErrors
  <2>4. a.status # None /\ e # None
    BY <2>1, <2>3, ClientAssumption, NoneAssumption DEF EffectInv, CallHolds
  <2>5. CallHolds(c)
    BY DEF EffectInv
  <2>6. ASSUME IsStatement(c)', Unexecuted(c)'
        PROVE  executed[c] = 0 /\ \A r \in requests : ~OnItsWay(r, c)
    <3>1. IsRefusal(a, call[c].statement)
      BY <2>1, <2>2, <2>3, <2>6 DEF Unexecuted, IsRefusal, Raised, SdkErrors
    <3>2. CASE pc[c] = "sql"
      BY <2>1, <2>5, <3>1, <3>2 DEF CallHolds, ReplyHolds, RequestHolds
    <3>3. CASE pc[c] \in {"login", "health"}
      BY <2>5, <3>3, NothingSentYet
    <3> QED
      BY <2>1, <3>2, <3>3 DEF Awaiting
  <2>7. ~Executed(c)'
    BY <2>2, <2>4 DEF Executed, Raised
  <2>8. EndHolds(c)'
    BY <1>1, <2>1, <2>6, <2>7 DEF EndHolds
  <2> QED
    BY <1>1, <2>1, <2>8, EndKeeps
<1>7. CASE LoginArrives(c)
  <2>1. /\ pc[c] = "login" /\ UNCHANGED call
        /\ IF call[c].method \in SqlMethods
           THEN SendStatement(c, call[c], header')
           ELSE EndAtOnce(c, Returned(reply[c].token))
    BY <1>7 DEF LoginArrives, Arrived
  <2>2. call[c] \in Menu[c] /\ DOMAIN call = Calls /\ call[c] # None
    <3>1. call[c] \in Menu[c] /\ DOMAIN call = Calls
      BY <2>1 DEF EffectInv, EffectShape, CallHolds
    <3>2. call[c] \in Invocation
      BY <3>1, ClientAssumption
    <3> QED
      BY <3>1, <3>2, ClientAssumption
  <2>3. IsStatement(c)' <=> call[c].method \in SqlMethods
    BY <2>1, <2>2 DEF IsStatement
  <2>4. CASE call[c].method \in SqlMethods
    BY <1>1, <2>1, <2>2, <2>3, <2>4, SendStatementKeeps
  <2>5. CASE call[c].method \notin SqlMethods
    BY <1>1, <2>1, <2>2, <2>3, <2>5, EndAtOnceKeeps
  <2> QED
    BY <2>4, <2>5
<1>8. CASE HealthArrives(c)
  <2>1. /\ End(c, Returned(Null)) /\ Awaiting(c) /\ UNCHANGED <<call, requests>>
        /\ pc[c] = "health"
    BY <1>8 DEF HealthArrives, Arrived, Awaiting
  <2>2. EndHolds(c)'
    BY <2>1 DEF EndHolds, IsStatement, EffectInv, CallHolds
  <2> QED
    BY <1>1, <2>1, <2>2, EndKeeps
<1>9. CASE ResultArrives(c)
  <2> DEFINE o == Conclude(call[c].method, reply[c].payload)
  <2>1. /\ End(c, o) /\ Awaiting(c) /\ UNCHANGED <<call, requests>>
        /\ Arrived(c, "sql")
    BY <1>9 DEF ResultArrives, Arrived, Awaiting
  <2>2. outcome'[c] = o
    BY <2>1 DEF End, EffectInv, EffectShape
  <2>3. executed[c] = 1
    BY <2>1 DEF Arrived, EffectInv, CallHolds, ReplyHolds
  <2>4. ~Unexecuted(c)'
    BY <2>2, ConclusionsTell, NoneAssumption DEF Unexecuted, SdkErrors, ForeignErrors
  <2>5. EndHolds(c)'
    BY <1>1, <2>3, <2>4 DEF EndHolds
  <2> QED
    BY <1>1, <2>1, <2>5, EndKeeps
<1> QED
  BY <1>2, <1>3, <1>4, <1>5, <1>6, <1>7, <1>8, <1>9 DEF CallStep

\* The server answers as it has done.
Answered(r, a) ==
    /\ Respond(r, a)
    /\ a.status \in Nat
    /\ UNCHANGED <<pc, call, outcome>>
    /\ \/ /\ executed' = executed
          /\ r.kind = "sql" => ~(a.status < 400 /\ a.json)
       \/ /\ executed' = [executed EXCEPT ![r.by] = @ + 1]
          /\ r.kind = "sql" /\ ~IsRefusal(a, call[r.by].statement)

LEMMA LateErrorsTell ==
    \A a \in LateErrors : \A s : a.status \in Nat /\ ~IsRefusal(a, s)
BY NoneAssumption DEF LateErrors, Answer, NoJson, IsRefusal, ApiError, ErrorCodes

LEMMA PayloadsTell ==
    \A p, s : /\ SqlAnswer(p).status \in Nat
              /\ ~IsRefusal(SqlAnswer(p), s)
<1>1. \A p : SqlAnswer(p).status = 200
  BY DEF Answer, SqlAnswer
<1>2. ~(200 >= 400)
  OBVIOUS
<1> QED
  BY <1>1, <1>2 DEF IsRefusal

LEMMA HandleAnswers ==
    ASSUME NEW r \in requests, Handle(r)
    PROVE  \E a : Answered(r, a)
<1>1. CASE Turn(r)
  BY <1>1 DEF Turn, Answer, NoJson, Answered, effects
<1>2. CASE IssueToken(r)
  BY <1>2 DEF IssueToken, TokenAnswer, Answered, effects
<1>3. CASE RefuseLogin(r) \/ WriteHealth(r)
  BY <1>3 DEF RefuseLogin, WriteHealth, Answer, Answered, effects
<1>4. CASE RefuseToken(r) \/ RefuseRequest(r) \/ StatementFails(r)
  BY <1>4 DEF RefuseToken, RefuseRequest, StatementFails, Answer, Answered, effects
<1>5. CASE ExecuteCommand(r)
  <2>1. PICK a \in {SqlAnswer(CommandToJson(1))} \union LateErrors :
           Respond(r, a)
    BY <1>5 DEF ExecuteCommand
  <2>2. a.status \in Nat /\ ~IsRefusal(a, call[r.by].statement)
    BY LateErrorsTell, PayloadsTell
  <2> QED
    BY <1>5, <2>1, <2>2 DEF ExecuteCommand, Answered
<1>6. CASE ExecuteQuery(r)
  <2>1. PICK a : /\ Respond(r, a)
                 /\ \/ \E answer \in Answers :
                          a = SqlAnswer(RowsToJson(answer))
                    \/ a = Answer(422, "sql_error")
                    \/ a \in LateErrors
    BY <1>6 DEF ExecuteQuery
  <2>2. /\ Answer(422, "sql_error").status \in Nat
        /\ ~IsRefusal(Answer(422, "sql_error"), call[r.by].statement)
    BY <1>6 DEF ExecuteQuery, IsRefusal, ApiError, Answer
  <2>3. a.status \in Nat /\ ~IsRefusal(a, call[r.by].statement)
    BY <2>1, <2>2, LateErrorsTell, PayloadsTell
  <2> QED
    BY <1>6, <2>1, <2>3 DEF ExecuteQuery, Answered
<1> QED
  BY <1>1, <1>2, <1>3, <1>4, <1>5, <1>6 DEF Handle

LEMMA HandleKeepsEffectInv ==
    ASSUME EffectInv, NEW r \in requests, Handle(r)
    PROVE  /\ EffectInv'
           /\ \A d \in Calls : StageOf(d)' = StageOf(d)
           /\ \/ executed' = executed
              \/ /\ executed[r.by] = 0 /\ executed' = [executed EXCEPT ![r.by] = 1]
                 /\ StageOf(r.by) \in {"pending", "open"}
<1> DEFINE c == r.by
<1>1. PICK a : Answered(r, a)
  BY HandleAnswers
<1>2. /\ c \in Calls /\ a.status \in Nat
      /\ requests' = requests \ {r}
      /\ pc' = pc /\ call' = call /\ outcome' = outcome
      /\ reply' = IF pc[c] = r.kind /\ reply[c] = None THEN [reply EXCEPT ![c] = a] ELSE reply
  BY <1>1 DEF Answered, Respond, EffectInv, EffectShape
<1>3. CallHolds(c)
  BY <1>2 DEF EffectInv
<1>4. /\ DOMAIN reply' = Calls
      /\ \A d \in Calls \ {c} : reply'[d] = reply[d]
      /\ reply'[c] = IF pc[c] = r.kind /\ reply[c] = None THEN a ELSE reply[c]
  BY <1>2 DEF EffectInv, EffectShape
<1>5. \/ executed' = executed /\ (r.kind = "sql" => ~(a.status < 400 /\ a.json))
      \/ /\ r.kind = "sql" /\ ~IsRefusal(a, call[c].statement)
         /\ executed[c] = 0 /\ executed' = [executed EXCEPT ![c] = 1]
  <2>1. r.kind = "sql" => executed[c] = 0
    BY <1>3 DEF CallHolds, RequestHolds, OnItsWay
  <2> QED
    BY <1>1, <2>1 DEF Answered
<1> HIDE DEF c
<1>6. /\ executed' \in [Calls -> Nat]
      /\ \A d \in Calls \ {c} : executed'[d] = executed[d]
  BY <1>2, <1>5 DEF EffectInv, EffectShape
<1>7. EffectShape'
  BY <1>2, <1>4, <1>6 DEF EffectInv, EffectShape
<1>8. \A d \in Calls \ {c} : CallHolds(d)' /\ StageOf(d)' = StageOf(d)
  BY <1>2, <1>4, <1>6, OtherCalls DEF EffectInv
<1>9. (IsStatement(c)' <=> IsStatement(c)) /\ (reply'[c] # None => reply'[c].status \in Nat)
  BY <1>2, <1>3, <1>4 DEF IsStatement, CallHolds
<1>10. /\ Executed(c)' <=> Executed(c)
       /\ Unexecuted(c)' <=> Unexecuted(c)
       /\ StageOf(c)' = StageOf(c)
  <2>1. (Executed(c)' <=> Executed(c)) /\ (Unexecuted(c)' <=> Unexecuted(c))
    BY <1>2 DEF Executed, Unexecuted
  <2> QED
    BY <1>2, <1>9, <2>1 DEF StageOf
<1>11. CASE r.kind # "sql"
  <2>1. executed' = executed /\ (pc[c] = "sql" => reply'[c] = reply[c])
    BY <1>4, <1>5, <1>11
  <2>2. RequestHolds(c)' /\ ReplyHolds(c)' /\ EndHolds(c)'
    BY <1>2, <1>3, <1>9, <1>10, <2>1 DEF CallHolds, RequestHolds, ReplyHolds, EndHolds
  <2>3. CallHolds(c)'
    BY <1>2, <1>3, <1>9, <2>1, <2>2 DEF CallHolds
  <2> QED
    BY <1>2, <1>7, <1>8, <1>10, <2>1, <2>3 DEF EffectInv
<1>12. CASE r.kind = "sql"
  <2>1. /\ executed[c] = 0 /\ IsStatement(c) /\ pc[c] \in {"sql", "done"}
        /\ pc[c] = "sql" => reply[c] = None
        /\ \A s \in requests' : ~OnItsWay(s, c)
    BY <1>2, <1>3, <1>12 DEF CallHolds, RequestHolds, OnItsWay, c
  <2>2. pc[c] = "sql" => reply'[c] = a
    BY <1>4, <1>12, <2>1
  <2>3. executed'[c] \in {0, 1}
    BY <1>5, <2>1, <1>2 DEF EffectInv, EffectShape
  <2>4. pc[c] = "done" => ~Executed(c) /\ ~Unexecuted(c)
    BY <1>3, <1>12, <2>1 DEF CallHolds, EndHolds, OnItsWay, c
  <2>5. ReplyHolds(c)'
    <3>1. CASE executed' = executed /\ ~(a.status < 400 /\ a.json)
      BY <1>2, <2>1, <2>2, <3>1 DEF ReplyHolds
    <3>2. CASE executed' = [executed EXCEPT ![c] = 1] /\ ~IsRefusal(a, call[c].statement)
      BY <1>2, <2>1, <2>2, <3>2 DEF ReplyHolds, EffectInv, EffectShape
    <3> QED
      BY <1>5, <1>12, <3>1, <3>2
  <2>6. RequestHolds(c)' /\ EndHolds(c)'
    BY <1>2, <1>10, <2>1, <2>4 DEF RequestHolds, EndHolds
  <2>7. CallHolds(c)'
    BY <1>2, <1>3, <1>9, <2>1, <2>3, <2>5, <2>6 DEF CallHolds
  <2>8. StageOf(c) \in {"pending", "open"}
    BY <2>1, <2>4 DEF StageOf
  <2> QED
    BY <1>2, <1>5, <1>7, <1>8, <1>10, <2>1, <2>7, <2>8 DEF EffectInv, c
<1> QED
  BY <1>11, <1>12

\* Whatever else happens touches no call.
LEMMA NoCallTouched ==
    ASSUME EffectInv, UNCHANGED <<progress, requests, executed>>
    PROVE  EffectInv' /\ \A d \in Calls : StageOf(d)' = StageOf(d)
<1>1. EffectShape'
  BY DEF EffectInv, EffectShape, progress
<1>2. \A d \in Calls : CallHolds(d)' /\ StageOf(d)' = StageOf(d)
  BY OtherCalls DEF EffectInv, progress
<1> QED
  BY <1>1, <1>2 DEF EffectInv

LEMMA EffectInvInit == Init => EffectInv /\ Promise!Init
<1> SUFFICES ASSUME Init PROVE EffectInv /\ Promise!Init
  OBVIOUS
<1>1. EffectShape
  BY DEF Init, EffectShape, Places
<1>2. \A c \in Calls : CallHolds(c) /\ StageOf(c) = "new"
  BY DEF Init, CallHolds, RequestHolds, ReplyHolds, EndHolds, StageOf, IsStatement
<1> QED
  BY <1>1, <1>2 DEF EffectInv, Init, Promise!Init

LEMMA EffectInvStep ==
    ASSUME EffectInv, [Next]_vars
    PROVE  EffectInv' /\ [Promise!Next]_<<[d \in Calls |-> StageOf(d)], executed>>
<1>1. CASE \E c \in Calls : CallStep(c)
  BY <1>1, CallStepKeepsEffectInv, StageStepAllowed
<1>2. CASE \E r \in requests : Handle(r)
  <2>1. PICK r \in requests : Handle(r)
    BY <1>2
  <2>2. EffectInv' /\ \A d \in Calls : StageOf(d)' = StageOf(d)
    BY <2>1, HandleKeepsEffectInv
  <2>3. r.by \in Calls
    BY DEF EffectInv, EffectShape
  <2>4. CASE executed' = executed
    BY <2>2, <2>4
  <2>5. CASE /\ executed[r.by] = 0 /\ executed' = [executed EXCEPT ![r.by] = 1]
             /\ StageOf(r.by) \in {"pending", "open"}
    <3>1. Promise!Execute(r.by)
      BY <2>2, <2>3, <2>5 DEF Promise!Execute
    <3> QED
      BY <2>2, <2>3, <3>1 DEF Promise!Next
  <2> QED
    BY <2>1, <2>4, <2>5, HandleKeepsEffectInv
<1>3. CASE SetToken \/ aclose \/ Revoke \/ Finished \/ UNCHANGED vars
  <2>1. UNCHANGED <<progress, requests, executed>>
    BY <1>3 DEF SetToken, aclose, Revoke, Finished, vars, effects
  <2>2. EffectInv' /\ \A d \in Calls : StageOf(d)' = StageOf(d)
    BY <2>1, NoCallTouched
  <2> QED
    BY <2>1, <2>2
<1> QED
  BY <1>1, <1>2, <1>3 DEF Next

LEMMA EffectInvariant == Spec => []EffectInv
<1>1. EffectInv /\ [Next]_vars => EffectInv'
  BY EffectInvStep
<1> QED
  BY <1>1, EffectInvInit, PTL DEF Spec

\* A call that returned was executed, once; one that was refused was not, and
\* is not executed later.
THEOREM OutcomesTellEffects == Spec => []OutcomeTellsEffect
<1>1. EffectInv => OutcomeTellsEffect
  <2> SUFFICES ASSUME EffectInv, NEW c \in Calls, IsStatement(c), pc[c] = "done"
               PROVE  /\ Executed(c) => executed[c] = 1
                      /\ Unexecuted(c) => /\ executed[c] = 0
                                          /\ \A r \in requests : ~(r.by = c /\ r.kind = "sql")
    BY DEF OutcomeTellsEffect
  <2> QED
    BY DEF EffectInv, CallHolds, EndHolds, OnItsWay
<1> QED
  BY <1>1, EffectInvariant, PTL

\* The client implements what StatementCalls promises a program.
THEOREM ClientKeepsPromise == Spec => KeepsPromise
<1>1. EffectInv /\ [Next]_vars => [Promise!Next]_<<[c \in Calls |-> StageOf(c)], executed>>
  BY EffectInvStep
<1>2. Init => Promise!Init
  BY EffectInvInit
<1>3. Spec => Promise!Spec
  BY <1>1, <1>2, EffectInvariant, PTL DEF Spec, Promise!Spec
<1> QED
  BY <1>3 DEF KeepsPromise

\* Whatever is broken off, cancelled or answered by a gateway, the statement of a
\* call is never executed twice.
THEOREM NothingExecutedTwice == Spec => [](\A c \in Calls : executed[c] <= 1)
<1>1. EffectInv => \A c \in Calls : executed[c] <= 1
  BY DEF EffectInv, CallHolds
<1> QED
  BY <1>1, EffectInvariant, PTL

-----------------------------------------------------------------------------
(* The rows.                                                                *)

\* What awaits c, and what c returned, was made of what the database said.
RowsHold(c) ==
    produced[c] # None =>
        /\ produced[c] \in Answers
        /\ executed[c] # 0
        /\ Arrived(c, "sql") => reply[c].payload = RowsToJson(produced[c])
        /\ pc[c] = "done" /\ outcome[c].error = None =>
              outcome[c].value = Conclude(call[c].method, RowsToJson(produced[c])).value

RowsInv == DOMAIN produced = Calls /\ \A c \in Calls : RowsHold(c)

LEMMA RowsUntouched ==
    ASSUME NEW c, RowsHold(c), pc'[c] = pc[c], call'[c] = call[c], outcome'[c] = outcome[c],
           produced'[c] = produced[c], executed'[c] = executed[c],
           pc[c] = "sql" => reply'[c] = reply[c]
    PROVE  RowsHold(c)'
BY DEF RowsHold, Arrived

\* A step of c is no step of another call.
LEMMA OthersRest ==
    ASSUME EffectInv, NEW c \in Calls, CallStep(c)
    PROVE  /\ UNCHANGED effects
           /\ \A d \in Calls \ {c} : /\ pc'[d] = pc[d] /\ call'[d] = call[d]
                                     /\ reply'[d] = reply[d] /\ outcome'[d] = outcome[d]
<1> USE DEF EffectInv, EffectShape, Begin, Send, SendLogin, SendStatement, EndAtOnce, End
<1>1. CASE BeginStatement(c)
  BY <1>1 DEF BeginStatement
<1>2. CASE login(c)
  BY <1>2 DEF login
<1>3. CASE authenticate(c) \/ health(c)
  BY <1>3 DEF authenticate, health
<1>4. CASE ExchangeBreaks(c) \/ Cancel(c) \/ ErrorArrives(c) \/ NoJsonArrives(c)
  BY <1>4 DEF ExchangeBreaks, Cancel, ErrorArrives, NoJsonArrives
<1>5. CASE LoginArrives(c)
  BY <1>5 DEF LoginArrives
<1>6. CASE HealthArrives(c) \/ ResultArrives(c)
  BY <1>6 DEF HealthArrives, ResultArrives
<1> QED
  BY <1>1, <1>2, <1>3, <1>4, <1>5, <1>6 DEF CallStep

LEMMA CallStepKeepsRows ==
    ASSUME EffectInv, RowsInv, NEW c \in Calls, CallStep(c)
    PROVE  RowsInv'
<1>1. UNCHANGED <<executed, produced>>
  BY OthersRest DEF effects
<1>2. ASSUME NEW d \in Calls \ {c}
      PROVE  RowsHold(d)'
  BY <1>1, OthersRest, RowsUntouched DEF RowsInv
<1>3. RowsHold(c) /\ CallHolds(c)
  BY DEF RowsInv, EffectInv
<1>4. ASSUME executed[c] = 0
      PROVE  RowsHold(c)'
  BY <1>1, <1>3, <1>4 DEF RowsHold
<1>5. ASSUME executed[c] # 0
      PROVE  RowsHold(c)'
  <2>1. pc[c] \in {"sql", "done"}
    BY <1>3, <1>5 DEF CallHolds
  <2>2. \/ ExchangeBreaks(c) \/ Cancel(c) \/ NoJsonArrives(c)
        \/ ErrorArrives(c)
        \/ ResultArrives(c)
    BY <2>1 DEF CallStep, BeginStatement, login, authenticate, health, LoginArrives,
       HealthArrives, Begin, Arrived
  <2>3. PICK o : End(c, o) /\ call' = call
                 /\ \/ o.error # None
                    \/ Arrived(c, "sql") /\ o = Conclude(call[c].method, reply[c].payload)
    <3>1. CASE ExchangeBreaks(c) \/ Cancel(c) \/ NoJsonArrives(c)
      <4>1. PICK e \in {"TimeoutError", "TransportError", "CancelledError", "JSONDecodeError"} :
               End(c, Raised(e, None, None)) /\ call' = call
        BY <3>1 DEF ExchangeBreaks, Cancel, NoJsonArrives
      <4>2. Raised(e, None, None).error = e /\ e # None
        BY NoneAssumption DEF Raised, SdkErrors, ForeignErrors
      <4> QED
        BY <4>1, <4>2
    <3>2. CASE ErrorArrives(c)
      <4> DEFINE e == ApiError(reply[c].status, reply[c].code)
      <4>1. End(c, Raised(e, reply[c].code, reply[c].status)) /\ call' = call
        BY <3>2 DEF ErrorArrives
      <4>2. e \in SdkErrors
        BY DEF ApiError, SdkErrors
      <4> HIDE DEF e
      <4>3. Raised(e, reply[c].code, reply[c].status).error # None
        BY <4>2, NoneAssumption DEF Raised
      <4> QED
        BY <4>1, <4>3
    <3>3. CASE ResultArrives(c)
      BY <3>3 DEF ResultArrives
    <3> QED
      BY <2>2, <3>1, <3>2, <3>3
  <2>4. pc'[c] = "done" /\ outcome'[c] = o
    BY <2>3 DEF End, EffectInv, EffectShape
  <2>5. produced[c] # None /\ outcome'[c].error = None =>
            outcome'[c].value = Conclude(call[c].method, RowsToJson(produced[c])).value
    BY <1>3, <2>3, <2>4 DEF RowsHold
  <2> QED
    BY <1>1, <1>3, <2>3, <2>4, <2>5 DEF RowsHold, Arrived
<1> QED
  BY <1>1, <1>2, <1>4, <1>5 DEF RowsInv

\* The server answers the request r with a.
LEMMA AnswerReaches ==
    ASSUME EffectInv, NEW r \in requests, NEW a, Respond(r, a)
    PROVE  /\ r.by \in Calls
           /\ \A d \in Calls \ {r.by} : reply'[d] = reply[d]
           /\ r.kind # "sql" /\ pc[r.by] = "sql" => reply'[r.by] = reply[r.by]
           /\ r.kind = "sql" => /\ executed[r.by] = 0
                                /\ pc[r.by] \in {"sql", "done"}
                                /\ pc[r.by] = "sql" => reply'[r.by] = a
                                /\ pc[r.by] = "done" => outcome[r.by].error # None
<1> DEFINE c == r.by
<1>1. c \in Calls /\ CallHolds(c)
  BY DEF EffectInv, EffectShape
<1>2. /\ \A d \in Calls \ {c} : reply'[d] = reply[d]
      /\ reply'[c] = IF pc[c] = r.kind /\ reply[c] = None THEN a ELSE reply[c]
  BY <1>1 DEF Respond, EffectInv, EffectShape
<1>3. ASSUME r.kind = "sql"
      PROVE  /\ executed[c] = 0 /\ IsStatement(c) /\ pc[c] \in {"sql", "done"}
             /\ pc[c] = "sql" => reply[c] = None
             /\ pc[c] = "done" => ~Executed(c)
  BY <1>1, <1>3 DEF CallHolds, RequestHolds, EndHolds, OnItsWay
<1> QED
  BY <1>1, <1>2, <1>3 DEF Executed

LEMMA HandleKeepsRows ==
    ASSUME EffectInv, RowsInv, NEW r \in requests, Handle(r)
    PROVE  RowsInv'
<1> DEFINE c == r.by
<1>1. PICK a : Respond(r, a)
  BY DEF Handle, Turn, IssueToken, RefuseLogin, WriteHealth, RefuseToken, RefuseRequest,
     ExecuteCommand, ExecuteQuery, StatementFails
<1>2. UNCHANGED <<pc, call, outcome>>
  BY DEF Handle, Turn, IssueToken, RefuseLogin, WriteHealth, RefuseToken, RefuseRequest,
     ExecuteCommand, ExecuteQuery, StatementFails
<1>3. c \in Calls
  BY <1>1, AnswerReaches
<1>4. CASE \E answer \in Answers :
              /\ r.kind = "sql"
              /\ executed' = [executed EXCEPT ![c] = @ + 1]
              /\ produced' = [produced EXCEPT ![c] = answer]
              /\ Respond(r, SqlAnswer(RowsToJson(answer)))
  <2>1. PICK answer \in Answers :
              /\ r.kind = "sql"
              /\ executed' = [executed EXCEPT ![c] = @ + 1]
              /\ produced' = [produced EXCEPT ![c] = answer]
              /\ Respond(r, SqlAnswer(RowsToJson(answer)))
    BY <1>4
  <2>2. /\ executed'[c] = 1 /\ produced'[c] = answer
        /\ \A d \in Calls \ {c} : executed'[d] = executed[d] /\ produced'[d] = produced[d]
        /\ DOMAIN produced' = Calls
    BY <1>3, <2>1, AnswerReaches DEF EffectInv, EffectShape, RowsInv
  <2>3. SqlAnswer(RowsToJson(answer)).payload = RowsToJson(answer)
    BY DEF SqlAnswer
  <2>4. /\ pc[c] = "sql" => reply'[c] = SqlAnswer(RowsToJson(answer))
        /\ pc[c] = "done" => outcome[c].error # None
        /\ \A d \in Calls \ {c} : reply'[d] = reply[d]
    BY <2>1, AnswerReaches
  <2>5. RowsHold(c)'
    BY <1>2, <2>2, <2>3, <2>4 DEF RowsHold, Arrived
  <2>6. \A d \in Calls \ {c} : RowsHold(d)'
    BY <1>2, <2>2, <2>4, RowsUntouched DEF RowsInv
  <2> QED
    BY <2>2, <2>5, <2>6 DEF RowsInv
<1>5. CASE /\ UNCHANGED produced
           /\ \/ UNCHANGED executed
              \/ r.kind = "sql" /\ executed' = [executed EXCEPT ![c] = @ + 1]
  <2>1. \A d \in Calls \ {c} : executed'[d] = executed[d] /\ reply'[d] = reply[d]
    BY <1>1, <1>5, AnswerReaches DEF EffectInv, EffectShape
  <2>2. \A d \in Calls \ {c} : RowsHold(d)'
    BY <1>2, <1>5, <2>1, RowsUntouched DEF RowsInv
  <2>3. CASE r.kind = "sql"
    <3>1. produced[c] = None
      BY <1>1, <1>3, <2>3, AnswerReaches DEF RowsInv, RowsHold
    <3> QED
      BY <1>5, <2>2, <3>1 DEF RowsInv, RowsHold
  <2>4. CASE r.kind # "sql"
    <3>1. RowsHold(c)'
      BY <1>1, <1>2, <1>3, <1>5, <2>4, AnswerReaches, RowsUntouched DEF RowsInv
    <3> QED
      BY <1>5, <2>2, <3>1 DEF RowsInv
  <2> QED
    BY <2>3, <2>4
<1>6. CASE ExecuteQuery(r)
  BY <1>4, <1>5, <1>6 DEF ExecuteQuery
<1>7. CASE ExecuteCommand(r)
  BY <1>5, <1>7 DEF ExecuteCommand
<1>8. CASE ~ExecuteQuery(r) /\ ~ExecuteCommand(r)
  <2>1. UNCHANGED <<executed, produced>>
    BY <1>8 DEF Handle, Turn, IssueToken, RefuseLogin, WriteHealth, RefuseToken,
       RefuseRequest, StatementFails, effects
  <2> QED
    BY <1>5, <2>1
<1> QED
  BY <1>6, <1>7, <1>8

LEMMA RowsInvStep ==
    ASSUME EffectInv, RowsInv, [Next]_vars
    PROVE  RowsInv'
<1>1. CASE \E c \in Calls : CallStep(c)
  BY <1>1, CallStepKeepsRows
<1>2. CASE \E r \in requests : Handle(r)
  BY <1>2, HandleKeepsRows
<1>3. CASE SetToken \/ aclose \/ Revoke \/ Finished \/ UNCHANGED vars
  <2>1. UNCHANGED <<pc, call, reply, outcome, executed, produced>>
    BY <1>3 DEF SetToken, aclose, Revoke, Finished, vars, effects, progress
  <2> QED
    BY <2>1, RowsUntouched DEF RowsInv
<1> QED
  BY <1>1, <1>2, <1>3 DEF Next

\* What each method makes of a payload with rows.
LEMMA MethodsReturn ==
    ASSUME NEW p, p.kind = "result_set", NEW m
    PROVE  LET o == Conclude(m, p)
           IN  /\ m \in {"execute", "raw_execute", "query"} => o.value = SqlResultSet(p)
               /\ m = "fetch_all" => o.value = as_dicts(parse_result(p))
               /\ m = "fetch_one" => o.value = first(parse_result(p))
               /\ m = "scalar" => o.value = scalar(parse_result(p))
<1>1. \A v : Returned(v).value = v
  BY DEF Returned
<1>2. parse_result(p) = SqlResultSet(p)
  BY DEF parse_result
<1>3. m \in {"execute", "raw_execute"} => Conclude(m, p) = execute(p)
  BY DEF Conclude
<1>4. m = "query" => Conclude(m, p) = execute(p)
  BY DEF Conclude, query
<1>5. m \in {"fetch_all", "fetch_one", "scalar"} =>
         Conclude(m, p) = Returned(Helper(m, parse_result(p)))
  BY DEF Conclude, fetch
<1>6. execute(p).value = SqlResultSet(p)
  BY <1>1, <1>2 DEF execute
<1>7. /\ Helper("fetch_all", parse_result(p)) = as_dicts(parse_result(p))
      /\ Helper("fetch_one", parse_result(p)) = first(parse_result(p))
      /\ Helper("scalar", parse_result(p)) = scalar(parse_result(p))
  BY DEF Helper
<1> QED
  BY <1>1, <1>3, <1>4, <1>5, <1>6, <1>7

\* The rows a program gets are the first rows of what the database said, for any
\* rows and any limit.
THEOREM RowsAreFaithful == Spec => []RowsFaithful
<1>1. Init => RowsInv
  BY DEF Init, RowsInv, RowsHold
<1>2. EffectInv /\ RowsInv /\ [Next]_vars => RowsInv'
  BY RowsInvStep
<1>3. RowsInv => RowsFaithful
  <2> SUFFICES ASSUME RowsInv, NEW c \in Calls, produced[c] # None, pc[c] = "done",
                      outcome[c].error = None
               PROVE  LET a == produced[c]
                          sent == IF Len(a.rows) > MaxRows THEN MaxRows ELSE Len(a.rows)
                          v == outcome[c].value
                          m == call[c].method
                      IN  /\ m \in {"execute", "raw_execute", "query"} =>
                                /\ LengthOf(v) = sent /\ Len(as_tuples(v)) = sent
                                /\ \A i \in 1 .. sent : as_tuples(v)[i] = a.rows[i]
                                /\ v.truncated <=> sent < Len(a.rows)
                          /\ m = "fetch_all" =>
                                /\ Len(v) = sent
                                /\ \A i \in 1 .. sent : Names(v[i], a.columns, a.rows[i])
                          /\ m = "fetch_one" =>
                                IF a.rows = <<>> THEN v = Null ELSE Names(v, a.columns, a.rows[1])
                          /\ m = "scalar" =>
                                v = IF a.rows = <<>> THEN Null ELSE a.rows[1][1]
    BY DEF RowsFaithful, Names
  <2> DEFINE a == produced[c]
             sent == IF Len(a.rows) > MaxRows THEN MaxRows ELSE Len(a.rows)
             v == outcome[c].value
             m == call[c].method
             p == RowsToJson(a)
             result == parse_result(p)
  <2>1. a \in Answers /\ v = Conclude(m, p).value
    BY DEF RowsInv, RowsHold
  <2>2. IsAnswer(a)
    BY <2>1, AnswersAssumption
  <2> HIDE DEF a, v, m
  <2>3. /\ p.kind = "result_set" /\ p.row_count = Len(p.rows)
        /\ Len(p.rows) \in Nat /\ Len(p.rows) <= Len(a.rows)
        /\ \A i \in 1 .. Len(p.rows) : p.rows[i] = a.rows[i]
        /\ p.truncated <=> Len(p.rows) < Len(a.rows)
        /\ Len(p.rows) = sent
        /\ p.rows = <<>> <=> a.rows = <<>>
    BY <2>2, PayloadOfAnswer
  <2>4. /\ Len(as_dicts(result)) = Len(result.rows)
        /\ \A i \in 1 .. Len(result.rows) : Names(as_dicts(result)[i], a.columns, a.rows[i])
        /\ as_dicts(result) = <<>> <=> result.rows = <<>>
    BY <2>2, DictsOfPayload
  <2> HIDE DEF p, sent
  <2>5. result = SqlResultSet(p) /\ result.rows = p.rows
    BY <2>3 DEF parse_result, SqlResultSet
  <2>6. ~(p.rows = <<>>) => 1 \in 1 .. Len(p.rows)
    BY <2>2, <2>3 DEF IsAnswer, IsSequence
  <2> HIDE DEF result
  <2>7. /\ m \in {"execute", "raw_execute", "query"} => v = SqlResultSet(p)
        /\ m = "fetch_all" => v = as_dicts(result)
        /\ m = "fetch_one" => v = first(result)
        /\ m = "scalar" => v = scalar(result)
    BY <2>1, <2>3, MethodsReturn DEF result
  <2>8. ASSUME m \in {"execute", "raw_execute", "query"}
        PROVE  /\ LengthOf(v) = sent /\ Len(as_tuples(v)) = sent
               /\ \A i \in 1 .. sent : as_tuples(v)[i] = a.rows[i]
               /\ v.truncated <=> sent < Len(a.rows)
    <3>1. LengthOf(v) = Len(p.rows) /\ as_tuples(v) = p.rows /\ v.truncated = p.truncated
      BY <2>3, <2>7, <2>8 DEF SqlResultSet, LengthOf, as_tuples
    <3> QED
      BY <2>3, <3>1, Zenon
  <2>9. ASSUME m = "fetch_all"
        PROVE  /\ Len(v) = sent
               /\ \A i \in 1 .. sent : Names(v[i], a.columns, a.rows[i])
    BY <2>3, <2>4, <2>5, <2>7, <2>9
  <2>10. ASSUME m = "fetch_one"
         PROVE  IF a.rows = <<>> THEN v = Null ELSE Names(v, a.columns, a.rows[1])
    BY <2>3, <2>4, <2>5, <2>6, <2>7, <2>10 DEF first
  <2>11. ASSUME m = "scalar"
         PROVE  v = IF a.rows = <<>> THEN Null ELSE a.rows[1][1]
    <3>1. CASE a.rows = <<>>
      BY <2>3, <2>5, <2>7, <2>11, <3>1 DEF scalar
    <3>2. CASE a.rows # <<>>
      <4>1. p.rows[1] = a.rows[1] /\ 1 \in DOMAIN a.rows
        BY <2>2, <2>3, <2>6, <3>2 DEF IsAnswer, IsSequence
      <4>2. Len(a.rows[1]) = Len(a.columns) /\ Len(a.columns) # 0
        BY <2>2, <4>1, EmptySeq DEF IsAnswer, IsSequence
      <4>3. p.rows[1] # <<>>
        BY <4>1, <4>2
      <4> QED
        BY <2>3, <2>5, <2>7, <2>11, <3>2, <4>1, <4>3 DEF scalar
    <3> QED
      BY <3>1, <3>2
  <2> QED
    BY <2>8, <2>9, <2>10, <2>11 DEF a, v, m, sent
<1> QED
  BY <1>1, <1>2, <1>3, EffectInvariant, PTL DEF Spec

-----------------------------------------------------------------------------
(* The types.                                                               *)

IsOutcome(o) == o # None /\ o.error \in SdkErrors \union ForeignErrors \union {None}

\* A call has an outcome when it has ended, and an answer only while it waits.
CallTyped(c) ==
    /\ outcome[c] # None <=> pc[c] = "done"
    /\ outcome[c] # None => IsOutcome(outcome[c])
    /\ reply[c] # None =>
          /\ Awaiting(c)
          /\ reply[c].code \in ErrorCodes \union {None}
          /\ Arrived(c, "sql") => reply[c].payload \in Payloads

Request == [by : Calls, kind : {"login", "sql", "health"}, token : Tokens, good : BOOLEAN]

ClientTyped ==
    /\ auto \in BOOLEAN /\ closed \in BOOLEAN /\ issuing \in BOOLEAN
    /\ username \in Credentials /\ password \in Credentials
    /\ token \in Tokens /\ header \in Tokens

TypeInv ==
    /\ ClientTyped
    /\ requests \subseteq Request
    /\ valid \subseteq 1 .. minted
    /\ \A c \in Calls : CallTyped(c)

\* What a call ends with is told from None.
LEMMA OutcomesAre ==
    /\ \A e \in SdkErrors \union ForeignErrors, code \in ErrorCodes \union {None},
          status \in Nat \union {None} : IsOutcome(Raised(e, code, status))
    /\ \A v \in Nat \union {Null} : IsOutcome(Returned(v))
    /\ \A method \in SqlMethods, payload \in Payloads : IsOutcome(Conclude(method, payload))
<1>1. ASSUME NEW e \in SdkErrors \union ForeignErrors, NEW code \in ErrorCodes \union {None},
             NEW status \in Nat \union {None}
      PROVE  IsOutcome(Raised(e, code, status))
  <2>1. Raised(e, code, status) \in
           [error : SdkErrors \union ForeignErrors, code : ErrorCodes \union {None},
            status_code : Nat \union {None}, value : {Null}]
    BY DEF Raised
  <2>2. Raised(e, code, status).error = e
    BY DEF Raised
  <2> QED
    BY <2>1, <2>2, OutcomeAssumption DEF IsOutcome
<1>2. ASSUME NEW v \in Nat \union {Null}
      PROVE  IsOutcome(Returned(v))
  <2>1. Returned(v) \in [error : {None}, code : {None}, status_code : {None},
                         value : Nat \union {Null}]
    BY DEF Returned
  <2>2. Returned(v).error = None
    BY DEF Returned
  <2> QED
    BY <2>1, <2>2, OutcomeAssumption DEF IsOutcome
<1>3. ASSUME NEW method \in SqlMethods, NEW payload \in Payloads
      PROVE  IsOutcome(Conclude(method, payload))
  <2>1. Conclude(method, payload).error \in {None, "QueryError"}
    BY ConclusionsTell
  <2>2. "QueryError" \in SdkErrors
    BY DEF SdkErrors
  <2> QED
    BY <2>1, <2>2, OutcomeAssumption DEF IsOutcome
<1> QED
  BY <1>1, <1>2, <1>3

\* c waits for something now, or it has ended with an outcome.
Stepped(c) ==
    /\ reply'[c] = None
    /\ \/ pc'[c] \in {"login", "sql", "health"} /\ outcome'[c] = outcome[c]
       \/ pc'[c] = "done" /\ IsOutcome(outcome'[c])
    /\ requests' \subseteq Request

LEMMA EndSteps ==
    ASSUME EffectInv, TypeInv, NEW c \in Calls, NEW o, IsOutcome(o), End(c, o), requests' = requests
    PROVE  Stepped(c)
BY DEF EffectInv, EffectShape, TypeInv, End, Stepped

LEMMA SendSteps ==
    ASSUME EffectInv, TypeInv, NEW c \in Calls, NEW kind \in {"login", "sql", "health"},
           NEW h \in Tokens, NEW good \in BOOLEAN, Send(c, kind, h, good)
    PROVE  Stepped(c)
<1>1. CASE EndAtOnce(c, Raised("RuntimeError", None, None))
  <2>1. IsOutcome(Raised("RuntimeError", None, None))
    BY OutcomesAre DEF ForeignErrors
  <2> QED
    BY <1>1, <2>1, EndSteps DEF EndAtOnce
<1>2. CASE ~EndAtOnce(c, Raised("RuntimeError", None, None))
  <2>1. /\ requests' = requests \union {[by |-> c, kind |-> kind, token |-> h, good |-> good]}
        /\ pc' = [pc EXCEPT ![c] = kind] /\ reply' = [reply EXCEPT ![c] = None]
        /\ outcome' = outcome
    BY <1>2 DEF Send
  <2>2. [by |-> c, kind |-> kind, token |-> h, good |-> good] \in Request
    BY DEF Request
  <2> QED
    BY <2>1, <2>2 DEF EffectInv, EffectShape, TypeInv, Stepped
<1> QED
  BY <1>1, <1>2

LEMMA SendStatementSteps ==
    ASSUME EffectInv, TypeInv, NEW c \in Calls, NEW i, NEW h \in Tokens, SendStatement(c, i, h)
    PROVE  Stepped(c)
<1>1. CASE i.fault = "unencodable"
  <2>1. IsOutcome(Raised("TypeError", None, None))
    BY OutcomesAre DEF ForeignErrors
  <2> QED
    BY <1>1, <2>1, EndSteps DEF SendStatement, EndAtOnce
<1>2. CASE i.fault # "unencodable"
  BY <1>2, SendSteps DEF SendStatement
<1> QED
  BY <1>1, <1>2

LEMMA SendLoginSteps ==
    ASSUME EffectInv, TypeInv, NEW c \in Calls, NEW u, NEW p, SendLogin(c, u, p)
    PROVE  Stepped(c)
<1>1. header \in Tokens /\ (u = "right" /\ p = "right") \in BOOLEAN
  BY DEF TypeInv, ClientTyped
<1> QED
  BY <1>1, SendSteps DEF SendLogin

LEMMA SteppedKeepsTypeInv ==
    ASSUME EffectInv, TypeInv, NEW c \in Calls, CallStep(c), pc[c] # "done", Stepped(c),
           ClientTyped', UNCHANGED server
    PROVE  TypeInv'
<1>1. \A d \in Calls \ {c} : CallTyped(d)'
  <2> SUFFICES ASSUME NEW d \in Calls \ {c} PROVE CallTyped(d)'
    OBVIOUS
  <2>1. pc'[d] = pc[d] /\ reply'[d] = reply[d] /\ outcome'[d] = outcome[d]
    BY OthersRest
  <2>2. CallTyped(d)
    BY DEF TypeInv
  <2> QED
    BY <2>1, <2>2 DEF CallTyped, Awaiting, Arrived
<1>2. CallTyped(c)'
  <2>1. outcome[c] = None
    BY DEF TypeInv, CallTyped
  <2>2. CASE pc'[c] \in {"login", "sql", "health"} /\ outcome'[c] = outcome[c]
    BY <2>1, <2>2 DEF Stepped, CallTyped
  <2>3. CASE pc'[c] = "done" /\ IsOutcome(outcome'[c])
    <3>1. outcome'[c] # None
      BY <2>3 DEF IsOutcome
    <3> QED
      BY <2>3, <3>1 DEF Stepped, CallTyped, IsOutcome
  <2> QED
    BY <2>2, <2>3 DEF Stepped
<1>3. valid' \subseteq 1 .. minted'
  BY DEF TypeInv, server
<1> QED
  BY <1>1, <1>2, <1>3 DEF TypeInv, Stepped

LEMMA CallStepKeepsTypeInv ==
    ASSUME TokenInv, EffectInv, TypeInv, NEW c \in Calls, CallStep(c)
    PROVE  TypeInv'
<1>1. CASE BeginStatement(c)
  <2>1. PICK i \in Menu[c] : IF NeedsLogin THEN SendLogin(c, username, password)
                                           ELSE SendStatement(c, i, header)
    BY <1>1 DEF BeginStatement
  <2>2. Stepped(c)
    BY <2>1, SendLoginSteps, SendStatementSteps DEF TypeInv, ClientTyped
  <2>3. pc[c] # "done" /\ UNCHANGED client /\ UNCHANGED server
    BY <1>1 DEF BeginStatement, Begin
  <2>4. ClientTyped'
    BY <2>3 DEF TypeInv, ClientTyped, client, settings, server
  <2> QED
    BY <2>2, <2>3, <2>4, SteppedKeepsTypeInv
<1>2. CASE login(c)
  <2>1. PICK i \in Menu[c] :
          /\ i.method = "login" /\ Begin(c, i)
          /\ username' = Default(i.username, username)
          /\ password' = Default(i.password, password)
          /\ \/ SendLogin(c, username', password')
             \/ EndAtOnce(c, Raised("AuthenticationError", None, None))
    BY <1>2 DEF login
  <2>2. IsOutcome(Raised("AuthenticationError", None, None))
    BY OutcomesAre DEF SdkErrors
  <2>3. Stepped(c)
    BY <2>1, <2>2, SendLoginSteps, EndSteps DEF EndAtOnce
  <2>4. i.username \in Credentials /\ i.password \in Credentials
    <3>1. i \in Invocation
      BY ClientAssumption
    <3> QED
      BY <2>1, <3>1 DEF Invocation, SqlMethods, ResultSetMethods
  <2>5. /\ pc[c] # "done" /\ UNCHANGED <<auto, token, header, closed>> /\ UNCHANGED server
    BY <1>2, <2>1 DEF login, Begin
  <2>6. ClientTyped'
    BY <2>1, <2>4, <2>5 DEF TypeInv, ClientTyped, Default, server
  <2> QED
    BY <2>3, <2>5, <2>6, SteppedKeepsTypeInv
<1>3. CASE authenticate(c) \/ health(c)
  <2>1. Stepped(c)
    <3>1. CASE authenticate(c)
      BY <3>1, SendLoginSteps DEF authenticate
    <3>2. CASE health(c)
      BY <3>2, SendSteps DEF health, TypeInv, ClientTyped
    <3> QED
      BY <1>3, <3>1, <3>2
  <2>2. pc[c] # "done" /\ UNCHANGED client /\ UNCHANGED server
    BY <1>3 DEF authenticate, health, Begin
  <2>3. ClientTyped'
    BY <2>2 DEF TypeInv, ClientTyped, client, settings, server
  <2> QED
    BY <2>1, <2>2, <2>3, SteppedKeepsTypeInv
<1>4. CASE \/ ExchangeBreaks(c) \/ Cancel(c) \/ ErrorArrives(c) \/ NoJsonArrives(c)
           \/ HealthArrives(c) \/ ResultArrives(c)
  <2>1. PICK o : IsOutcome(o) /\ End(c, o)
    <3>1. CASE ExchangeBreaks(c) \/ Cancel(c) \/ NoJsonArrives(c)
      <4>1. PICK e \in {"TimeoutError", "TransportError", "CancelledError", "JSONDecodeError"} :
               End(c, Raised(e, None, None))
        BY <3>1 DEF ExchangeBreaks, Cancel, NoJsonArrives
      <4>2. e \in SdkErrors \union ForeignErrors
        BY DEF SdkErrors, ForeignErrors
      <4> QED
        BY <4>1, <4>2, OutcomesAre
    <3>2. CASE ErrorArrives(c)
      <4> DEFINE e == ApiError(reply[c].status, reply[c].code)
      <4>1. End(c, Raised(e, reply[c].code, reply[c].status)) /\ reply[c] # None
        BY <3>2 DEF ErrorArrives
      <4>2. e \in SdkErrors
        BY DEF ApiError, SdkErrors
      <4>3. reply[c].status \in Nat /\ reply[c].code \in ErrorCodes \union {None}
        BY <4>1 DEF EffectInv, CallHolds, TypeInv, CallTyped
      <4> HIDE DEF e
      <4> QED
        BY <4>1, <4>2, <4>3, OutcomesAre
    <3>3. CASE HealthArrives(c)
      BY <3>3, OutcomesAre DEF HealthArrives
    <3>4. CASE ResultArrives(c)
      <4>1. Arrived(c, "sql") /\ End(c, Conclude(call[c].method, reply[c].payload))
        BY <3>4 DEF ResultArrives
      <4>2. reply[c].payload \in Payloads
        BY <4>1 DEF TypeInv, CallTyped, Arrived
      <4>3. call[c].method \in SqlMethods
        BY <4>1 DEF EffectInv, CallHolds, IsStatement, Arrived
      <4> QED
        BY <4>1, <4>2, <4>3, OutcomesAre
    <3> QED
      BY <1>4, <3>1, <3>2, <3>3, <3>4
  <2>2. /\ pc[c] # "done" /\ UNCHANGED client /\ UNCHANGED server /\ requests' = requests
    BY <1>4 DEF ExchangeBreaks, Cancel, ErrorArrives, NoJsonArrives, HealthArrives,
       ResultArrives, Awaiting, Arrived
  <2>3. Stepped(c)
    BY <2>1, <2>2, EndSteps
  <2>4. ClientTyped'
    BY <2>2 DEF TypeInv, ClientTyped, client, settings, server
  <2> QED
    BY <2>2, <2>3, <2>4, SteppedKeepsTypeInv
<1>5. CASE LoginArrives(c)
  <2> DEFINE t == reply[c].token
  <2>1. t \in Nat /\ token' = t /\ header' = t /\ pc[c] = "login"
    BY <1>5 DEF LoginArrives, set_token, Arrived, TokenInv
  <2>2. t \in Tokens
    BY <2>1 DEF Tokens
  <2> HIDE DEF t
  <2>3. \/ SendStatement(c, call[c], header')
        \/ EndAtOnce(c, Returned(t))
    BY <1>5 DEF LoginArrives, t
  <2>4. Stepped(c)
    BY <2>1, <2>2, <2>3, SendStatementSteps, EndSteps, OutcomesAre DEF EndAtOnce
  <2>5. UNCHANGED <<auto, username, password, closed>> /\ UNCHANGED server
    BY <1>5 DEF LoginArrives, settings
  <2>6. ClientTyped'
    BY <2>1, <2>2, <2>5 DEF TypeInv, ClientTyped, server
  <2> QED
    BY <2>1, <2>4, <2>5, <2>6, SteppedKeepsTypeInv
<1> QED
  BY <1>1, <1>2, <1>3, <1>4, <1>5 DEF CallStep

\* An answer has the code of an error, or none, and to a statement a payload if it
\* is no error.
AnswerTyped(r, a) ==
    /\ Respond(r, a)
    /\ a.code \in ErrorCodes \union {None}
    /\ r.kind = "sql" /\ a.status < 400 /\ a.json => a.payload \in Payloads

LEMMA HandleAnswersTyped ==
    ASSUME NEW r \in requests, Handle(r)
    PROVE  \E a : AnswerTyped(r, a)
<1>1. CASE Turn(r)
  BY <1>1 DEF Turn, Answer, NoJson, AnswerTyped, ErrorCodes
<1>2. CASE IssueToken(r)
  BY <1>2 DEF IssueToken, TokenAnswer, AnswerTyped
<1>3. CASE RefuseLogin(r) \/ WriteHealth(r)
  BY <1>3 DEF RefuseLogin, WriteHealth, Answer, AnswerTyped, ErrorCodes
<1>4. CASE RefuseToken(r) \/ RefuseRequest(r) \/ StatementFails(r)
  BY <1>4 DEF RefuseToken, RefuseRequest, StatementFails, Answer, AnswerTyped, ErrorCodes
<1>5. \A a \in LateErrors \union {Answer(422, "sql_error")} :
         a.code \in ErrorCodes \union {None} /\ ~(a.status < 400 /\ a.json)
  BY DEF LateErrors, Answer, NoJson, ErrorCodes
<1>6. \A p \in Payloads : SqlAnswer(p).code = None /\ SqlAnswer(p).payload = p
  BY DEF SqlAnswer
<1>7. CASE ExecuteCommand(r) \/ ExecuteQuery(r)
  <2>1. PICK a : /\ Respond(r, a)
                 /\ \/ \E p \in Payloads : a = SqlAnswer(p)
                    \/ a \in LateErrors \union {Answer(422, "sql_error")}
    BY <1>7 DEF ExecuteCommand, ExecuteQuery, Payloads
  <2> QED
    BY <1>5, <1>6, <2>1 DEF AnswerTyped
<1> QED
  BY <1>1, <1>2, <1>3, <1>4, <1>7 DEF Handle

LEMMA HandleKeepsTypeInv ==
    ASSUME TokenInv, EffectInv, TypeInv, NEW r \in requests, Handle(r)
    PROVE  TypeInv'
<1>1. PICK a : AnswerTyped(r, a)
  BY HandleAnswersTyped
<1>2. UNCHANGED client /\ UNCHANGED <<pc, outcome>> /\ issuing' = issuing
  BY DEF Handle, Turn, IssueToken, RefuseLogin, WriteHealth, RefuseToken, RefuseRequest,
     ExecuteCommand, ExecuteQuery, StatementFails, server
<1>3. ClientTyped'
  BY <1>2 DEF TypeInv, ClientTyped, client, settings
<1>4. requests' \subseteq Request /\ r \in Request
  BY <1>1 DEF TypeInv, AnswerTyped, Respond
<1>5. valid' \subseteq 1 .. minted'
  <2>1. CASE IssueToken(r)
    BY <2>1 DEF IssueToken, TypeInv, TokenInv
  <2>2. CASE ~IssueToken(r)
    <3>1. UNCHANGED server
      BY <2>2 DEF Handle, Turn, RefuseLogin, WriteHealth, RefuseToken, RefuseRequest,
         ExecuteCommand, ExecuteQuery, StatementFails
    <3> QED
      BY <3>1 DEF server, TypeInv
  <2> QED
    BY <2>1, <2>2
<1>6. ASSUME NEW d \in Calls PROVE CallTyped(d)'
  <2>1. CallTyped(d) /\ r.kind \in {"login", "sql", "health"}
    BY <1>4 DEF TypeInv, Request
  <2>2. \/ reply'[d] = reply[d]
        \/ pc[d] = r.kind /\ reply'[d] = a
    BY <1>1 DEF AnswerTyped, Respond, EffectInv, EffectShape
  <2>3. CASE reply'[d] = reply[d]
    BY <1>2, <2>1, <2>3 DEF CallTyped, Awaiting, Arrived
  <2>4. CASE pc[d] = r.kind /\ reply'[d] = a
    BY <1>1, <1>2, <2>1, <2>4 DEF CallTyped, Awaiting, Arrived, AnswerTyped
  <2> QED
    BY <2>2, <2>3, <2>4
<1> QED
  BY <1>3, <1>4, <1>5, <1>6 DEF TypeInv

LEMMA TypeInvInit == Init => TypeInv
<1> SUFFICES ASSUME Init PROVE TypeInv
  OBVIOUS
<1>1. PICK o \in Openings :
          /\ auto = o.auto /\ issuing = o.issuing
          /\ username = o.username /\ password = o.password
          /\ token = o.token
          /\ header = IF o.token = None THEN o.given ELSE o.token
  BY DEF Init
<1>2. o \in Opening
  BY ClientAssumption
<1>3. ClientTyped
  BY <1>1, <1>2 DEF Opening, ClientTyped, Tokens, Init
<1>4. \A c \in Calls : CallTyped(c)
  BY DEF Init, CallTyped
<1> QED
  BY <1>3, <1>4 DEF TypeInv, Init

LEMMA TypeInvStep ==
    ASSUME TokenInv, EffectInv, TypeInv, [Next]_vars
    PROVE  TypeInv'
<1>1. CASE \E c \in Calls : CallStep(c)
  BY <1>1, CallStepKeepsTypeInv
<1>2. CASE \E r \in requests : Handle(r)
  BY <1>2, HandleKeepsTypeInv
<1>3. CASE SetToken \/ aclose \/ Revoke \/ Finished \/ UNCHANGED vars
  <2>1. UNCHANGED <<auto, username, password, issuing, pc, reply, outcome, requests, minted>>
    BY <1>3 DEF SetToken, aclose, Revoke, Finished, vars, progress, client, settings, server
  <2>2. \A d \in Calls : CallTyped(d)'
    BY <2>1 DEF TypeInv, CallTyped, Awaiting, Arrived
  <2>3. valid' \subseteq valid
    BY <1>3 DEF SetToken, aclose, Revoke, Finished, vars, server
  <2>4. token' \in Tokens /\ header' \in Tokens
    BY <1>3 DEF SetToken, set_token, aclose, Revoke, Finished, vars, client, settings, TypeInv,
       ClientTyped, Tokens
  <2>5. closed' \in BOOLEAN
    BY <1>3 DEF SetToken, aclose, Revoke, Finished, vars, client, TypeInv, ClientTyped
  <2> QED
    BY <2>1, <2>2, <2>3, <2>4, <2>5 DEF TypeInv, ClientTyped
<1> QED
  BY <1>1, <1>2, <1>3 DEF Next

\* The types, that a call has an outcome exactly when it has ended, and that an
\* answer awaits only a call that waits.
THEOREM TypeCorrect == Spec => []TypeOK
<1>1. TokenInv /\ EffectInv /\ TypeInv /\ [Next]_vars => TypeInv'
  BY TypeInvStep
<1>2. Spec => []TypeInv
  BY <1>1, TypeInvInit, TokenInvariant, EffectInvariant, PTL DEF Spec
<1>3. TokenInv /\ EffectInv /\ TypeInv => TypeOK
  BY DEF TokenInv, TokensAhead, EffectInv, EffectShape, TypeInv, ClientTyped, CallTyped, CallHolds,
     IsOutcome, Request, TypeOK
<1> QED
  BY <1>2, <1>3, TokenInvariant, EffectInvariant, PTL

=============================================================================
