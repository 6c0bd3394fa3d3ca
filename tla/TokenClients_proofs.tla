------------------------- MODULE TokenClients_proofs -------------------------
(***************************************************************************)
(* Proofs about TokenClients, for any number of shells, tasks, tokens and  *)
(* statements: the types, that no statement is executed twice, that the    *)
(* tasks of one client log in a bounded number of times, and for which     *)
(* reasons a shell can be refused.                                         *)
(***************************************************************************)
EXTENDS TokenClients, TokenStore_proofs

\* What the clients need to know of the token store.
StoreTypes == now \in Nat /\ minted \in Nat /\ restarts \in Nat

Types == StoreTypes /\ ClientsTypeOK

IsSqlOf(r, c, n) == r.kind = "sql" /\ r.by = c /\ r.call = n

\* No request and no execution belongs to a statement still to come.
NothingAhead ==
    /\ \A r \in requests : r.call <= call[r.by]
    /\ \A e \in executed : e[2] <= call[e[1]]

\* There is never more than one /sql request for a statement on its way.
OneRequest ==
    \A r, s \in requests :
        r.kind = "sql" /\ IsSqlOf(s, r.by, r.call) => r = s

\* A statement on its way to the server was not executed before.
NotExecutedYet ==
    \A r \in requests : r.kind = "sql" => <<r.by, r.call>> \notin executed

\* A caller about to send its statement, for the first or the second time.
MaySend(c) ==
    \/ pc[c] \in {"start", "login"}
    \/ pc[c] = "sql" /\ reply[c] # None /\ reply[c].status = 401

\* Its statement was neither executed nor is it on its way.
SafeToSend ==
    \A c \in Callers : MaySend(c) =>
        /\ <<c, call[c]>> \notin executed
        /\ \A r \in requests : ~IsSqlOf(r, c, call[c])

OnceInv ==
    /\ NothingAhead
    /\ OneRequest
    /\ NotExecutedYet
    /\ SafeToSend
    /\ ExecutedOnce

USE TokenAssumption, ClientsAssumption

-----------------------------------------------------------------------------
(* Types.                                                                   *)

\* What the store does to the clock and to its counters.
LEMMA IssueTokenTypes ==
  ASSUME StoreTypes, IssueToken
  PROVE  StoreTypes' /\ minted' \in Nat
BY DEF StoreTypes, IssueToken, LaterReadings, ReadClock

LEMMA ValidateBearerTypes ==
  ASSUME StoreTypes, NEW t, ValidateBearer(t)
  PROVE  StoreTypes' /\ last'.at \in Nat
BY DEF StoreTypes, ValidateBearer, LaterReadings, ReadClock

LEMMA EnvironmentTypes ==
  ASSUME StoreTypes, Tick \/ Restart \/ IssueToken
  PROVE  StoreTypes'
BY IssueTokenTypes DEF StoreTypes, Tick, Restart

\* The status of a reply gives an exit code.
LEMMA ExitCodeType ==
  ASSUME NEW status \in {0, 200, 401, 422, 503, 504}
  PROVE  ExitCode(status) \in {None, 0, 3, 4, 5, Unhandled}
BY DEF ExitCode

LEMMA TypesInit == ClientsInit => Types
BY DEF ClientsInit, Init, Types, StoreTypes, ClientsTypeOK, Callers

LEMMA TypesServer ==
  ASSUME Types, ServerStep
  PROVE  Types'
<1> PICK r \in requests : HandleLogin(r) \/ HandleLoginFails(r) \/ HandleSql(r)
  BY DEF ServerStep
<1>r. r \in Request
  BY DEF Types, ClientsTypeOK
<1> USE DEF Types, ClientsTypeOK, Request, Replies
<1>1. CASE HandleLogin(r)
  <2>1. StoreTypes' /\ minted' \in Nat
    BY <1>1, IssueTokenTypes DEF HandleLogin
  <2>2. QED
    BY <1>1, <2>1, <1>r DEF HandleLogin, Respond, shellVars, taskVars, outcome
<1>2. CASE HandleLoginFails(r)
  BY <1>2, <1>r DEF HandleLoginFails, Respond, StoreTypes, vars, shellVars, taskVars, outcome
<1>3. CASE HandleSql(r)
  <2>1. StoreTypes' /\ last'.at \in Nat
    BY <1>3, ValidateBearerTypes DEF HandleSql
  <2>2. QED
    BY <1>3, <2>1, <1>r DEF HandleSql, Respond, shellVars, taskVars
<1>4. QED
  BY <1>1, <1>2, <1>3

LEMMA TypesShell ==
  ASSUME Types, NEW c \in Shells, ShellStep(c)
  PROVE  Types'
<1> c \in Callers
  BY DEF Callers
<1> USE DEF Types, StoreTypes, ClientsTypeOK, Request, Replies, vars, outcome, taskVars,
            Send, Finish, Got, AskForToken, SendSql
<1>1. CASE Connect(c)       BY <1>1 DEF Connect
<1>2. CASE Execute(c)       BY <1>2 DEF Execute
<1>3. CASE TokenArrives(c)  BY <1>3 DEF TokenArrives
<1>4. CASE LoginFails(c)    BY <1>4 DEF LoginFails
<1>5. CASE Refresh(c)       BY <1>5 DEF Refresh
<1>6. CASE PrintResponse(c)
  <2>1. ExitCode(reply[c].status) \in {None, 0, 3, 4, 5, Unhandled}
    BY <1>6, ExitCodeType DEF PrintResponse
  <2>2. QED
    BY <1>6, <2>1 DEF PrintResponse
<1>7. CASE SocketError(c)   BY <1>7 DEF SocketError
<1>8. QED
  BY <1>1, <1>2, <1>3, <1>4, <1>5, <1>6, <1>7 DEF ShellStep

LEMMA TypesTask ==
  ASSUME Types, NEW c \in Tasks, TaskStep(c)
  PROVE  Types'
<1> c \in Callers /\ c \notin Shells
  BY DEF Callers
<1> USE DEF Types, StoreTypes, ClientsTypeOK, Request, Replies, vars, outcome, shellVars,
            taskVars, Send, Finish, Got
<1>1. CASE StartTask(c)
  <2>1. CASE NeedsLogin
    BY <1>1, <2>1 DEF StartTask
  <2>2. CASE ~NeedsLogin
    <3>1. sharedToken \in Nat
      BY <2>2 DEF NeedsLogin
    <3>2. QED
      BY <1>1, <2>2, <3>1 DEF StartTask
  <2>3. QED
    BY <2>1, <2>2
<1>2. CASE TaskTokenArrives(c)  BY <1>2 DEF TaskTokenArrives
<1>3. CASE TaskLoginFails(c)    BY <1>3 DEF TaskLoginFails
<1>4. CASE TaskEnds(c)          BY <1>4 DEF TaskEnds
<1>5. QED
  BY <1>1, <1>2, <1>3, <1>4 DEF TaskStep

LEMMA TypesStep == Types /\ [ClientsNext]_allVars => Types'
<1> SUFFICES ASSUME Types, [ClientsNext]_allVars
             PROVE  Types'
  OBVIOUS
<1>1. ASSUME NEW c \in fleet, Break(c)
      PROVE  Types'
  BY <1>1 DEF Break, Lost, Types, StoreTypes, ClientsTypeOK, Replies, vars, outcome,
         shellVars, taskVars
<1>2. CASE Environment
  BY <1>2, EnvironmentTypes DEF Environment, Types, ClientsTypeOK, clientVars, outcome,
         shellVars, taskVars
<1>3. CASE UNCHANGED allVars
  BY <1>3 DEF Types, StoreTypes, ClientsTypeOK, allVars, vars, clientVars, outcome,
         shellVars, taskVars
<1>4. QED
  BY <1>1, <1>2, <1>3, TypesServer, TypesShell, TypesTask DEF ClientsNext, AllEnded

\* The types hold for any number of clients.
THEOREM ClientsTypesAlways == ClientsSpec => []ClientsTypeOK
<1>1. Types => ClientsTypeOK
  BY DEF Types
<1>2. QED
  BY TypesInit, TypesStep, <1>1, PTL DEF ClientsSpec

-----------------------------------------------------------------------------
(* No statement is executed twice.                                          *)

LEMMA OnceInit == ClientsInit => OnceInv
BY DEF ClientsInit, OnceInv, NothingAhead, OneRequest, NotExecutedYet, SafeToSend,
       MaySend, IsSqlOf, ExecutedOnce, Callers

\* A caller that may send its statement keeps the invariant when it does.
LEMMA OnceSend ==
  ASSUME Types, OnceInv, NEW c \in Callers, NEW n \in Nat, NEW t \in Nat,
         n >= call[c],
         <<c, n>> \notin executed,
         \A r \in requests : ~IsSqlOf(r, c, n),
         Send(c, n, "sql", t),
         call' = [call EXCEPT ![c] = n],
         UNCHANGED outcome
  PROVE  OnceInv'
<1> DEFINE new == [by |-> c, call |-> n, kind |-> "sql", token |-> t]
<1> USE DEF Types, ClientsTypeOK, Request, outcome
<1>1. requests' = requests \union {new}
  BY DEF Send
<1>2. NothingAhead'
  BY <1>1 DEF OnceInv, NothingAhead
<1>3. OneRequest'
  BY <1>1 DEF OnceInv, OneRequest, IsSqlOf
<1>4. NotExecutedYet'
  BY <1>1 DEF OnceInv, NotExecutedYet
<1>5. SafeToSend'
  BY <1>1 DEF OnceInv, SafeToSend, MaySend, IsSqlOf, Send
<1>6. QED
  BY <1>2, <1>3, <1>4, <1>5 DEF OnceInv, ExecutedOnce

\* The same for a caller that asks for a token before that.
LEMMA OnceAsk ==
  ASSUME Types, OnceInv, NEW c \in Callers, NEW n \in Nat,
         n >= call[c],
         <<c, n>> \notin executed,
         \A r \in requests : ~IsSqlOf(r, c, n),
         Send(c, n, "login", 0),
         call' = [call EXCEPT ![c] = n],
         UNCHANGED outcome
  PROVE  OnceInv'
<1> DEFINE new == [by |-> c, call |-> n, kind |-> "login", token |-> 0]
<1> USE DEF Types, ClientsTypeOK, Request, outcome
<1>1. requests' = requests \union {new}
  BY DEF Send
<1>2. NothingAhead'
  BY <1>1 DEF OnceInv, NothingAhead
<1>3. OneRequest'
  BY <1>1 DEF OnceInv, OneRequest, IsSqlOf
<1>4. NotExecutedYet'
  BY <1>1 DEF OnceInv, NotExecutedYet
<1>5. SafeToSend'
  BY <1>1 DEF OnceInv, SafeToSend, MaySend, IsSqlOf, Send
<1>6. QED
  BY <1>2, <1>3, <1>4, <1>5 DEF OnceInv, ExecutedOnce

\* A step after which fewer callers may send, and nothing is sent or executed.
LEMMA OnceRest ==
  ASSUME Types, OnceInv,
         \A c \in Callers : MaySend(c)' => MaySend(c),
         UNCHANGED <<call, requests, outcome>>
  PROVE  OnceInv'
BY DEF OnceInv, NothingAhead, OneRequest, NotExecutedYet, SafeToSend, ExecutedOnce,
       IsSqlOf, outcome

\* A statement that has not begun is neither executed nor on its way.
LEMMA NextIsNew ==
  ASSUME Types, OnceInv, NEW c \in Callers
  PROVE  /\ <<c, call[c] + 1>> \notin executed
         /\ \A r \in requests : ~IsSqlOf(r, c, call[c] + 1)
BY DEF Types, ClientsTypeOK, OnceInv, NothingAhead, IsSqlOf, Request

\* A caller that may send neither has its statement executed nor on its way.
LEMMA StillSafe ==
  ASSUME Types, OnceInv, NEW c \in Callers, MaySend(c), UNCHANGED call
  PROVE  /\ <<c, call[c]>> \notin executed
         /\ \A r \in requests : ~IsSqlOf(r, c, call[c])
         /\ call' = [call EXCEPT ![c] = call[c]]
         /\ call[c] >= call[c]
BY DEF Types, ClientsTypeOK, OnceInv, SafeToSend

LEMMA OnceShell ==
  ASSUME Types, OnceInv, NEW c \in Shells, ShellStep(c)
  PROVE  OnceInv'
<1> c \in Callers /\ call[c] \in Nat /\ call \in [Callers -> Nat]
  BY DEF Callers, Types, ClientsTypeOK
<1> USE DEF Got
<1>1. CASE Connect(c)
  <2>1. MaySend(c)
    BY <1>1 DEF Connect, MaySend
  <2>2. Send(c, call[c], "login", 0) /\ UNCHANGED <<call, outcome>>
    BY <1>1 DEF Connect, AskForToken
  <2>3. QED
    BY <2>1, <2>2, StillSafe, OnceAsk
<1>2. CASE Execute(c)
  <2>1. /\ <<c, call[c] + 1>> \notin executed
        /\ \A r \in requests : ~IsSqlOf(r, c, call[c] + 1)
    BY NextIsNew
  <2>c. /\ call' = [call EXCEPT ![c] = call[c] + 1]
        /\ call[c] + 1 \in Nat /\ call[c] + 1 >= call[c]
    BY <1>2 DEF Execute
  <2>2. CASE SendSql(c, call[c] + 1, token[c])
    <3>1. token[c] \in Nat
      BY DEF Types, ClientsTypeOK
    <3>2. Send(c, call[c] + 1, "sql", token[c]) /\ UNCHANGED outcome
      BY <1>2, <2>2 DEF Execute, SendSql
    <3>3. QED
      BY <2>1, <2>c, <3>1, <3>2, OnceSend
  <2>3. CASE AskForToken(c, call[c] + 1)
    <3>1. Send(c, call[c] + 1, "login", 0) /\ UNCHANGED outcome
      BY <1>2, <2>3 DEF Execute, AskForToken
    <3>2. QED
      BY <2>1, <2>c, <3>1, OnceAsk
  <2>4. QED
    BY <1>2, <2>2, <2>3 DEF Execute
<1>3. CASE TokenArrives(c)
  <2>1. CASE call[c] = 0
    BY <1>3, <2>1, OnceRest DEF TokenArrives, Finish, MaySend, Types, ClientsTypeOK
  <2>2. CASE call[c] # 0
    <3>1. MaySend(c)
      BY <1>3 DEF TokenArrives, MaySend
    <3>2. reply[c].token \in Nat
      BY <1>3 DEF TokenArrives, Types, ClientsTypeOK, Replies
    <3>3. /\ Send(c, call[c], "sql", reply[c].token)
          /\ UNCHANGED <<call, outcome>>
      BY <1>3, <2>2 DEF TokenArrives, SendSql
    <3>4. QED
      BY <3>1, <3>2, <3>3, StillSafe, OnceSend
  <2>3. QED
    BY <2>1, <2>2
<1>4. CASE LoginFails(c)
  BY <1>4, OnceRest DEF LoginFails, Finish, MaySend, Types, ClientsTypeOK
<1>5. CASE Refresh(c)
  <2>1. MaySend(c)
    BY <1>5 DEF Refresh, Retries, MaySend
  <2>2. Send(c, call[c], "login", 0) /\ UNCHANGED <<call, outcome>>
    BY <1>5 DEF Refresh, AskForToken
  <2>3. QED
    BY <2>1, <2>2, StillSafe, OnceAsk
<1>6. CASE PrintResponse(c)
  BY <1>6, OnceRest DEF PrintResponse, Finish, MaySend, Types, ClientsTypeOK
<1>7. CASE SocketError(c)
  BY <1>7, OnceRest DEF SocketError, Finish, MaySend, Types, ClientsTypeOK
<1>8. QED
  BY <1>1, <1>2, <1>3, <1>4, <1>5, <1>6, <1>7 DEF ShellStep

LEMMA OnceTask ==
  ASSUME Types, OnceInv, NEW c \in Tasks, TaskStep(c)
  PROVE  OnceInv'
<1> c \in Callers /\ call[c] \in Nat /\ call \in [Callers -> Nat]
  BY DEF Callers, Types, ClientsTypeOK
<1> USE DEF Got
<1>1. CASE StartTask(c)
  <2>1. /\ <<c, call[c] + 1>> \notin executed
        /\ \A r \in requests : ~IsSqlOf(r, c, call[c] + 1)
    BY NextIsNew
  <2>c. /\ call' = [call EXCEPT ![c] = call[c] + 1]
        /\ call[c] + 1 \in Nat /\ call[c] + 1 >= call[c]
    BY <1>1 DEF StartTask
  <2>2. CASE ~NeedsLogin
    <3>1. sharedToken \in Nat
      BY <2>2 DEF NeedsLogin, Types, ClientsTypeOK
    <3>2. Send(c, call[c] + 1, "sql", sharedToken) /\ UNCHANGED outcome
      BY <1>1, <2>2 DEF StartTask
    <3>3. QED
      BY <2>1, <2>c, <3>1, <3>2, OnceSend
  <2>3. CASE NeedsLogin
    <3>1. Send(c, call[c] + 1, "login", 0) /\ UNCHANGED outcome
      BY <1>1, <2>3 DEF StartTask
    <3>2. QED
      BY <2>1, <2>c, <3>1, OnceAsk
  <2>4. QED
    BY <2>2, <2>3
<1>2. CASE TaskTokenArrives(c)
  <2>1. MaySend(c)
    BY <1>2 DEF TaskTokenArrives, MaySend
  <2>2. reply[c].token \in Nat
    BY <1>2 DEF TaskTokenArrives, Types, ClientsTypeOK, Replies
  <2>3. CASE Send(c, call[c], "sql", reply[c].token)
    <3>1. UNCHANGED <<call, outcome>>
      BY <1>2 DEF TaskTokenArrives
    <3>2. QED
      BY <2>1, <2>2, <2>3, <3>1, StillSafe, OnceSend
  <2>4. CASE Finish(c, "idle")
    BY <1>2, <2>4, OnceRest DEF TaskTokenArrives, Finish, MaySend, Types, ClientsTypeOK
  <2>5. QED
    BY <1>2, <2>3, <2>4 DEF TaskTokenArrives
<1>3. CASE TaskLoginFails(c)
  BY <1>3, OnceRest DEF TaskLoginFails, Finish, MaySend, Types, ClientsTypeOK
<1>4. CASE TaskEnds(c)
  BY <1>4, OnceRest DEF TaskEnds, Finish, MaySend, Types, ClientsTypeOK
<1>5. QED
  BY <1>1, <1>2, <1>3, <1>4 DEF TaskStep

LEMMA OnceServer ==
  ASSUME Types, OnceInv, ServerStep
  PROVE  OnceInv'
<1> PICK r \in requests : HandleLogin(r) \/ HandleLoginFails(r) \/ HandleSql(r)
  BY DEF ServerStep
<1> USE DEF Types, ClientsTypeOK, Request, outcome
\* Logins take no statement away and bring no 401 for one.
<1>1. CASE HandleLogin(r) \/ HandleLoginFails(r)
  <2>1. /\ r.kind = "login"
        /\ UNCHANGED <<pc, call, outcome>>
        /\ requests' = requests \ {r}
        /\ \A c \in Callers : pc[c] = "sql" => reply'[c] = reply[c]
    BY <1>1 DEF HandleLogin, HandleLoginFails, Respond, Waiting
  <2>2. \A c \in Callers : MaySend(c)' => MaySend(c)
    BY <2>1 DEF MaySend
  <2>3. QED
    BY <2>1, <2>2 DEF OnceInv, NothingAhead, OneRequest, NotExecutedYet, SafeToSend,
       ExecutedOnce, IsSqlOf
<1>2. CASE HandleSql(r)
  <2>1. PICK status \in {200, 401, 422, 504}, done \in {{}, {<<r.by, r.call>>}} :
          /\ status \in {401, 422} => done = {}
          /\ Respond(r, status, r.token, IF status = 401 THEN last'.at ELSE 0)
          /\ executed' = executed \union done
          /\ repeated' = repeated \union (executed \intersect done)
    BY <1>2 DEF HandleSql
  <2>r. /\ requests' = requests \ {r}
        /\ \A c \in Callers : reply'[c] = reply[c] \/ (c = r.by /\ Waiting(r))
        /\ Waiting(r) => reply'[r.by].status = status
    BY <2>1 DEF Respond
  <2>2. r.kind = "sql" /\ UNCHANGED <<pc, call>>
    BY <1>2 DEF HandleSql
  <2>3. NothingAhead'
    BY <2>1, <2>r, <2>2 DEF OnceInv, NothingAhead
  <2>4. OneRequest'
    BY <2>1, <2>r, <2>2 DEF OnceInv, OneRequest, IsSqlOf
  <2>5. NotExecutedYet'
    BY <2>1, <2>r, <2>2 DEF OnceInv, NotExecutedYet, OneRequest, IsSqlOf
  <2>6. SafeToSend'
    <3> SUFFICES ASSUME NEW c \in Callers, MaySend(c)'
                 PROVE  /\ <<c, call[c]>> \notin executed'
                        /\ \A s \in requests' : ~IsSqlOf(s, c, call[c])
      BY <2>2 DEF SafeToSend, IsSqlOf
    <3>1. CASE MaySend(c)
      BY <2>1, <2>r, <2>2, <3>1 DEF OnceInv, SafeToSend, IsSqlOf
    \* the reply is the 401 of this request, the only one of its statement
    <3>2. CASE ~MaySend(c)
      <4>1. c = r.by /\ Waiting(r) /\ done = {}
        BY <2>1, <2>r, <2>2, <3>2 DEF MaySend
      <4>2. r.call = call[c]
        BY <4>1 DEF Waiting
      <4>3. QED
        BY <2>1, <2>r, <2>2, <4>1, <4>2 DEF OnceInv, OneRequest, NotExecutedYet, IsSqlOf
    <3>3. QED
      BY <3>1, <3>2
  <2>7. ExecutedOnce'
    BY <2>1, <2>r, <2>2 DEF OnceInv, ExecutedOnce, NotExecutedYet
  <2>8. QED
    BY <2>3, <2>4, <2>5, <2>6, <2>7 DEF OnceInv
<1>3. QED
  BY <1>1, <1>2

LEMMA OnceStep == Types /\ OnceInv /\ [ClientsNext]_allVars => OnceInv'
<1> SUFFICES ASSUME Types, OnceInv, [ClientsNext]_allVars
             PROVE  OnceInv'
  OBVIOUS
<1>1. ASSUME NEW c \in fleet, Break(c)
      PROVE  OnceInv'
  BY <1>1, OnceRest DEF Break, Lost, MaySend, Types, ClientsTypeOK
<1>2. CASE UNCHANGED clientVars
  BY <1>2, OnceRest DEF clientVars, outcome, MaySend
<1>3. QED
  BY <1>1, <1>2, OnceServer, OnceShell, OnceTask
     DEF ClientsNext, AllEnded, Environment, allVars

\* The invariant that makes ExecutedOnce inductive.
THEOREM OnceInvAlways == ClientsSpec => [](Types /\ OnceInv)
BY TypesInit, TypesStep, OnceInit, OnceStep, PTL DEF ClientsSpec

\* Whatever is lost, late or restarted, and although a shell sends a statement
\* again after a 401, the server executes no statement twice.
THEOREM StatementsExecutedOnce == ClientsSpec => []ExecutedOnce
<1>1. OnceInv => ExecutedOnce
  BY DEF OnceInv
<1>2. QED
  BY OnceInvAlways, <1>1, PTL

-----------------------------------------------------------------------------
(* The store behaves as in TokenStore, so that what TokenStore_proofs says  *)
(* of it holds with these clients as well.                                  *)

\* Clients present tokens that were made, or 0.
TokensKnown ==
    /\ \A r \in requests : r.token <= minted
    /\ \A c \in Callers : reply[c] # None => reply[c].token <= minted
    /\ \A c \in Shells : token[c] <= minted
    /\ sharedToken # None => sharedToken <= minted

LEMMA TokensKnownInit == ClientsInit => TokensKnown
BY DEF ClientsInit, Init, TokensKnown

LEMMA TokensKnownServer ==
  ASSUME Types, TokensKnown, ServerStep
  PROVE  TokensKnown'
<1> PICK r \in requests : HandleLogin(r) \/ HandleLoginFails(r) \/ HandleSql(r)
  BY DEF ServerStep
<1> USE DEF Types, StoreTypes, ClientsTypeOK, Request, TokensKnown
<1>1. CASE HandleLogin(r)
  <2>1. minted' = minted + 1
    BY <1>1 DEF HandleLogin, IssueToken
  <2>2. QED
    BY <1>1, <2>1 DEF HandleLogin, Respond, shellVars, taskVars, Replies
<1>2. CASE HandleLoginFails(r)
  BY <1>2 DEF HandleLoginFails, Respond, vars, shellVars, taskVars
<1>3. CASE HandleSql(r)
  BY <1>3 DEF HandleSql, ValidateBearer, Respond, shellVars, taskVars
<1>4. QED
  BY <1>1, <1>2, <1>3

LEMMA TokensKnownClient ==
  ASSUME Types, TokensKnown, NEW c \in Callers,
         (c \in Shells /\ ShellStep(c)) \/ (c \in Tasks /\ TaskStep(c)) \/ Break(c)
  PROVE  TokensKnown'
<1> USE DEF Types, StoreTypes, ClientsTypeOK, Request, Replies, TokensKnown, vars, shellVars,
            taskVars, Send, Finish, Got, AskForToken, SendSql
<1>1. CASE c \in Shells /\ ShellStep(c)
  <2>1. CASE Connect(c)            BY <2>1, <1>1 DEF Connect
  <2>2. CASE Execute(c)            BY <2>2, <1>1 DEF Execute
  <2>3. CASE TokenArrives(c)       BY <2>3, <1>1 DEF TokenArrives
  <2>4. CASE LoginFails(c)         BY <2>4, <1>1 DEF LoginFails
  <2>5. CASE Refresh(c)            BY <2>5, <1>1 DEF Refresh
  <2>6. CASE PrintResponse(c)      BY <2>6, <1>1 DEF PrintResponse
  <2>7. CASE SocketError(c)        BY <2>7, <1>1 DEF SocketError
  <2>8. QED
    BY <1>1, <2>1, <2>2, <2>3, <2>4, <2>5, <2>6, <2>7 DEF ShellStep
<1>2. CASE c \in Tasks /\ TaskStep(c)
  <2>1. CASE StartTask(c)          BY <2>1, <1>2 DEF StartTask, NeedsLogin
  <2>2. CASE TaskTokenArrives(c)   BY <2>2, <1>2 DEF TaskTokenArrives
  <2>3. CASE TaskLoginFails(c)     BY <2>3, <1>2 DEF TaskLoginFails
  <2>4. CASE TaskEnds(c)           BY <2>4, <1>2 DEF TaskEnds
  <2>5. QED
    BY <1>2, <2>1, <2>2, <2>3, <2>4 DEF TaskStep
<1>3. CASE Break(c)
  BY <1>3 DEF Break, Lost
<1>4. QED
  BY <1>1, <1>2, <1>3

LEMMA TokensKnownStep == Types /\ TokensKnown /\ [ClientsNext]_allVars => TokensKnown'
<1> SUFFICES ASSUME Types, TokensKnown, [ClientsNext]_allVars
             PROVE  TokensKnown'
  OBVIOUS
<1>1. CASE Environment
  <2>1. minted' \in Nat /\ minted' >= minted
    BY <1>1 DEF Environment, Tick, Restart, IssueToken, Types, StoreTypes
  <2>2. QED
    BY <1>1, <2>1 DEF Environment, clientVars, shellVars, taskVars, TokensKnown, Types,
       StoreTypes, ClientsTypeOK, Request, Replies
<1>2. CASE UNCHANGED allVars
  BY <1>2 DEF allVars, vars, clientVars, shellVars, taskVars, TokensKnown
<1>3. fleet \subseteq Callers /\ Shells \subseteq Callers /\ Tasks \subseteq Callers
  BY DEF Types, ClientsTypeOK, Callers
<1>4. QED
  BY <1>1, <1>2, <1>3, TokensKnownServer, TokensKnownClient DEF ClientsNext, AllEnded

\* Every step of the system is a step of the store, or leaves it alone.
LEMMA StoreStep == Types /\ TokensKnown /\ [ClientsNext]_allVars => [Next]_vars
<1> SUFFICES ASSUME Types, TokensKnown, [ClientsNext]_allVars
             PROVE  [Next]_vars
  OBVIOUS
<1>1. ASSUME NEW r \in requests, HandleLogin(r)
      PROVE  Next
  BY <1>1 DEF HandleLogin, Next
<1>2. ASSUME NEW r \in requests, HandleSql(r)
      PROVE  Next
  <2>1. r.token \in Presented
    BY DEF TokensKnown, Presented, Types, StoreTypes, ClientsTypeOK, Request
  <2>2. QED
    BY <1>2, <2>1 DEF HandleSql, Next
<1>3. ASSUME NEW r \in requests, HandleLoginFails(r)
      PROVE  UNCHANGED vars
  BY <1>3 DEF HandleLoginFails
<1>4. ASSUME NEW c \in Shells, ShellStep(c)
      PROVE  UNCHANGED vars
  BY <1>4 DEF ShellStep, Connect, Execute, TokenArrives, LoginFails, Refresh,
     PrintResponse, SocketError
<1>5. ASSUME NEW c \in Tasks, TaskStep(c)
      PROVE  UNCHANGED vars
  BY <1>5 DEF TaskStep, StartTask, TaskTokenArrives, TaskLoginFails, TaskEnds
<1>6. ASSUME NEW c \in fleet, Break(c)
      PROVE  UNCHANGED vars
  BY <1>6 DEF Break
<1>7. CASE Environment
  BY <1>7 DEF Environment, Next
<1>8. CASE UNCHANGED allVars
  BY <1>8 DEF allVars
<1>9. QED
  BY <1>1, <1>2, <1>3, <1>4, <1>5, <1>6, <1>7, <1>8
     DEF ClientsNext, ServerStep, AllEnded

\* The server under these clients implements TokenStore.
THEOREM ClientsUseTokenStore == ClientsSpec => Spec
<1>1. ClientsInit => Init
  BY DEF ClientsInit
<1>2. QED
  BY <1>1, TypesInit, TypesStep, TokensKnownInit, TokensKnownStep, StoreStep, PTL
     DEF ClientsSpec, Spec

\* What TokenStore promises holds with these clients as well.
THEOREM StoreServesClients ==
    ClientsSpec => /\ [](StoreBounded /\ RefusedForGood /\ AcceptedUnexpired)
                   /\ NothingLostEarly
BY ClientsUseTokenStore, StoreAlwaysBounded, TokensLostInTime, RefusalIsFinal,
   AcceptanceInTime, PTL

-----------------------------------------------------------------------------
(* The logins of the tasks.                                                 *)

Asking == {c \in Tasks : pc[c] = "login"}

\* Every login is under way or failed, until one of them gave a token; after
\* that there are no more.
LoginsCounted ==
    /\ LoginsBounded
    /\ sharedToken = None => logins = Cardinality(Asking) + fruitless

LEMMA LoginsInit ==
  ASSUME IsFiniteSet(Tasks), ClientsInit
  PROVE  LoginsCounted
<1>1. Asking = {}
  BY DEF ClientsInit, Asking, Callers
<1>2. Cardinality(Asking) = 0 /\ Cardinality(Tasks) \in Nat
  BY <1>1, FS_EmptySet, FS_CardinalityType
<1>3. logins = 0 /\ fruitless = 0
  BY DEF ClientsInit
<1>4. QED
  BY <1>2, <1>3 DEF LoginsCounted, LoginsBounded

\* No task begins or ends a login.
LEMMA LoginsRest ==
  ASSUME LoginsCounted, Asking' = Asking, UNCHANGED taskVars
  PROVE  LoginsCounted'
BY DEF LoginsCounted, LoginsBounded, taskVars

LEMMA LoginsTask ==
  ASSUME IsFiniteSet(Tasks), Types, LoginsCounted, NEW c \in Tasks, TaskStep(c)
  PROVE  LoginsCounted'
<1> USE DEF Got, Send, Finish
<1>0. c \in Callers /\ pc \in [Callers -> {"start", "idle", "login", "sql", "ended"}]
      /\ logins \in Nat /\ fruitless \in Nat
  BY DEF Types, ClientsTypeOK, Callers
<1>1. /\ IsFiniteSet(Asking)
      /\ Cardinality(Asking) \in Nat /\ Cardinality(Tasks) \in Nat
  BY FS_Subset, FS_CardinalityType DEF Asking
<1>2. CASE StartTask(c) /\ NeedsLogin
  <2>1. /\ pc[c] = "idle" /\ pc' = [pc EXCEPT ![c] = "login"]
        /\ logins' = logins + 1 /\ UNCHANGED <<sharedToken, fruitless>>
    BY <1>2 DEF StartTask
  <2>2. Asking' = Asking \union {c} /\ c \notin Asking
    BY <1>0, <2>1 DEF Asking, Callers
  <2>3. Cardinality(Asking') = Cardinality(Asking) + 1
    BY <1>1, <2>2, FS_AddElement
  <2>4. Cardinality(Asking') <= Cardinality(Tasks)
    BY FS_Subset DEF Asking
  <2>5. QED
    BY <1>0, <1>1, <1>2, <2>1, <2>3, <2>4 DEF LoginsCounted, LoginsBounded, NeedsLogin
<1>3. CASE StartTask(c) /\ ~NeedsLogin
  BY <1>3 DEF StartTask, NeedsLogin, LoginsCounted, LoginsBounded
<1>4. CASE TaskTokenArrives(c)
  <2>1. sharedToken' # None
    BY <1>0, <1>4 DEF TaskTokenArrives, Types, ClientsTypeOK, Replies
  <2>2. QED
    BY <1>4, <2>1 DEF TaskTokenArrives, LoginsCounted, LoginsBounded
<1>5. CASE TaskLoginFails(c)
  <2>1. /\ pc[c] = "login" /\ pc' = [pc EXCEPT ![c] = "idle"]
        /\ fruitless' = fruitless + 1 /\ UNCHANGED <<sharedToken, logins>>
    BY <1>5 DEF TaskLoginFails
  <2>2. Asking' = Asking \ {c} /\ c \in Asking
    BY <1>0, <2>1 DEF Asking, Callers
  <2>3. Cardinality(Asking') = Cardinality(Asking) - 1
    BY <1>1, <2>2, FS_RemoveElement
  <2>4. QED
    BY <1>0, <1>1, <2>1, <2>3 DEF LoginsCounted, LoginsBounded
<1>6. CASE TaskEnds(c)
  <2>1. Asking' = Asking
    BY <1>0, <1>6 DEF TaskEnds, Asking, Callers
  <2>2. QED
    BY <1>6, <2>1, LoginsRest DEF TaskEnds
<1>7. QED
  BY <1>2, <1>3, <1>4, <1>5, <1>6 DEF TaskStep

LEMMA LoginsStep ==
  ASSUME IsFiniteSet(Tasks), Types, LoginsCounted, [ClientsNext]_allVars
  PROVE  LoginsCounted'
<1>1. ASSUME NEW c \in Tasks, TaskStep(c)
      PROVE  LoginsCounted'
  BY <1>1, LoginsTask
<1>2. ASSUME NEW c \in Shells, ShellStep(c)
      PROVE  LoginsCounted'
  <2>1. \A d \in Tasks : pc'[d] = pc[d]
    BY <1>2 DEF ShellStep, Connect, Execute, TokenArrives, LoginFails, Refresh, PrintResponse,
       SocketError, AskForToken, SendSql, Send, Finish, Types, ClientsTypeOK, Callers
  <2>2. UNCHANGED taskVars
    BY <1>2 DEF ShellStep, Connect, Execute, TokenArrives, LoginFails, Refresh, PrintResponse,
       SocketError
  <2>3. Asking' = Asking
    BY <2>1 DEF Asking
  <2>4. QED
    BY <2>2, <2>3, LoginsRest
<1>3. CASE ServerStep
  BY <1>3, LoginsRest DEF ServerStep, HandleLogin, HandleLoginFails, HandleSql, Asking
<1>4. ASSUME NEW c \in fleet, Break(c)
      PROVE  LoginsCounted'
  BY <1>4, LoginsRest DEF Break, Asking
<1>5. CASE Environment \/ AllEnded \/ UNCHANGED allVars
  BY <1>5, LoginsRest DEF Environment, AllEnded, allVars, clientVars, Asking
<1>6. QED
  BY <1>1, <1>2, <1>3, <1>4, <1>5 DEF ClientsNext

\* However the test, the await and the assignment of concurrent tasks interleave,
\* they ask for one token each at most, besides those that they did not get.
THEOREM LoginsAlwaysBounded == IsFiniteSet(Tasks) /\ ClientsSpec => []LoginsBounded
<1> SUFFICES ASSUME IsFiniteSet(Tasks)
             PROVE  ClientsSpec => []LoginsBounded
  OBVIOUS
<1>1. ClientsInit => LoginsCounted
  BY LoginsInit
<1>2. Types /\ LoginsCounted /\ [ClientsNext]_allVars => LoginsCounted'
  BY LoginsStep
<1>3. LoginsCounted => LoginsBounded
  BY DEF LoginsCounted
<1>4. QED
  BY <1>1, <1>2, <1>3, TypesInit, TypesStep, PTL DEF ClientsSpec

-----------------------------------------------------------------------------
(* Why a shell is refused.                                                  *)

\* The token t of the shell c is lost with the server, or was issued by d.
IssuedBy(c, t, d) ==
    \/ restarts > epoch[c]
    \/ \E e \in ledger : e.token = t /\ IssuedAt(e) <= d

Explained(c) ==
    \/ restarts > epoch[c]
    \/ \E e \in ledger :
          /\ e.token = reply[c].token
          /\ \/ Evicted(e)
             \/ Delay(c, e) > Smaller(RefreshMargin + 1, TokenTtl)

\* What is true of a shell: its token was issued before it got it, it was sent
\* in time or at once, and a 401 is the answer to that token.
Dates(c) ==
    /\ epoch[c] <= restarts
    /\ pc[c] = "login" /\ reply[c] # None /\ reply[c].status = 200 =>
          IssuedBy(c, reply[c].token, now)
    /\ pc[c] \in {"idle", "sql"} => IssuedBy(c, token[c], ReceivedAt(c))
    /\ pc[c] = "sql" =>
          /\ sentAt[c] + RefreshMargin < expiresAt[c] \/ sentAt[c] = ReceivedAt(c)
          /\ \A r \in requests : IsSqlOf(r, c, call[c]) => r.token = token[c]
    /\ pc[c] = "sql" /\ reply[c] # None /\ reply[c].status = 401 => Explained(c)

DatesInv == latest <= now /\ \A c \in Shells : Dates(c)

\* The store goes on: the clock is not set back, and entries leave the ledger
\* with a restart only.
StoreAdvances ==
    /\ now' >= now /\ latest' <= now'
    /\ \/ restarts' = restarts /\ ledger \subseteq ledger'
       \/ restarts' > restarts

LEMMA StoreGoesOn ==
  ASSUME StoreTypes, latest \in Nat, latest <= now,
         \/ Tick \/ Restart \/ IssueToken
         \/ \E t : ValidateBearer(t)
         \/ UNCHANGED vars
  PROVE  StoreAdvances
<1> USE DEF StoreTypes, StoreAdvances
<1>1. CASE Tick \/ Restart \/ UNCHANGED vars
  BY <1>1 DEF Tick, Restart, vars
<1>2. CASE IssueToken
  BY <1>2 DEF IssueToken, LaterReadings, ReadClock
<1>3. ASSUME NEW t, ValidateBearer(t)
      PROVE  StoreAdvances
  BY <1>3 DEF ValidateBearer, LaterReadings, ReadClock
<1>4. QED
  BY <1>1, <1>2, <1>3

\* An evicted entry stays evicted as long as the ledger grows.
LEMMA EvictedStays ==
  ASSUME TokenInv, TokenInv', ledger \subseteq ledger', NEW e \in ledger, Evicted(e)
  PROVE  Evicted(e)'
<1>1. IsFiniteSet(Newer(e)') /\ IsFiniteSet(Newer(e))
  BY FS_Subset DEF Newer, TokenInv, StoreInLedger
<1>2. Newer(e) \subseteq Newer(e)'
  BY DEF Newer
<1>3. Cardinality(Newer(e)) <= Cardinality(Newer(e)')
  BY <1>1, <1>2, FS_Subset
<1>4. Cardinality(Newer(e)) \in Nat /\ Cardinality(Newer(e)') \in Nat
  BY <1>1, FS_CardinalityType
<1>5. QED
  BY <1>3, <1>4 DEF Evicted

LEMMA IssuedByStays ==
  ASSUME Types, TokenInv, TokenInv', StoreAdvances, NEW c \in Shells, epoch'[c] = epoch[c],
         epoch[c] <= restarts, NEW t, NEW d \in Int, NEW d1 \in Int, d <= d1, IssuedBy(c, t, d)
  PROVE  \/ restarts' > epoch'[c]
         \/ \E e \in ledger' : e.token = t /\ IssuedAt(e) <= d1
<1> restarts \in Nat /\ epoch[c] \in Nat /\ restarts' \in Nat
  BY DEF Types, StoreTypes, ClientsTypeOK, TokenInv, TypeOK
<1>1. CASE restarts > epoch[c] \/ restarts' > restarts
  BY <1>1 DEF StoreAdvances
<1>2. CASE ledger \subseteq ledger' /\ restarts <= epoch[c]
  <2>1. PICK e \in ledger : e.token = t /\ IssuedAt(e) <= d
    BY <1>2 DEF IssuedBy
  <2>2. e.expires \in Nat /\ TokenTtl \in Nat
    BY DEF TokenInv, TypeOK, Entry
  <2>3. IssuedAt(e) \in Int
    BY <2>2 DEF IssuedAt
  <2>4. IssuedAt(e) <= d1
    BY <2>1, <2>3
  <2>5. QED
    BY <1>2, <2>1, <2>4
<1>3. QED
  BY <1>1, <1>2 DEF StoreAdvances

\* A step that concerns a shell at most by the end of its exchange.
LEMMA DatesUntouched ==
  ASSUME Types, TokenInv, TokenInv', StoreAdvances, NEW c \in Shells, Dates(c),
         pc'[c] = pc[c], call'[c] = call[c], token'[c] = token[c],
         expiresAt'[c] = expiresAt[c], sentAt'[c] = sentAt[c], epoch'[c] = epoch[c],
         \A r \in requests' : r.by = c => r \in requests,
         \/ reply'[c] = reply[c]
         \/ pc[c] = "login" /\ reply'[c].status # 200
         \/ pc[c] = "sql" /\ reply'[c].status # 401
  PROVE  Dates(c)'
<1>0. /\ restarts \in Nat /\ epoch[c] \in Nat /\ restarts' \in Nat /\ now \in Nat /\ now' \in Nat
      /\ expiresAt[c] \in Nat /\ TokenTtl \in Nat
  BY DEF Types, StoreTypes, ClientsTypeOK, TokenInv, TypeOK
<1>1. epoch'[c] <= restarts'
  BY <1>0 DEF Dates, StoreAdvances
<1>2. (pc[c] = "login" /\ reply[c] # None /\ reply[c].status = 200 =>
          IssuedBy(c, reply[c].token, now))'
  <2> SUFFICES ASSUME pc'[c] = "login", reply'[c] # None, reply'[c].status = 200
               PROVE  IssuedBy(c, reply[c].token, now)'
    OBVIOUS
  <2>1. reply'[c] = reply[c] /\ IssuedBy(c, reply[c].token, now)
    BY DEF Dates
  <2>2. now <= now'
    BY <1>0 DEF StoreAdvances
  <2>3. epoch[c] <= restarts
    BY DEF Dates
  <2>4. \/ restarts' > epoch'[c]
        \/ \E e \in ledger' : e.token = reply[c].token /\ IssuedAt(e) <= now'
    BY <1>0, <2>1, <2>2, <2>3, IssuedByStays
  <2>5. QED
    BY <2>1, <2>4 DEF IssuedBy, IssuedAt
<1>3. (pc[c] \in {"idle", "sql"} => IssuedBy(c, token[c], ReceivedAt(c)))'
  <2> SUFFICES ASSUME pc[c] \in {"idle", "sql"}
               PROVE  IssuedBy(c, token[c], ReceivedAt(c))'
    OBVIOUS
  <2>1. ReceivedAt(c) \in Int /\ ReceivedAt(c)' = ReceivedAt(c)
    BY <1>0 DEF ReceivedAt
  <2>2. IssuedBy(c, token[c], ReceivedAt(c)) /\ epoch[c] <= restarts
    BY DEF Dates
  <2>3. \/ restarts' > epoch'[c]
        \/ \E e \in ledger' : e.token = token[c] /\ IssuedAt(e) <= ReceivedAt(c)
    BY <2>1, <2>2, IssuedByStays
  <2>4. QED
    BY <2>1, <2>3 DEF IssuedBy, IssuedAt
<1>4. (pc[c] = "sql" =>
          /\ sentAt[c] + RefreshMargin < expiresAt[c] \/ sentAt[c] = ReceivedAt(c)
          /\ \A r \in requests : IsSqlOf(r, c, call[c]) => r.token = token[c])'
  BY DEF Dates, ReceivedAt, IsSqlOf
<1>5. (pc[c] = "sql" /\ reply[c] # None /\ reply[c].status = 401 => Explained(c))'
  <2> SUFFICES ASSUME pc[c] = "sql", reply'[c] # None, reply'[c].status = 401
               PROVE  Explained(c)'
    OBVIOUS
  <2>1. reply'[c] = reply[c] /\ Explained(c)
    BY DEF Dates
  <2>2. CASE restarts > epoch[c] \/ restarts' > restarts
    BY <1>0, <2>2 DEF StoreAdvances, Dates, Explained
  <2>3. CASE ledger \subseteq ledger' /\ ~(restarts > epoch[c])
    <3>1. PICK e \in ledger : /\ e.token = reply[c].token
                              /\ \/ Evicted(e)
                                 \/ Delay(c, e) > Smaller(RefreshMargin + 1, TokenTtl)
      BY <2>1, <2>3 DEF Explained
    <3>2. CASE Evicted(e)
      BY <2>1, <2>3, <3>1, <3>2, EvictedStays DEF Explained
    <3>3. CASE Delay(c, e) > Smaller(RefreshMargin + 1, TokenTtl)
      <4>1. Delay(c, e)' = Delay(c, e)
        BY <2>1 DEF Delay, ReceivedAt, IssuedAt
      <4>2. QED
        BY <2>1, <2>3, <3>1, <3>3, <4>1 DEF Explained
    <3>4. QED
      BY <3>1, <3>2, <3>3
  <2>4. QED
    BY <2>2, <2>3 DEF StoreAdvances
<1>6. QED
  BY <1>1, <1>2, <1>3, <1>4, <1>5 DEF Dates

\* A token that is refused was lost with the server, evicted, or is past its end.
LEMMA RefusedInStore ==
  ASSUME TokenInv, latest <= now, NEW e \in ledger, ValidateBearer(e.token), ~last'.ok
  PROVE  \/ Cardinality(Newer(e)) >= MaxIssuedTokens
         \/ last'.at > e.expires
<1> PICK t \in LaterReadings :
        \E live \in Prunings(t) :
          LET found == {u \in live : u.token = e.token}
          IN  last' = [token |-> e.token, ok |-> e.token \in StaticTokens \/ StillValid(found, t),
                       at |-> t]
  BY DEF ValidateBearer
<1> PICK live \in Prunings(t) :
        LET found == {u \in live : u.token = e.token}
        IN  last' = [token |-> e.token, ok |-> e.token \in StaticTokens \/ StillValid(found, t),
                     at |-> t]
  OBVIOUS
<1>1. e.expires \in Nat /\ now \in Nat /\ latest \in Nat /\ t \in Nat /\ t >= now
  BY DEF TokenInv, TypeOK, Entry, LaterReadings
<1>2. last'.at = t
  OBVIOUS
<1>3. CASE e \notin store
  <2>1. Expired(e, latest) \/ Cardinality(Newer(e)) >= MaxIssuedTokens
    BY <1>3 DEF TokenInv, LostInTime
  <2>2. QED
    BY <1>1, <1>2, <2>1 DEF Expired
<1>4. CASE e \in store /\ ~Expired(e, t)
  <2>1. e \in live
    BY <1>4 DEF Prunings, Unexpired
  <2>2. StillValid({u \in live : u.token = e.token}, t)
    BY <1>4, <2>1 DEF StillValid, Unexpired
  <2>3. last'.ok
    BY <2>2
  <2>4. QED
    BY <2>3
<1>5. CASE e \in store /\ Expired(e, t)
  BY <1>1, <1>2, <1>5 DEF Expired
<1>6. QED
  BY <1>3, <1>4, <1>5

\* The 401 of a shell: a token that is past its end took longer than the margin,
\* or was on its way for its whole lifetime.
LEMMA RefusalOfShell ==
  ASSUME Types, TokenInv, TokenInv', DatesInv, NEW r \in requests, HandleSql(r),
         r.by \in Shells, Waiting(r), reply'[r.by].status = 401
  PROVE  Explained(r.by)'
<1> DEFINE c == r.by
<1>0. c \in Shells /\ c \in Callers /\ Dates(c) /\ pc[c] = "sql" /\ latest <= now
  BY DEF Callers, DatesInv, HandleSql, Waiting
<1>1. PICK status \in {200, 401, 422, 504} :
        /\ status = 401 <=> ~last'.ok
        /\ Respond(r, status, r.token, IF status = 401 THEN last'.at ELSE 0)
  BY DEF HandleSql
<1>2. /\ reply' = [reply EXCEPT ![c] =
                     [status |-> status, token |-> r.token,
                      at |-> IF status = 401 THEN last'.at ELSE 0]]
  BY <1>1 DEF Respond
<1>3. status = 401 /\ ~last'.ok /\ reply'[c].token = r.token /\ reply'[c].at = last'.at
  BY <1>0, <1>1, <1>2 DEF Types, ClientsTypeOK
<1>4. r.token = token[c]
  BY <1>0 DEF Dates, IsSqlOf, HandleSql, Waiting
<1>5. /\ UNCHANGED <<expiresAt, sentAt, epoch, token>>
      /\ UNCHANGED <<restarts, ledger>>
      /\ ValidateBearer(r.token)
  BY DEF HandleSql, shellVars, ValidateBearer
<1>6. CASE restarts > epoch[c]
  BY <1>5, <1>6 DEF Explained
<1>7. CASE ~(restarts > epoch[c])
  <2>1. PICK e \in ledger : e.token = token[c] /\ IssuedAt(e) <= ReceivedAt(c)
    BY <1>0, <1>7 DEF Dates, IssuedBy
  <2>2. \/ Evicted(e)
        \/ last'.at > e.expires
    BY <1>0, <1>3, <1>4, <1>5, <2>1, RefusedInStore DEF Evicted
  <2>3. CASE Evicted(e)
    <3>1. Newer(e)' = Newer(e)
      BY <1>5 DEF Newer
    <3>2. Evicted(e)'
      BY <2>3, <3>1 DEF Evicted
    <3>3. QED
      BY <1>3, <1>4, <1>5, <2>1, <3>2 DEF Explained
  <2>4. CASE last'.at > e.expires
    <3>1. /\ e.expires \in Nat /\ last'.at \in Nat /\ sentAt[c] \in Nat /\ expiresAt[c] \in Nat
          /\ TokenTtl \in Nat /\ RefreshMargin \in Nat
      BY <1>0 DEF TokenInv, TypeOK, Entry, Types, ClientsTypeOK
    <3>2. \/ sentAt[c] + RefreshMargin < expiresAt[c]
          \/ sentAt[c] = expiresAt[c] - TokenTtl
      BY <1>0 DEF Dates, ReceivedAt
    <3>3. Delay(c, e)' = (expiresAt[c] - TokenTtl) - (e.expires - TokenTtl)
                           + (last'.at - sentAt[c])
      BY <1>3, <1>5 DEF Delay, ReceivedAt, IssuedAt
    <3>4. Delay(c, e)' > Smaller(RefreshMargin + 1, TokenTtl)
      BY <2>4, <3>1, <3>2, <3>3 DEF Smaller
    <3>5. QED
      BY <1>3, <1>4, <1>5, <2>1, <3>4 DEF Explained
  <2>5. QED
    BY <2>2, <2>3, <2>4
<1>8. QED
  BY <1>6, <1>7

LEMMA DatesServer ==
  ASSUME Types, Types', TokenInv, TokenInv', DatesInv, ServerStep
  PROVE  DatesInv'
<1> PICK r \in requests : HandleLogin(r) \/ HandleLoginFails(r) \/ HandleSql(r)
  BY DEF ServerStep
<1>0. StoreTypes /\ latest \in Nat /\ latest <= now
  BY DEF Types, TokenInv, TypeOK, DatesInv
<1>1. StoreAdvances
  BY <1>0, StoreGoesOn DEF HandleLogin, HandleLoginFails, HandleSql
<1>2. UNCHANGED <<pc, call, token, expiresAt, sentAt, epoch>>
  BY DEF HandleLogin, HandleLoginFails, HandleSql, shellVars
<1>3. requests' = requests \ {r} /\ \A c \in Callers : c # r.by \/ ~Waiting(r) => reply'[c] = reply[c]
  <2>1. \A status, t, at : Respond(r, status, t, at) =>
           requests' = requests \ {r} /\ \A c \in Callers : c # r.by \/ ~Waiting(r) => reply'[c] = reply[c]
    BY DEF Respond, Types, ClientsTypeOK
  <2>2. \E status, t, at : Respond(r, status, t, at)
    BY DEF HandleLogin, HandleLoginFails, HandleSql
  <2>3. QED
    BY <2>1, <2>2
<1>4. ASSUME NEW c \in Shells
      PROVE  Dates(c)'
  <2>0. c \in Callers /\ Dates(c)
    BY DEF Callers, DatesInv
  <2>1. CASE c # r.by \/ ~Waiting(r)
    BY <1>1, <1>2, <1>3, <2>0, <2>1, DatesUntouched
  <2>2. CASE c = r.by /\ Waiting(r)
    <3>1. CASE HandleLoginFails(r)
      <4>1. pc[c] = "login" /\ reply'[c].status # 200
        BY <2>0, <2>2, <3>1 DEF HandleLoginFails, Respond, Waiting, Types, ClientsTypeOK
      <4>2. QED
        BY <1>1, <1>2, <1>3, <2>0, <4>1, DatesUntouched
    <3>2. CASE HandleLogin(r)
      <4>1. /\ pc[c] = "login" /\ reply'[c] = [status |-> 200, token |-> minted', at |-> 0]
        BY <2>0, <2>2, <3>2 DEF HandleLogin, Respond, Waiting, Types, ClientsTypeOK
      <4>2. PICK t \in LaterReadings : ledger' = ledger \union {NewEntry(t)} /\ now' = t
        BY <3>2 DEF HandleLogin, IssueToken, ReadClock
      <4>3. minted' = minted + 1 /\ t \in Nat
        BY <1>0, <3>2 DEF HandleLogin, IssueToken, LaterReadings, StoreTypes
      <4>4. NewEntry(t).token = minted' /\ IssuedAt(NewEntry(t)) = t
        BY <4>3 DEF NewEntry, IssuedAt
      <4>5. IssuedBy(c, reply[c].token, now)'
        BY <4>1, <4>2, <4>4, <4>3 DEF IssuedBy, IssuedAt
      <4>6. epoch'[c] <= restarts'
        BY <1>1, <1>2, <2>0 DEF Dates, StoreAdvances, Types, StoreTypes, ClientsTypeOK
      <4>7. QED
        BY <1>2, <4>1, <4>5, <4>6 DEF Dates
    <3>3. CASE HandleSql(r) /\ reply'[c].status # 401
      <4>1. pc[c] = "sql"
        BY <2>2, <3>3 DEF HandleSql, Waiting
      <4>2. QED
        BY <1>1, <1>2, <1>3, <2>0, <3>3, <4>1, DatesUntouched
    <3>4. CASE HandleSql(r) /\ reply'[c].status = 401
      <4>1. Explained(c)'
        BY <2>2, <3>4, RefusalOfShell
      <4>2. pc'[c] = "sql"
        BY <1>2, <2>2, <3>4 DEF HandleSql, Waiting
      <4>3. UNCHANGED <<restarts, ledger>>
        BY <3>4 DEF HandleSql, ValidateBearer
      <4>4. QED
        BY <1>2, <1>3, <2>0, <4>1, <4>2, <4>3
           DEF Dates, IssuedBy, IssuedAt, ReceivedAt, IsSqlOf
    <3>5. QED
      BY <3>1, <3>2, <3>3, <3>4
  <2>3. QED
    BY <2>1, <2>2
<1>5. QED
  BY <1>1, <1>4 DEF DatesInv, StoreAdvances

LEMMA DatesShell ==
  ASSUME Types, TokenInv, TokenInv', OnceInv, DatesInv, NEW c \in Shells, ShellStep(c)
  PROVE  DatesInv'
<1> USE DEF Got
<1>0. UNCHANGED vars
  BY DEF ShellStep, Connect, Execute, TokenArrives, LoginFails, Refresh, PrintResponse,
     SocketError
<1>s. /\ UNCHANGED <<now, latest, restarts, ledger>>
      /\ \A e \in ledger : Evicted(e)' = Evicted(e)
  BY <1>0 DEF vars, Evicted, Newer
<1>1. StoreAdvances
  BY <1>0, StoreGoesOn DEF DatesInv, Types, TokenInv, TypeOK
<1>2. ASSUME NEW d \in Shells, d # c
      PROVE  Dates(d)'
  <2>1. /\ pc'[d] = pc[d] /\ call'[d] = call[d] /\ token'[d] = token[d]
        /\ expiresAt'[d] = expiresAt[d] /\ sentAt'[d] = sentAt[d] /\ epoch'[d] = epoch[d]
        /\ reply'[d] = reply[d]
        /\ \A r \in requests' : r.by = d => r \in requests
    BY <1>2 DEF ShellStep, Connect, Execute, TokenArrives, LoginFails, Refresh, PrintResponse,
       SocketError, AskForToken, SendSql, Send, Finish, Types, ClientsTypeOK, Callers
  <2>2. Dates(d)
    BY DEF DatesInv
  <2>3. QED
    BY <1>1, <2>1, <2>2, DatesUntouched
<1>3. Dates(c)'
  <2>0. /\ c \in Callers /\ Dates(c) /\ restarts \in Nat /\ now \in Nat /\ TokenTtl \in Nat
        /\ call[c] \in Nat /\ expiresAt[c] \in Nat
    BY DEF Callers, DatesInv, Types, StoreTypes, ClientsTypeOK
  <2> USE DEF Types, ClientsTypeOK, Send, Finish, AskForToken, SendSql
  \* The shell asks for a token.
  <2>1. CASE pc'[c] = "login" /\ reply'[c] = None /\ epoch'[c] = restarts
    BY <1>s, <2>0, <2>1 DEF Dates
  <2>2. CASE pc'[c] = "ended"
    <3>1. epoch'[c] = epoch[c]
      BY <2>2, <2>0 DEF ShellStep, Connect, Execute, TokenArrives, LoginFails, Refresh,
         PrintResponse, SocketError
    <3>2. QED
      BY <1>s, <2>0, <2>2, <3>1 DEF Dates
  <2>3. CASE Execute(c) /\ Fresh(c) /\ SendSql(c, call[c] + 1, token[c]) /\ UNCHANGED epoch
    <3>1. /\ pc[c] = "idle" /\ pc'[c] = "sql" /\ reply'[c] = None /\ sentAt'[c] = now
          /\ call'[c] = call[c] + 1 /\ UNCHANGED <<token, expiresAt, epoch>>
          /\ requests' = requests \union {[by |-> c, call |-> call[c] + 1, kind |-> "sql",
                                           token |-> token[c]]}
      BY <2>0, <2>3 DEF Execute
    <3>2. \A r \in requests : ~IsSqlOf(r, c, call[c] + 1)
      BY <2>0, NextIsNew
    <3>3. \A r \in requests' : IsSqlOf(r, c, call'[c]) => r.token = token'[c]
      BY <3>1, <3>2 DEF IsSqlOf
    <3>4. sentAt'[c] + RefreshMargin < expiresAt'[c]
      BY <2>3, <3>1 DEF Fresh
    <3>5. IssuedBy(c, token[c], ReceivedAt(c))'
      BY <1>s, <2>0, <3>1 DEF Dates, IssuedBy, ReceivedAt, IssuedAt
    <3>6. QED
      BY <1>s, <2>0, <3>1, <3>3, <3>4, <3>5 DEF Dates, IsSqlOf
  <2>4. CASE TokenArrives(c)
    <3>1. /\ pc[c] = "login" /\ reply[c] # None /\ reply[c].status = 200
          /\ token'[c] = reply[c].token /\ expiresAt'[c] = now + TokenTtl
          /\ UNCHANGED <<call, epoch>>
      BY <2>0, <2>4 DEF TokenArrives
    <3>2. ReceivedAt(c)' = now
      BY <2>0, <3>1 DEF ReceivedAt
    <3>3. IssuedBy(c, token[c], ReceivedAt(c))'
      BY <1>s, <2>0, <3>1, <3>2 DEF Dates, IssuedBy, IssuedAt
    <3>4. CASE call[c] = 0
      <4>1. pc'[c] = "idle"
        BY <2>0, <2>4, <3>4 DEF TokenArrives
      <4>2. QED
        BY <1>s, <2>0, <3>1, <3>3, <4>1 DEF Dates
    <3>5. CASE call[c] # 0
      <4>1. /\ pc'[c] = "sql" /\ reply'[c] = None /\ sentAt'[c] = now
            /\ requests' = requests \union {[by |-> c, call |-> call[c], kind |-> "sql",
                                             token |-> reply[c].token]}
        BY <2>0, <2>4, <3>5 DEF TokenArrives
      <4>2. \A r \in requests : ~IsSqlOf(r, c, call[c])
        BY <2>0, <3>1, StillSafe DEF MaySend
      <4>3. \A r \in requests' : IsSqlOf(r, c, call'[c]) => r.token = token'[c]
        BY <3>1, <4>1, <4>2 DEF IsSqlOf
      <4>4. QED
        BY <1>s, <2>0, <3>1, <3>2, <3>3, <4>1, <4>3 DEF Dates, IsSqlOf
    <3>6. QED
      BY <3>4, <3>5
  <2>5. CASE PrintResponse(c)
    <3>1. /\ pc[c] = "sql" /\ pc'[c] = "idle"
          /\ UNCHANGED <<call, token, expiresAt, epoch>>
      BY <2>0, <2>5 DEF PrintResponse
    <3>2. IssuedBy(c, token[c], ReceivedAt(c))'
      BY <1>s, <2>0, <3>1 DEF Dates, IssuedBy, ReceivedAt, IssuedAt
    <3>3. QED
      BY <1>s, <2>0, <3>1, <3>2 DEF Dates
  <2>6. CASE Connect(c) \/ Refresh(c) \/ (Execute(c) /\ AskForToken(c, call[c] + 1))
    <3>1. pc'[c] = "login" /\ reply'[c] = None /\ epoch'[c] = restarts
      BY <2>0, <2>6 DEF Connect, Refresh
    <3>2. QED
      BY <3>1, <2>1
  <2>7. CASE LoginFails(c) \/ SocketError(c)
    <3>1. pc'[c] = "ended"
      BY <2>0, <2>7 DEF LoginFails, SocketError
    <3>2. QED
      BY <3>1, <2>2
  <2>8. Execute(c) => \/ Fresh(c) /\ SendSql(c, call[c] + 1, token[c]) /\ UNCHANGED epoch
                      \/ AskForToken(c, call[c] + 1)
    BY DEF Execute
  <2>9. QED
    BY <2>3, <2>4, <2>5, <2>6, <2>7, <2>8 DEF ShellStep
<1>4. QED
  BY <1>s, <1>2, <1>3 DEF DatesInv

LEMMA DatesStep ==
  ASSUME Types, Types', TokenInv, TokenInv', OnceInv, DatesInv, [ClientsNext]_allVars
  PROVE  DatesInv'
<1>0. StoreTypes /\ latest \in Nat /\ latest <= now
  BY DEF Types, TokenInv, TypeOK, DatesInv
\* Nothing of a shell changes, except that its exchange may break.
<1>1. ASSUME StoreAdvances,
             \A c \in Shells :
                 /\ pc'[c] = pc[c] /\ call'[c] = call[c] /\ token'[c] = token[c]
                 /\ expiresAt'[c] = expiresAt[c] /\ sentAt'[c] = sentAt[c]
                 /\ epoch'[c] = epoch[c]
                 /\ \A r \in requests' : r.by = c => r \in requests
                 /\ \/ reply'[c] = reply[c]
                    \/ pc[c] = "login" /\ reply'[c].status # 200
                    \/ pc[c] = "sql" /\ reply'[c].status # 401
      PROVE  DatesInv'
  BY <1>1, DatesUntouched DEF DatesInv, StoreAdvances
<1>2. CASE Environment \/ AllEnded \/ UNCHANGED allVars
  <2>1. UNCHANGED clientVars /\ StoreAdvances
    BY <1>0, <1>2, StoreGoesOn DEF Environment, AllEnded, allVars
  <2>2. QED
    BY <1>1, <2>1 DEF clientVars, shellVars
<1>3. ASSUME NEW b \in fleet, Break(b)
      PROVE  DatesInv'
  <2>1. StoreAdvances
    BY <1>0, <1>3, StoreGoesOn DEF Break
  <2>2. /\ UNCHANGED <<pc, call, requests, token, expiresAt, sentAt, epoch>>
        /\ \A c \in Callers : reply'[c] = reply[c] \/ (c = b /\ reply'[c].status = 0)
        /\ pc[b] \in {"login", "sql"}
    BY <1>3 DEF Break, Lost, shellVars, Types, ClientsTypeOK
  <2>3. QED
    BY <1>1, <2>1, <2>2 DEF Callers
<1>4. ASSUME NEW b \in Tasks, TaskStep(b)
      PROVE  DatesInv'
  <2>1. StoreAdvances
    BY <1>0, <1>4, StoreGoesOn
       DEF TaskStep, StartTask, TaskTokenArrives, TaskLoginFails, TaskEnds
  <2>2. \A c \in Shells :
            /\ pc'[c] = pc[c] /\ call'[c] = call[c] /\ reply'[c] = reply[c]
            /\ \A r \in requests' : r.by = c => r \in requests
    BY <1>4 DEF TaskStep, StartTask, TaskTokenArrives, TaskLoginFails, TaskEnds, Send, Finish,
       Types, ClientsTypeOK, Callers
  <2>3. UNCHANGED <<token, expiresAt, sentAt, epoch>>
    BY <1>4 DEF TaskStep, StartTask, TaskTokenArrives, TaskLoginFails, TaskEnds, shellVars
  <2>4. QED
    BY <1>1, <2>1, <2>2, <2>3
<1>5. QED
  BY <1>2, <1>3, <1>4, DatesServer, DatesShell DEF ClientsNext

\* A shell is refused only because the server was restarted, because its token
\* was evicted, or because messages were slower than the margin: for any number
\* of clients, any lifetime and any margin.
THEOREM RefusalsExplained == ClientsSpec => []RefusalExplained
<1>1. ClientsInit => DatesInv
  <2> SUFFICES ASSUME ClientsInit PROVE DatesInv
    OBVIOUS
  <2>1. \A c \in Shells : pc[c] = "start" /\ epoch[c] = 0
    BY DEF ClientsInit, Callers
  <2>2. now = 0 /\ latest = 0 /\ restarts = 0
    BY DEF ClientsInit, Init
  <2>3. QED
    BY <2>1, <2>2 DEF DatesInv, Dates
<1>2. Types /\ Types' /\ TokenInv /\ TokenInv' /\ OnceInv /\ DatesInv /\ [ClientsNext]_allVars
        => DatesInv'
  BY DatesStep
<1>3. DatesInv => RefusalExplained
  BY DEF DatesInv, Dates, Explained, RefusalExplained
<1>4. ClientsSpec => []TokenInv
  BY ClientsUseTokenStore, TokenInvAlways, PTL
<1>5. QED
  BY <1>1, <1>2, <1>3, <1>4, OnceInvAlways, PTL DEF ClientsSpec

=============================================================================
