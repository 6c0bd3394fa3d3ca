---------------------------- MODULE PythonClient ----------------------------
(***************************************************************************)
(* One client object of the Python SDK and the calls of a program on it:   *)
(* sdk/python/src/liquidstoolap/client.py.  The asynchronous class is      *)
(* modelled; the methods of the synchronous one are the same without       *)
(* `await`, so that its behaviours are those in which no call begins while *)
(* another one lasts.                                                      *)
(*                                                                         *)
(* A call runs without interruption from one `await` of an HTTP exchange   *)
(* to the next.  While it waits, others run: they log in, set the token or *)
(* close the client.  An exchange can break at any moment, and a call can  *)
(* be cancelled; the server may handle the request all the same.           *)
(*                                                                         *)
(* The server is what TokenStore and SqlRequest say of it, reduced to what *)
(* a client can see.  Between the two there may be a gateway (docs/SRS.md  *)
(* :108 demands one), whose answers are no JSON.                           *)
(***************************************************************************)
EXTENDS ResultSets

CONSTANTS
    Calls,        \* the calls of the program
    Menu,         \* what each call may be, a set of Invocation
    Openings,     \* what the program may give to the constructor
    Answers,      \* what the database may have to say to a query
    None,         \* Python's None; no reply, no outcome
    GivenToken    \* the token, a static one, that the program has of its own

VARIABLES
    auto,       \* self._auto_authenticate
    username,   \* self._username
    password,   \* self._password
    token,      \* self._token
    header,     \* the token in self._client.headers["Authorization"]
    closed,     \* self._client is closed
    pc,         \* where a call is: idle, at an exchange, done
    call,       \* its method and arguments
    reply,      \* the answer that awaits it
    outcome,    \* what it returned or raised
    requests,   \* the requests on their way
    issuing,    \* the server issues tokens
    minted,     \* the tokens issued so far are 1 .. minted
    valid,      \* those the server still accepts
    executed,   \* history: how often the statement of a call was executed
    produced,   \* history: what the database had to say to a query
    newest,     \* history: the newest token a login has brought
    known,      \* history: what newest was when a call sent its login
    before,     \* history: known of the login that arrived last
    bare        \* history: the calls that sent a statement without a token
                \* although the client could have logged in

settings == <<auto, username, password>>
client == <<settings, token, header, closed>>
progress == <<pc, call, reply, outcome>>
server == <<issuing, minted, valid>>
effects == <<executed, produced>>
history == <<newest, known, before, bare>>
vars == <<client, progress, requests, server, effects, history>>

ResultSetMethods == {"query", "fetch_all", "fetch_one", "scalar"}
SqlMethods == ResultSetMethods \union {"execute", "raw_execute", "command"}
Methods == SqlMethods \union {"login", "authenticate", "health"}

\* What the server makes of a text (IsQuerySql; a WITH may write or not).
Statements == {"read", "with", "command"}

\* What is wrong with the arguments of a statement: they cannot be written as
\* JSON, the server refuses the body or a field of it, or the text.
Faults == {"unencodable", "body", "sql"}

Credentials == {None, "right", "wrong"}

Invocation ==
    [method : SqlMethods, statement : Statements, fault : Faults \union {None}]
    \union [method : {"login"}, username : Credentials, password : Credentials]
    \union [method : {"authenticate"}, username : {"right", "wrong"}, password : {"right", "wrong"}]
    \union [method : {"health"}]

\* The arguments of the constructor, `given` being the token in a header of the
\* program's own, and whether the server issues tokens ([auth] issue_tokens).
Opening ==
    [auto : BOOLEAN, username : Credentials, password : Credentials,
     token : {None, GivenToken}, given : {None, GivenToken}, issuing : BOOLEAN]

ASSUME ClientAssumption ==
    /\ Menu \in [Calls -> SUBSET Invocation]
    /\ Openings \subseteq Opening
    /\ GivenToken \notin Nat
    /\ None \notin Nat \union {GivenToken} \union Invocation

ASSUME AnswersAssumption == \A a \in Answers : IsAnswer(a)

Complete(u, p) == u # None /\ p # None

-----------------------------------------------------------------------------
(* The constructor, set_token, aclose.                                      *)

\* __init__: a token goes into the header, in the place of what is there.
Init ==
    /\ \E o \in Openings :
          /\ auto = o.auto
          /\ username = o.username /\ password = o.password
          /\ token = o.token
          /\ header = IF o.token = None THEN o.given ELSE o.token
          /\ issuing = o.issuing
    /\ closed = FALSE
    /\ pc = [c \in Calls |-> "idle"]
    /\ call = [c \in Calls |-> None]
    /\ reply = [c \in Calls |-> None]
    /\ outcome = [c \in Calls |-> None]
    /\ requests = {}
    /\ minted = 0 /\ valid = {}
    /\ executed = [c \in Calls |-> 0]
    /\ produced = [c \in Calls |-> None]
    /\ newest = 0 /\ known = [c \in Calls |-> 0] /\ before = 0 /\ bare = {}

\* Mutants: the header keeps the old token; a token that is there stays.
SetTokenOnly(t) == token' = t /\ UNCHANGED header
SetTokenOnce(t) ==
    /\ token' = IF token = None THEN t ELSE token
    /\ header' = IF token = None THEN t ELSE header

set_token(t) ==
    /\ token' = t
    /\ header' = t

\* The program sets or removes the token, whatever else is under way.
SetToken ==
    /\ \E t \in {None, GivenToken} : t # token /\ set_token(t)
    /\ UNCHANGED <<settings, closed, progress, requests, server, effects, history>>

aclose ==
    /\ ~closed
    /\ closed' = TRUE
    /\ UNCHANGED <<settings, token, header, progress, requests, server, effects, history>>

-----------------------------------------------------------------------------
(* How a call ends.                                                         *)

\* exceptions.py.  A TimeoutError is a TransportError as well.
SdkErrors ==
    {"LiquidStoolapError", "TransportError", "TimeoutError", "AuthenticationError",
     "AuthorizationError", "ValidationError", "QueryError", "ServerError"}

\* What escapes the SDK as it is: a closed client, arguments that are no JSON,
\* an answer that is no JSON, the end of the task.
ForeignErrors == {"RuntimeError", "TypeError", "JSONDecodeError", "CancelledError"}

\* error.code of an answer (lserrors.pas)
ErrorCodes ==
    {"invalid_json", "invalid_request", "invalid_sql", "multi_statement_not_allowed",
     "invalid_token", "insufficient_scope", "auth_disabled", "sql_error",
     "backend_unavailable", "backend_timeout", "internal_error"}

ASSUME NoneAssumption ==
    None \notin {"right", "wrong"} \union SdkErrors \union ForeignErrors \union ErrorCodes

Returned(v) == [error |-> None, code |-> None, status_code |-> None, value |-> v]

Raised(e, code, status) == [error |-> e, code |-> code, status_code |-> status, value |-> Null]

End(c, o) ==
    /\ pc' = [pc EXCEPT ![c] = "done"]
    /\ reply' = [reply EXCEPT ![c] = None]
    /\ outcome' = [outcome EXCEPT ![c] = o]

\* c ends without an exchange.
EndAtOnce(c, o) == End(c, o) /\ UNCHANGED <<requests, known, bare>>

\* Mutant: every status of the backend is an error of the query.
ApiErrorByBackend(status, code) ==
    IF code \in {"sql_error", "backend_timeout"} THEN "QueryError"
    ELSE IF status = 401 THEN "AuthenticationError"
    ELSE IF status = 403 THEN "AuthorizationError"
    ELSE IF status \in {400, 422} THEN "ValidationError"
    ELSE IF status >= 500 THEN "ServerError" ELSE "LiquidStoolapError"

\* _raise_api_error
ApiError(status, code) ==
    CASE status = 401         -> "AuthenticationError"
      [] status = 403         -> "AuthorizationError"
      [] status \in {400, 422} -> IF code = "sql_error" THEN "QueryError" ELSE "ValidationError"
      [] status >= 500        -> "ServerError"
      [] OTHER                -> "LiquidStoolapError"

-----------------------------------------------------------------------------
(* Exchanges.                                                               *)

\* self._client.request up to the first suspension.  The body is encoded and
\* the header read now; a closed client refuses to send.
Send(c, kind, h, good) ==
    IF closed
    THEN EndAtOnce(c, Raised("RuntimeError", None, None))
    ELSE /\ requests' = requests \union {[by |-> c, kind |-> kind, token |-> h, good |-> good]}
         /\ pc' = [pc EXCEPT ![c] = kind]
         /\ reply' = [reply EXCEPT ![c] = None]
         /\ known' = IF kind = "login" THEN [known EXCEPT ![c] = newest] ELSE known
         /\ bare' = IF kind = "sql" /\ h = None /\ auto /\ Complete(username, password)
                    THEN bare \union {c} ELSE bare
         /\ UNCHANGED outcome

\* raw_execute after _ensure_authenticated; h is the header by now
SendStatement(c, arguments, h) ==
    IF arguments.fault = "unencodable"
    THEN EndAtOnce(c, Raised("TypeError", None, None))
    ELSE Send(c, "sql", h, TRUE)

\* POST /auth/token
SendLogin(c, u, p) == Send(c, "login", header, u = "right" /\ p = "right")

\* Mutant: the flag is read the wrong way round.
NeedsLoginReversed == token = None /\ ~auto /\ Complete(username, password)

\* _ensure_authenticated
NeedsLogin == token = None /\ auto /\ Complete(username, password)

Begin(c, i) ==
    /\ pc[c] = "idle"
    /\ i \in Menu[c]
    /\ call' = [call EXCEPT ![c] = i]

\* execute, query, command, fetch_all, fetch_one, scalar: all call raw_execute.
BeginStatement(c) ==
    /\ \E i \in Menu[c] :
          /\ i.method \in SqlMethods
          /\ Begin(c, i)
          /\ IF NeedsLogin THEN SendLogin(c, username, password)
                           ELSE SendStatement(c, i, header)
    /\ UNCHANGED <<client, server, effects, newest, before>>

Default(argument, stored) == IF argument = None THEN stored ELSE argument

\* The arguments replace what is stored before anything is asked.
login(c) ==
    /\ \E i \in Menu[c] :
          /\ i.method = "login"
          /\ Begin(c, i)
          /\ username' = Default(i.username, username)
          /\ password' = Default(i.password, password)
          /\ IF Complete(username', password')
             THEN SendLogin(c, username', password')
             ELSE EndAtOnce(c, Raised("AuthenticationError", None, None))
    /\ UNCHANGED <<auto, token, header, closed, server, effects, newest, before>>

authenticate(c) ==
    /\ \E i \in Menu[c] :
          /\ i.method = "authenticate"
          /\ Begin(c, i)
          /\ SendLogin(c, i.username, i.password)
    /\ UNCHANGED <<client, server, effects, newest, before>>

health(c) ==
    /\ \E i \in Menu[c] :
          /\ i.method = "health"
          /\ Begin(c, i)
          /\ Send(c, "health", header, TRUE)
    /\ UNCHANGED <<client, server, effects, newest, before>>

Awaiting(c) == pc[c] \in {"login", "sql", "health"}

\* Mutant: the request is repeated.
ExchangeBreaksRepeats(c) ==
    /\ Awaiting(c)
    /\ Send(c, pc[c], header, TRUE)
    /\ UNCHANGED <<client, call, server, effects, newest, before>>

\* httpx.TimeoutException, any other httpx.HTTPError.  The request is on its
\* way all the same.
ExchangeBreaks(c) ==
    /\ Awaiting(c)
    /\ \E e \in {"TimeoutError", "TransportError"} : End(c, Raised(e, None, None))
    /\ UNCHANGED <<client, call, requests, server, effects, history>>

\* The task of the call is cancelled while it waits.
Cancel(c) ==
    /\ Awaiting(c)
    /\ End(c, Raised("CancelledError", None, None))
    /\ UNCHANGED <<client, call, requests, server, effects, history>>

\* status_code >= 400, whichever exchange it was
ErrorArrives(c) ==
    /\ Awaiting(c) /\ reply[c] # None
    /\ reply[c].status >= 400
    /\ End(c, Raised(ApiError(reply[c].status, reply[c].code), reply[c].code, reply[c].status))
    /\ UNCHANGED <<client, call, requests, server, effects, history>>

\* A redirection, which httpx does not follow: response.json() fails.
NoJsonArrives(c) ==
    /\ Awaiting(c) /\ reply[c] # None
    /\ reply[c].status < 400 /\ ~reply[c].json
    /\ End(c, Raised("JSONDecodeError", None, None))
    /\ UNCHANGED <<client, call, requests, server, effects, history>>

Arrived(c, kind) ==
    /\ pc[c] = kind /\ reply[c] # None
    /\ reply[c].status < 400 /\ reply[c].json

\* authenticate after its exchange: the token is kept.  A call that only
\* wanted to execute something goes on with the header of now.
LoginArrives(c) ==
    /\ Arrived(c, "login")
    /\ set_token(reply[c].token)
    /\ newest' = IF reply[c].token > newest THEN reply[c].token ELSE newest
    /\ before' = known[c]
    /\ IF call[c].method \in SqlMethods
       THEN SendStatement(c, call[c], header')
       ELSE EndAtOnce(c, Returned(reply[c].token))
    /\ UNCHANGED <<settings, closed, call, server, effects>>

HealthArrives(c) ==
    /\ Arrived(c, "health")
    /\ End(c, Returned(Null))
    /\ UNCHANGED <<client, call, requests, server, effects, history>>

-----------------------------------------------------------------------------
(* What the methods make of a payload.                                      *)

execute(payload) == Returned(parse_result(payload))

query(payload) ==
    IF payload.kind = "result_set" THEN execute(payload) ELSE Raised("QueryError", None, None)

command(payload) ==
    IF payload.kind = "command" THEN execute(payload) ELSE Raised("QueryError", None, None)

\* The three helpers take the result of query apart.
Helper(method, result) ==
    CASE method = "fetch_all" -> as_dicts(result)
      [] method = "fetch_one" -> first(result)
      [] method = "scalar"    -> scalar(result)

fetch(method, payload) ==
    IF payload.kind = "result_set" THEN Returned(Helper(method, parse_result(payload)))
    ELSE query(payload)

Conclude(method, payload) ==
    CASE method \in {"execute", "raw_execute"} -> execute(payload)
      [] method = "query"                      -> query(payload)
      [] method = "command"                    -> command(payload)
      [] OTHER                                 -> fetch(method, payload)

\* What the server sends to a statement that was executed
Payloads == {RowsToJson(answer) : answer \in Answers} \union {CommandToJson(1)}

\* None stands for a call that has not ended: it is nothing a call ends with.
ASSUME OutcomeAssumption ==
    /\ None \notin [error : SdkErrors \union ForeignErrors, code : ErrorCodes \union {None},
                    status_code : Nat \union {None}, value : {Null}]
    /\ None \notin [error : {None}, code : {None}, status_code : {None}, value : Nat \union {Null}]
    /\ \A method \in SqlMethods, payload \in Payloads : Conclude(method, payload) # None

ResultArrives(c) ==
    /\ Arrived(c, "sql")
    /\ End(c, Conclude(call[c].method, reply[c].payload))
    /\ UNCHANGED <<client, call, requests, server, effects, history>>

-----------------------------------------------------------------------------
(* The server and the gateway, as far as a client can see them.             *)

Answer(status, code) ==
    [status |-> status, code |-> code, json |-> TRUE, token |-> 0, payload |-> Null]
TokenAnswer(t) ==
    [status |-> 200, code |-> None, json |-> TRUE, token |-> t, payload |-> Null]
SqlAnswer(payload) ==
    [status |-> 200, code |-> None, json |-> TRUE, token |-> 0, payload |-> payload]
NoJson(status) ==
    [status |-> status, code |-> None, json |-> FALSE, token |-> 0, payload |-> Null]

\* r is handled.  A call that waits for something else, or for nothing, gets
\* no answer.
Respond(r, a) ==
    /\ requests' = requests \ {r}
    /\ reply' = IF pc[r.by] = r.kind /\ reply[r.by] = None
                THEN [reply EXCEPT ![r.by] = a] ELSE reply

Authorized(r) == r.token = GivenToken \/ r.token \in valid

\* The server refuses r as it is: too many requests, not ready, or a path
\* that does not exist; the gateway does not reach the server or redirects.
Turn(r) ==
    /\ \E a \in {Answer(503, "backend_unavailable"), Answer(404, "invalid_request"),
                 NoJson(502), NoJson(308)} : Respond(r, a)
    /\ UNCHANGED <<client, pc, call, outcome, server, effects, history>>

IssueToken(r) ==
    /\ r.kind = "login" /\ r.good /\ issuing
    /\ minted' = minted + 1
    /\ valid' = valid \union {minted'}
    /\ Respond(r, TokenAnswer(minted'))
    /\ UNCHANGED <<client, pc, call, outcome, issuing, effects, history>>

RefuseLogin(r) ==
    /\ r.kind = "login" /\ ~(r.good /\ issuing)
    /\ Respond(r, IF issuing THEN Answer(401, "invalid_token") ELSE Answer(403, "auth_disabled"))
    /\ UNCHANGED <<client, pc, call, outcome, server, effects, history>>

\* 503 without an error in the body when the server is not ready; 401 only with
\* health_requires_auth
WriteHealth(r) ==
    /\ r.kind = "health"
    /\ \/ \E a \in {Answer(200, None), Answer(503, None)} : Respond(r, a)
       \/ ~Authorized(r) /\ Respond(r, Answer(401, "invalid_token"))
    /\ UNCHANGED <<client, pc, call, outcome, server, effects, history>>

RefuseToken(r) ==
    /\ r.kind = "sql" /\ ~Authorized(r)
    /\ Respond(r, Answer(401, "invalid_token"))
    /\ UNCHANGED <<client, pc, call, outcome, server, effects, history>>

RefuseRequest(r) ==
    /\ r.kind = "sql" /\ Authorized(r)
    /\ call[r.by].fault # None
    /\ Respond(r, IF call[r.by].fault = "body" THEN Answer(400, "invalid_request")
                                               ELSE Answer(422, "invalid_sql"))
    /\ UNCHANGED <<client, pc, call, outcome, server, effects, history>>

LateErrors == {Answer(504, "backend_timeout"), Answer(500, "internal_error"), NoJson(502)}

\* A command is executed; the answer may be an error all the same (SqlRequest).
ExecuteCommand(r) ==
    /\ r.kind = "sql" /\ Authorized(r)
    /\ call[r.by].fault = None /\ call[r.by].statement = "command"
    /\ executed' = [executed EXCEPT ![r.by] = @ + 1]
    /\ \E a \in {SqlAnswer(CommandToJson(1))} \union LateErrors :
          Respond(r, a)
    /\ UNCHANGED <<client, pc, call, outcome, server, produced, history>>

\* A query is executed; reading its rows may fail.
ExecuteQuery(r) ==
    /\ r.kind = "sql" /\ Authorized(r)
    /\ call[r.by].fault = None /\ call[r.by].statement # "command"
    /\ executed' = [executed EXCEPT ![r.by] = @ + 1]
    /\ \/ \E answer \in Answers :
             /\ produced' = [produced EXCEPT ![r.by] = answer]
             /\ Respond(r, SqlAnswer(RowsToJson(answer)))
       \/ \E a \in {Answer(422, "sql_error")} \union LateErrors :
             /\ Respond(r, a)
             /\ UNCHANGED produced
    /\ UNCHANGED <<client, pc, call, outcome, server, history>>

StatementFails(r) ==
    /\ r.kind = "sql" /\ Authorized(r)
    /\ call[r.by].fault = None
    /\ \E a \in {Answer(422, "sql_error"), Answer(504, "backend_timeout"),
                 Answer(500, "internal_error")} : Respond(r, a)
    /\ UNCHANGED <<client, pc, call, outcome, server, effects, history>>

\* A token expires, is evicted, or is lost with a restart.
Revoke ==
    /\ \E t \in valid : valid' = valid \ {t}
    /\ UNCHANGED <<client, progress, requests, issuing, minted, effects, history>>

Finished == (\A c \in Calls : pc[c] = "done") /\ UNCHANGED vars

CallStep(c) ==
    \/ BeginStatement(c) \/ login(c)         \/ authenticate(c)  \/ health(c)
    \/ ExchangeBreaks(c) \/ Cancel(c)        \/ ErrorArrives(c)  \/ NoJsonArrives(c)
    \/ LoginArrives(c)   \/ HealthArrives(c) \/ ResultArrives(c)

Handle(r) ==
    \/ Turn(r)        \/ IssueToken(r)    \/ RefuseLogin(r)    \/ WriteHealth(r)
    \/ RefuseToken(r) \/ RefuseRequest(r) \/ ExecuteCommand(r) \/ ExecuteQuery(r)
    \/ StatementFails(r)

Next ==
    \/ \E c \in Calls : CallStep(c)
    \/ \E r \in requests : Handle(r)
    \/ SetToken \/ aclose \/ Revoke \/ Finished

Spec == Init /\ [][Next]_vars

-----------------------------------------------------------------------------
(* Properties.                                                              *)

Places == {"idle", "login", "sql", "health", "done"}
Tokens == Nat \union {None, GivenToken}

TypeOK ==
    /\ auto \in BOOLEAN /\ closed \in BOOLEAN /\ issuing \in BOOLEAN
    /\ username \in Credentials /\ password \in Credentials
    /\ token \in Tokens /\ header \in Tokens
    /\ token # None => header = token
    /\ pc \in [Calls -> Places]
    /\ \A c \in Calls :
          /\ IF pc[c] = "idle" THEN call[c] = None ELSE call[c] \in Menu[c]
          /\ outcome[c] # None <=> pc[c] = "done"
          /\ reply[c] # None => Awaiting(c)
          /\ outcome[c] # None => outcome[c].error \in SdkErrors \union ForeignErrors \union {None}
    /\ requests \subseteq [by : Calls, kind : {"login", "sql", "health"}, token : Tokens, good : BOOLEAN]
    /\ minted \in Nat /\ valid \subseteq 1 .. minted
    /\ executed \in [Calls -> Nat]
    /\ newest \in 0 .. minted
    /\ known \in [Calls -> 0 .. newest] /\ before \in 0 .. newest

IsStatement(c) == call[c] # None /\ call[c].method \in SqlMethods

\* What the end of a call tells of its statement.  A QueryError without a
\* status is raised by query and command themselves, after the statement was
\* executed.  A failed query has no definite meaning: it may have written
\* before its rows could not be read.
Unexecuted(c) ==
    \/ outcome[c].error \in {"AuthenticationError", "AuthorizationError", "ValidationError",
                             "LiquidStoolapError", "RuntimeError", "TypeError"}
    \/ outcome[c].error = "QueryError" /\ outcome[c].status_code # None
                                       /\ call[c].statement = "command"
    \/ outcome[c].error = "ServerError" /\ outcome[c].code = "backend_unavailable"

Executed(c) ==
    \/ outcome[c].error = None
    \/ outcome[c].error = "QueryError" /\ outcome[c].status_code = None

\* A call that returned, or complains of the kind of the result, was executed;
\* one that ended with any other 4xx exception, or 503 by the server itself,
\* was not and is not executed later.
OutcomeTellsEffect ==
    \A c \in Calls : IsStatement(c) /\ pc[c] = "done" =>
        /\ Executed(c) => executed[c] = 1
        /\ Unexecuted(c) => /\ executed[c] = 0
                            /\ \A r \in requests : ~(r.by = c /\ r.kind = "sql")

StageOf(c) ==
    IF ~IsStatement(c) THEN "new"
    ELSE IF pc[c] # "done" THEN "pending"
    ELSE IF Executed(c) THEN "succeeded"
    ELSE IF Unexecuted(c) THEN "refused" ELSE "open"

Promise == INSTANCE StatementCalls WITH stage <- [c \in Calls |-> StageOf(c)]

\* The client keeps the promise: no statement is executed twice, or after a
\* call of which the program knows the end.
KeepsPromise == Promise!Spec

\* With credentials and auto_authenticate no statement is ever sent without a
\* token, whatever other calls do to the token and to the credentials.
NoBareStatement == bare = {}

\* A login always renews: the token of the login that was answered last is newer
\* than every token the client had got when that login was sent, however logins
\* overlap and in whichever order they are answered: login() replaces a
\* token that was refused before.  One that another login has brought meanwhile
\* may be newer all the same, and is lost.
LoginRenews == token \in Nat => token > before

\* The rows a program gets are the first rows of the answer, in order, and as many
\* as max_result_rows allows; execute and query say when there were more, the
\* fetch methods do not.  Each value is found under its name, of several
\* columns with one name that of the last one.
RowsFaithful ==
    \A c \in Calls : produced[c] # None /\ pc[c] = "done" /\ outcome[c].error = None =>
        LET answer == produced[c]
            sent   == IF Len(answer.rows) > MaxRows THEN MaxRows ELSE Len(answer.rows)
            v      == outcome[c].value
            m      == call[c].method
            Named(dict, row) ==
                /\ DOMAIN dict = {answer.columns[j] : j \in DOMAIN answer.columns}
                /\ \A j \in DOMAIN answer.columns :
                      (\A k \in DOMAIN answer.columns : answer.columns[k] = answer.columns[j] => k <= j)
                      => dict[answer.columns[j]] = row[j]
        IN  /\ m \in {"execute", "raw_execute", "query"} =>
                  /\ LengthOf(v) = sent /\ Len(as_tuples(v)) = sent
                  /\ \A i \in 1 .. sent : as_tuples(v)[i] = answer.rows[i]
                  /\ v.truncated <=> sent < Len(answer.rows)
            /\ m = "fetch_all" =>
                  /\ Len(v) = sent
                  /\ \A i \in 1 .. sent : Named(v[i], answer.rows[i])
            /\ m = "fetch_one" =>
                  IF answer.rows = <<>> THEN v = Null ELSE Named(v, answer.rows[1])
            /\ m = "scalar" =>
                  v = IF answer.rows = <<>> THEN Null ELSE answer.rows[1][1]

=============================================================================
