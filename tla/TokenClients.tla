---------------------------- MODULE TokenClients ----------------------------
(***************************************************************************)
(* Clients that log in with a password and keep the token they got:        *)
(* the command `connect` (server/src/liquidstoolap_server.lpr), the        *)
(* asynchronous Python client (sdk/python/src/liquidstoolap/client.py) and *)
(* the Node-RED node (packages/node-red/liquid-stoolap.js), with the token *)
(* store of the server behind them.                                        *)
(*                                                                         *)
(* A shell (`connect`) is one thread with a token of its own; it renews a  *)
(* token that is about to expire and repeats a statement once after 401.   *)
(* The tasks of a Python client, or the messages of a Node-RED             *)
(* configuration node, run concurrently and share one token; they log in   *)
(* only when there is none, and never repeat anything.  A client that was  *)
(* given a static token does none of this and is left out.                 *)
(*                                                                         *)
(* Every caller awaits one HTTP exchange at a time.  An exchange can break *)
(* at any moment, by a timeout of the client or of the network; the server *)
(* may handle the request all the same, before or after.                   *)
(***************************************************************************)
EXTENDS TokenStore

CONSTANTS
    Shells,        \* the sessions of `connect`
    Tasks,         \* the calls of one Python client or of one Node-RED node
    RefreshMargin, \* the 60 seconds of EnsureCliAuthTokenFresh, in ticks
    Fleets,        \* the sets of callers to look at together
    MaxCalls,      \* bound: how many statements each caller executes
    None           \* no token, no reply, no exit code

ASSUME ClientsAssumption ==
    /\ Shells \cap Tasks = {}
    /\ Fleets \subseteq SUBSET (Shells \union Tasks)
    /\ RefreshMargin \in Nat
    /\ MaxCalls \in [Shells \union Tasks -> Nat]
    /\ None \notin Nat

Callers == Shells \union Tasks

VARIABLES
    fleet,     \* the callers that exist
    pc,        \* where a caller is
    call,      \* the number of its present or latest statement; 0 is the login
               \* of `connect` before the first one
    token,     \* Auth.Token of a shell; what the tasks share is sharedToken
    expiresAt, \* Auth.ExpiresAt
    rejected,  \* the token that was refused in this call, None before that
    sharedToken, \* self._token, server.token
    requests,  \* the requests on their way to the server
    reply,     \* the reply that awaits a caller
    exit,      \* the exit code of the latest statement of a shell
    executed,  \* history: the statements the server executed, as <<caller, call>>
    repeated,  \* history: those it executed more than once
    sentAt,    \* history: when a shell looked at its token for this request
    epoch,     \* history: the restarts of the server when it asked for the token
    logins,    \* history: how often the tasks asked for a token
    fruitless  \* history: how often they were left without one

shellVars == <<token, expiresAt, rejected, exit, sentAt, epoch>>
taskVars == <<sharedToken, logins, fruitless>>
outcome == <<executed, repeated>>
clientVars == <<fleet, pc, call, requests, reply, outcome, shellVars, taskVars>>
allVars == <<vars, clientVars>>

\* A reply that never comes: timeout, abort, connection lost.
Lost == [status |-> 0, token |-> 0, at |-> 0]

Replies == [status : {0, 200, 401, 422, 503, 504}, token : Nat, at : Nat]
Request == [by : Callers, call : Nat, kind : {"login", "sql"}, token : Nat]

ClientsInit ==
    /\ Init
    /\ fleet \in Fleets
    /\ pc = [c \in Callers |-> IF c \in Shells THEN "start" ELSE "idle"]
    /\ call = [c \in Callers |-> 0]
    /\ token = [c \in Shells |-> 0]
    /\ expiresAt = [c \in Shells |-> 0]
    /\ rejected = [c \in Shells |-> None]
    /\ sharedToken = None
    /\ requests = {}
    /\ reply = [c \in Callers |-> None]
    /\ exit = [c \in Shells |-> None]
    /\ executed = {} /\ repeated = {}
    /\ sentAt = [c \in Shells |-> 0]
    /\ epoch = [c \in Shells |-> 0]
    /\ logins = 0
    /\ fruitless = 0

\* c sends a request of statement n and waits for the reply.
Send(c, n, kind, t) ==
    /\ requests' = requests \union {[by |-> c, call |-> n, kind |-> kind, token |-> t]}
    /\ pc' = [pc EXCEPT ![c] = kind]
    /\ reply' = [reply EXCEPT ![c] = None]

\* c waits for nothing any more.  A shell keeps what it got, for the user.
Finish(c, where) ==
    /\ pc' = [pc EXCEPT ![c] = where]
    /\ reply' = [reply EXCEPT ![c] = IF c \in Shells THEN @ ELSE None]
    /\ UNCHANGED requests

Got(c, kind) == pc[c] = kind /\ reply[c] # None

-----------------------------------------------------------------------------
(* The server and the network.                                              *)

Waiting(r) == pc[r.by] = r.kind /\ call[r.by] = r.call /\ reply[r.by] = None

\* The server has handled r; a caller that has given up gets no reply.
Respond(r, status, t, at) ==
    /\ requests' = requests \ {r}
    /\ reply' = IF Waiting(r)
                THEN [reply EXCEPT ![r.by] = [status |-> status, token |-> t, at |-> at]]
                ELSE reply

\* POST /auth/token with the right password
HandleLogin(r) ==
    /\ r.kind = "login"
    /\ IssueToken
    /\ Respond(r, 200, minted', 0)
    /\ UNCHANGED <<fleet, pc, call, outcome, shellVars, taskVars>>

\* with a wrong one, or when the server is shutting down
HandleLoginFails(r) ==
    /\ r.kind = "login"
    /\ \E status \in {401, 503} : Respond(r, status, 0, 0)
    /\ UNCHANGED <<vars, fleet, pc, call, outcome, shellVars, taskVars>>

\* POST /sql: ValidateBearer, then the statement.  A 504 says nothing about
\* the effect of the statement (module SqlRequest).
HandleSql(r) ==
    /\ r.kind = "sql"
    /\ ValidateBearer(r.token)
    /\ \E status \in {200, 401, 422, 504}, done \in {{}, {<<r.by, r.call>>}} :
          /\ status = 401 <=> ~last'.ok
          /\ status = 200 => done # {}
          /\ status \in {401, 422} => done = {}
          /\ Respond(r, status, r.token, IF status = 401 THEN last'.at ELSE 0)
          /\ executed' = executed \union done
          /\ repeated' = repeated \union (executed \intersect done)
    /\ UNCHANGED <<fleet, pc, call, shellVars, taskVars>>

\* The exchange of c breaks.  Its request may still reach the server.
Break(c) ==
    /\ pc[c] \in {"login", "sql"}
    /\ reply[c] # Lost
    /\ reply' = [reply EXCEPT ![c] = Lost]
    /\ UNCHANGED <<vars, fleet, pc, call, requests, outcome, shellVars, taskVars>>

-----------------------------------------------------------------------------
(* connect: InitCliAuthState, ExecuteSqlForCliAuth, CliConnect.             *)

\* The exit code for the status of the last response.
ExitCode(status) ==
    CASE status >= 500 -> 4
      [] status = 401  -> 3
      [] status = 422  -> 5
      [] OTHER         -> 0

\* Exception of Pascal that nothing catches.
Unhandled == 217

AskForToken(c, n) ==
    /\ Send(c, n, "login", 0)
    /\ epoch' = [epoch EXCEPT ![c] = restarts]

SendSql(c, n, t) ==
    /\ Send(c, n, "sql", t)
    /\ sentAt' = [sentAt EXCEPT ![c] = now]

\* InitCliAuthState logs in before anything else.
Connect(c) ==
    /\ pc[c] = "start"
    /\ AskForToken(c, call[c])
    /\ UNCHANGED <<vars, fleet, call, outcome, token, expiresAt, rejected, exit, sentAt, taskVars>>

\* Mutant: a token is used up to its last moment.
FreshToTheEnd(c) == now < expiresAt[c]

\* EnsureCliAuthTokenFresh
Fresh(c) == now + RefreshMargin < expiresAt[c]

\* ExecuteSqlForCliAuth begins with a token or with a refresh.
Execute(c) ==
    /\ pc[c] = "idle"
    /\ c \in Shells
    /\ call[c] < MaxCalls[c]
    /\ call' = [call EXCEPT ![c] = @ + 1]
    /\ exit' = [exit EXCEPT ![c] = None]
    /\ rejected' = [rejected EXCEPT ![c] = None]
    /\ \/ Fresh(c) /\ SendSql(c, call[c] + 1, token[c]) /\ UNCHANGED epoch
       \/ ~Fresh(c) /\ AskForToken(c, call[c] + 1) /\ UNCHANGED sentAt
    /\ UNCHANGED <<vars, fleet, outcome, token, expiresAt, taskVars>>

\* IssueTokenWithPassword returns; the statement is sent, or sent again.
TokenArrives(c) ==
    /\ c \in Shells
    /\ Got(c, "login") /\ reply[c].status = 200
    /\ token' = [token EXCEPT ![c] = reply[c].token]
    /\ expiresAt' = [expiresAt EXCEPT ![c] = now + TokenTtl]
    /\ IF call[c] = 0
       THEN Finish(c, "idle") /\ UNCHANGED sentAt
       ELSE SendSql(c, call[c], reply[c].token)
    /\ UNCHANGED <<vars, fleet, call, outcome, rejected, exit, epoch, taskVars>>

\* IssueTokenWithPassword raises: CliConnect catches it the first time only.
LoginFails(c) ==
    /\ c \in Shells
    /\ Got(c, "login") /\ reply[c].status # 200
    /\ exit' = [exit EXCEPT ![c] = IF call[c] = 0 THEN 3 ELSE Unhandled]
    /\ Finish(c, "ended")
    /\ UNCHANGED <<vars, fleet, call, outcome, token, expiresAt, rejected, sentAt, epoch, taskVars>>

\* Mutant: whatever the error, the statement is sent once more.
RetriesEveryError(c) ==
    rejected[c] = None /\ reply[c].status >= 400

\* 401 and invalid_token, and it is the first time
Retries(c) ==
    rejected[c] = None /\ reply[c].status = 401

Refresh(c) ==
    /\ c \in Shells
    /\ Got(c, "sql")
    /\ Retries(c)
    /\ rejected' = [rejected EXCEPT ![c] = reply[c].token]
    /\ AskForToken(c, call[c])
    /\ UNCHANGED <<vars, fleet, call, outcome, token, expiresAt, exit, sentAt, taskVars>>

\* The response is printed.  HttpPostJson turns an EHTTPClient into a response
\* without a status.
PrintResponse(c) ==
    /\ c \in Shells
    /\ Got(c, "sql")
    /\ ~Retries(c)
    /\ exit' = [exit EXCEPT ![c] = ExitCode(reply[c].status)]
    /\ Finish(c, "idle")
    /\ UNCHANGED <<vars, fleet, call, outcome, token, expiresAt, rejected, sentAt, epoch, taskVars>>

\* ESocketError, which is no EHTTPClient
SocketError(c) ==
    /\ c \in Shells
    /\ Got(c, "sql") /\ reply[c] = Lost
    /\ exit' = [exit EXCEPT ![c] = Unhandled]
    /\ Finish(c, "ended")
    /\ UNCHANGED <<vars, fleet, call, outcome, token, expiresAt, rejected, sentAt, epoch, taskVars>>

-----------------------------------------------------------------------------
(* raw_execute of the Python clients, callSql of the Node-RED node.         *)

\* Mutants: every call logs in; the test is the wrong way round.
NeedsLoginAlways == TRUE
NeedsLoginInverted == sharedToken # None

\* _ensure_authenticated, getAuthorization
NeedsLogin == sharedToken = None

StartTask(c) ==
    /\ c \in Tasks
    /\ pc[c] = "idle"
    /\ call[c] < MaxCalls[c]
    /\ call' = [call EXCEPT ![c] = @ + 1]
    /\ \/ /\ NeedsLogin
          /\ Send(c, call[c] + 1, "login", 0)
          /\ logins' = logins + 1
       \/ /\ ~NeedsLogin
          /\ Send(c, call[c] + 1, "sql", sharedToken)
          /\ UNCHANGED logins
    /\ UNCHANGED <<vars, fleet, outcome, shellVars, sharedToken, fruitless>>

\* The await returns: the token is assigned, over whatever is there by now.
\* In the Node-RED node the timer of callSql may have fired meanwhile, and
\* fetch then sends nothing.
TaskTokenArrives(c) ==
    /\ c \in Tasks
    /\ Got(c, "login") /\ reply[c].status = 200
    /\ sharedToken' = reply[c].token
    /\ \/ Send(c, call[c], "sql", reply[c].token)
       \/ Finish(c, "idle")
    /\ UNCHANGED <<vars, fleet, call, outcome, shellVars, logins, fruitless>>

TaskLoginFails(c) ==
    /\ c \in Tasks
    /\ Got(c, "login") /\ reply[c].status # 200
    /\ fruitless' = fruitless + 1
    /\ Finish(c, "idle")
    /\ UNCHANGED <<vars, fleet, call, outcome, shellVars, sharedToken, logins>>

\* A result or an error, 401 included: the token is kept.
TaskEnds(c) ==
    /\ c \in Tasks
    /\ Got(c, "sql")
    /\ Finish(c, "idle")
    /\ UNCHANGED <<vars, fleet, call, outcome, shellVars, taskVars>>

-----------------------------------------------------------------------------

ServerStep ==
    \E r \in requests : HandleLogin(r) \/ HandleLoginFails(r) \/ HandleSql(r)

ShellStep(c) ==
    \/ Connect(c)  \/ Execute(c) \/ TokenArrives(c)  \/ LoginFails(c)
    \/ Refresh(c)  \/ PrintResponse(c) \/ SocketError(c)

TaskStep(c) ==
    StartTask(c) \/ TaskTokenArrives(c) \/ TaskLoginFails(c) \/ TaskEnds(c)

\* Time, restarts and the logins of other clients; the wall clock is not set
\* back here.
Environment == (Tick \/ Restart \/ IssueToken) /\ UNCHANGED clientVars

AllEnded ==
    /\ \A c \in fleet : pc[c] \in {"idle", "ended"}
    /\ UNCHANGED allVars

ClientsNext ==
    \/ ServerStep
    \/ \E c \in fleet : Break(c)
    \/ \E c \in fleet \cap Shells : ShellStep(c)
    \/ \E c \in fleet \cap Tasks : TaskStep(c)
    \/ Environment
    \/ AllEnded

ClientsSpec == ClientsInit /\ [][ClientsNext]_allVars

-----------------------------------------------------------------------------
(* Properties.                                                              *)

ClientsTypeOK ==
    /\ fleet \subseteq Callers
    /\ pc \in [Callers -> {"start", "idle", "login", "sql", "ended"}]
    /\ call \in [Callers -> Nat]
    /\ executed \subseteq Callers \X Nat
    /\ token \in [Shells -> Nat] /\ expiresAt \in [Shells -> Nat]
    /\ rejected \in [Shells -> Nat \union {None}]
    /\ sharedToken \in Nat \union {None}
    /\ requests \subseteq Request
    /\ reply \in [Callers -> Replies \union {None}]
    /\ exit \in [Shells -> {None, 0, 3, 4, 5, Unhandled}]
    /\ sentAt \in [Shells -> Nat] /\ epoch \in [Shells -> Nat]
    /\ logins \in Nat /\ fruitless \in Nat

\* A statement that is given to a client once is executed at most once, also
\* by a shell that repeats it after a 401, whatever breaks or is late.
ExecutedOnce == repeated = {}

Evicted(e) == Cardinality(Newer(e)) >= MaxIssuedTokens
IssuedAt(e) == e.expires - TokenTtl
ReceivedAt(c) == expiresAt[c] - TokenTtl
Smaller(a, b) == IF a < b THEN a ELSE b

\* Time between issue and receipt of the token, and between the decision to
\* use it and the check by the server.
Delay(c, e) == (ReceivedAt(c) - IssuedAt(e)) + (reply[c].at - sentAt[c])

\* docs/user-guide.md:300: connect "refreshes issued bearer tokens
\* automatically before expiry".  So a shell is refused only when the server
\* was restarted since the shell asked for its token, when the token was
\* evicted, or when the messages were slower than the margin allows.
RefusalExplained ==
    \A c \in Shells :
        pc[c] = "sql" /\ reply[c] # None /\ reply[c].status = 401 =>
            \/ restarts > epoch[c]
            \/ \E e \in ledger :
                  /\ e.token = reply[c].token
                  /\ \/ Evicted(e)
                     \/ Delay(c, e) > Smaller(RefreshMargin + 1, TokenTtl)

\* The test, the await and the assignment are not atomic, so that concurrent
\* tasks may each take a token, and evict the tokens of others.  They take at
\* most one each, plus one for every attempt that failed.
LoginsBounded == logins <= Cardinality(Tasks) + fruitless

=============================================================================
