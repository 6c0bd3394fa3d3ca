------------------------------ MODULE SqlRequest ------------------------------
(***************************************************************************)
(* One POST /sql from its arrival to its status code: WriteSql of          *)
(* lshttpserver.pas and ExecuteJson of lsstoolapadapter.pas (both in       *)
(* server/src/liquidstoolap_server).                                       *)
(*                                                                         *)
(* The subject is time: how timeout_ms is chosen, how the wait for a       *)
(* handle is deducted from it, which calls into Stoolap carry what is      *)
(* left, and what the status code says about the effect of the statement.  *)
(* Other requests are reduced to a handle that is free at some moment or   *)
(* is not; HandlePool has the competition for it.                          *)
(*                                                                         *)
(* The code measures time with Now, the local wall clock, which can be     *)
(* set.  `time` is what really elapses; `wall` is what Now returns.  No    *)
(* time passes between two steps of the code that do not wait for          *)
(* anything: the moments at which a Tick matters have a step of their own. *)
(***************************************************************************)
EXTENDS Integers

CONSTANTS
    BusyTimeoutMs,    \* [stoolap] busy_timeout_ms
    MaxSqlTimeoutMs,  \* [timeouts] max_sql_timeout_ms
    AskedTimeouts,    \* the values of timeout_ms in requests
    None,             \* "not in the request", "not yet", "no limit"
    MaxTime,          \* bound: the time a behaviour lasts
    MaxShifts         \* bound: how often the wall clock is set

\* LoadConfig refuses other limits.
ASSUME SqlAssumption ==
    /\ BusyTimeoutMs \in Nat \ {0}
    /\ MaxSqlTimeoutMs \in Nat \ {0}
    /\ AskedTimeouts \subseteq Int
    /\ None \notin Int
    /\ MaxTime \in Nat /\ MaxShifts \in Nat

\* What the first words of a statement tell: "read" is SELECT or SHOW, "with"
\* is WITH or EXPLAIN, "insertSelect" an INSERT with a SELECT in it.
Statements == {"read", "with", "command", "insertSelect"}

\* The first check that fails: the bearer token, the body or one of its
\* fields (`params` and the type of timeout_ms among them), the text.
Faults == {"token", "body", "sql"}

\* "bound": there are parameters, and each one in the text has its value.
Params == {"none", "bound", "missing"}

Requests == [fault : Faults \union {None},
             statement : Statements,
             params : Params,
             asked : AskedTimeouts \union {None}]

VARIABLES
    time,       \* elapsed time
    wall,       \* the wall clock
    shifts,     \* how often the wall clock was set
    mode,       \* [stoolap] read_only: readOnly or readWrite
    request,    \* the request
    step,       \* where its thread is
    timeoutMs,  \* TimeoutMs
    sqlStart,   \* StartedAt of WriteSql
    execStart,  \* StartedAt of ExecuteJson
    waitStart,  \* StartedAt of AcquireDb
    limit,      \* the timeout given to Stoolap: a number, or None
    endsBy,     \* the time at which Stoolap gives up: a number, or None
    failure,    \* history: how the statement failed
    began,      \* history: the time at which ExecuteJson was called
    effect,     \* history: what the statement did to the database: none, done
    status      \* the HTTP status, None before the answer

clocks == <<time, wall, shifts>>
starts == <<sqlStart, execStart, waitStart>>
vars == <<clocks, mode, request, step, timeoutMs, starts, limit, endsBy,
          failure, began, effect, status>>

Steps == {"received", "opening", "waiting", "held", "running", "rows",
          "returned", "answered"}

Modes == {"readOnly", "readWrite"}
Effects == {"none", "done"}

ReadOnly == mode = "readOnly"
IsQuerySql == request.statement \in {"read", "with"}
IsReadOnlySql == request.statement = "read"
HasParams == request.params # "none"

Init ==
    /\ time = 0 /\ wall = 0 /\ shifts = 0
    /\ mode \in Modes
    /\ request \in Requests
    /\ step = "received"
    /\ timeoutMs = BusyTimeoutMs
    /\ sqlStart = None /\ execStart = None /\ waitStart = None
    /\ limit = None /\ endsBy = None
    /\ failure = None
    /\ began = None
    /\ effect = "none"
    /\ status = None

\* MilliSecondsBetween(Now, t), which takes the absolute value.
MilliSecondsSince(t) == IF wall >= t THEN wall - t ELSE t - wall

Answer(code) ==
    /\ step' = "answered"
    /\ status' = code

-----------------------------------------------------------------------------
(* WriteSql before the call of the adapter.                                 *)

StatusOf == [token |-> 401, body |-> 400, sql |-> 422]

Reject ==
    /\ step = "received"
    /\ request.fault # None
    /\ Answer(StatusOf[request.fault])
    /\ UNCHANGED <<clocks, mode, request, timeoutMs, starts, limit, endsBy,
                   failure, began, effect>>

AtMost(n, bound) == IF n > bound THEN bound ELSE n

\* Mutant: a request may ask for more than busy_timeout_ms.
EffectiveTimeoutUncapped(asked) ==
    IF asked = None THEN BusyTimeoutMs ELSE AtMost(asked, MaxSqlTimeoutMs)

\* busy_timeout_ms is the default and, like max_sql_timeout_ms, a ceiling.
EffectiveTimeout(asked) ==
    IF asked = None THEN BusyTimeoutMs
    ELSE AtMost(AtMost(asked, MaxSqlTimeoutMs), BusyTimeoutMs)

\* timeout_ms must be >= 1
RejectTimeout ==
    /\ step = "received"
    /\ request.fault = None
    /\ request.asked # None /\ request.asked < 1
    /\ Answer(400)
    /\ UNCHANGED <<clocks, mode, request, timeoutMs, starts, limit, endsBy,
                   failure, began, effect>>

\* WriteSql starts its clock, ExecuteJson its own, AcquireDb calls Open.
CallExecuteJson ==
    /\ step = "received"
    /\ request.fault = None
    /\ request.asked # None => request.asked >= 1
    /\ timeoutMs' = EffectiveTimeout(request.asked)
    /\ sqlStart' = wall
    /\ execStart' = wall
    /\ began' = time
    /\ step' = "opening"
    /\ UNCHANGED <<clocks, mode, request, waitStart, limit, endsBy, failure,
                   effect, status>>

-----------------------------------------------------------------------------
(* ExecuteJson and AcquireDb.                                               *)

\* The library cannot be loaded (503), or the database cannot be opened (422).
OpenFails ==
    /\ step = "opening"
    /\ \E code \in {503, 422} : Answer(code)
    /\ UNCHANGED <<clocks, mode, request, timeoutMs, starts, limit, endsBy,
                   failure, began, effect>>

\* The pool is open, after however long; the clock of the wait starts now.
Opened ==
    /\ step = "opening"
    /\ waitStart' = wall
    /\ step' = "waiting"
    /\ UNCHANGED <<clocks, mode, request, timeoutMs, sqlStart, execStart,
                   limit, endsBy, failure, began, effect, status>>

AcquireDb ==
    /\ step = "waiting"
    /\ step' = "held"
    /\ UNCHANGED <<clocks, mode, request, timeoutMs, starts, limit, endsBy,
                   failure, began, effect, status>>

\* no handle is free, and the wait has lasted timeout_ms
PoolTimeout ==
    /\ step = "waiting"
    /\ MilliSecondsSince(waitStart) >= timeoutMs
    /\ Answer(504)
    /\ UNCHANGED <<clocks, mode, request, timeoutMs, starts, limit, endsBy,
                   failure, began, effect>>

\* Mutants: the time that Open took is not deducted; a clock that was set
\* back adds to what is left.
RemainingOfWait == timeoutMs - MilliSecondsSince(waitStart)
RemainingSigned == timeoutMs - (wall - execStart)

RemainingTimeoutMs == timeoutMs - MilliSecondsSince(execStart)

\* Mutant: one tick too early.
NoTimeLeftEarly == RemainingTimeoutMs <= 1

NoTimeLeft == RemainingTimeoutMs < 1

RefuseLate ==
    /\ step = "held"
    /\ NoTimeLeft
    /\ Answer(504)
    /\ UNCHANGED <<clocks, mode, request, timeoutMs, starts, limit, endsBy,
                   failure, began, effect>>

\* Mutant: everything that returns rows counts as reading.
AllowsQueries == ReadOnly => IsQuerySql

Allowed == ReadOnly => IsReadOnlySql

RefuseReadOnly ==
    /\ step = "held"
    /\ ~NoTimeLeft
    /\ ~Allowed
    /\ Answer(422)
    /\ UNCHANGED <<clocks, mode, request, timeoutMs, starts, limit, endsBy,
                   failure, began, effect>>

\* CommandJson: a parameterised INSERT ... SELECT, or a parameter in the text
\* that the request has no value for
RefuseParams ==
    /\ step = "held"
    /\ ~NoTimeLeft
    /\ Allowed
    /\ ~IsQuerySql
    /\ HasParams
    /\ request.statement = "insertSelect" \/ request.params = "missing"
    /\ Answer(422)
    /\ UNCHANGED <<clocks, mode, request, timeoutMs, starts, limit, endsBy,
                   failure, began, effect>>

\* QueryNamedTimeout of QueryJson, ExecNamedTimeout of CommandJson
CallWithTimeout ==
    /\ step = "held"
    /\ ~NoTimeLeft
    /\ Allowed
    /\ IsQuerySql \/ ~HasParams
    /\ limit' = RemainingTimeoutMs
    /\ endsBy' = time + RemainingTimeoutMs
    /\ step' = "running"
    /\ UNCHANGED <<clocks, mode, request, timeoutMs, starts, failure, began,
                   effect, status>>

\* ExecParams of CommandJson, which has no timeout argument
CallExecParams ==
    /\ step = "held"
    /\ ~NoTimeLeft
    /\ Allowed
    /\ ~IsQuerySql /\ HasParams
    /\ request.statement # "insertSelect" /\ request.params = "bound"
    /\ step' = "running"
    /\ UNCHANGED <<clocks, mode, request, timeoutMs, starts, limit, endsBy,
                   failure, began, effect, status>>

-----------------------------------------------------------------------------
(* Stoolap, from how the adapter uses it: a statement succeeds or fails as  *)
(* a whole, and one that has a limit is over when the limit is reached.     *)

StatementSucceeds ==
    /\ step = "running"
    /\ request.params # "missing"
    /\ effect' \in CASE request.statement = "read" -> {"none"}
                     [] request.statement = "with" -> Effects
                     [] OTHER                      -> {"done"}
    /\ step' = IF IsQuerySql THEN "rows" ELSE "returned"
    /\ UNCHANGED <<clocks, mode, request, timeoutMs, starts, limit, endsBy,
                   failure, began, status>>

\* Stoolap gives up at the limit; or it fails with another error, whose text
\* may have "timeout" in it for some other reason.  RaiseBackendError goes by
\* the text.
StatementFails ==
    /\ step = "running"
    /\ failure' \in {"mentions", "other"} \union (IF time = endsBy THEN {"limit"} ELSE {})
    /\ Answer(IF failure' = "other" THEN 422 ELSE 504)
    /\ UNCHANGED <<clocks, mode, request, timeoutMs, starts, limit, endsBy,
                   began, effect>>

\* RowsToJson reads up to max_result_rows rows, without a clock
RowsFetched ==
    /\ step = "rows"
    /\ step' = "returned"
    /\ UNCHANGED <<clocks, mode, request, timeoutMs, starts, limit, endsBy,
                   failure, began, effect, status>>

\* whatever the error of RowsNext is
RowsFail ==
    /\ step = "rows"
    /\ Answer(422)
    /\ UNCHANGED <<clocks, mode, request, timeoutMs, starts, limit, endsBy,
                   failure, began, effect>>

-----------------------------------------------------------------------------

\* Mutant: a late answer is reported as a failed statement.
StatusWhenLateError == IF MilliSecondsSince(sqlStart) > timeoutMs THEN 422 ELSE 200

\* Mutant: the last moment of the timeout is too late already.
StatusAtLimit == IF MilliSecondsSince(sqlStart) >= timeoutMs THEN 504 ELSE 200

\* DurationMs > TimeoutMs, although the statement was executed
FinalStatus == IF MilliSecondsSince(sqlStart) > timeoutMs THEN 504 ELSE 200

Respond ==
    /\ step = "returned"
    /\ Answer(FinalStatus)
    /\ UNCHANGED <<clocks, mode, request, timeoutMs, starts, limit, endsBy,
                   failure, began, effect>>

Tick ==
    /\ step # "answered"
    /\ time < MaxTime
    /\ step = "running" /\ endsBy # None => time < endsBy
    /\ time' = time + 1
    /\ wall' = wall + 1
    /\ UNCHANGED <<shifts, mode, request, step, timeoutMs, starts, limit,
                   endsBy, failure, began, effect, status>>

\* The wall clock is set, backwards or forwards.
SetClock ==
    /\ step # "answered"
    /\ shifts < MaxShifts
    /\ shifts' = shifts + 1
    /\ wall' \in -MaxTime .. MaxTime
    /\ UNCHANGED <<time, mode, request, step, timeoutMs, starts, limit,
                   endsBy, failure, began, effect, status>>

Answered == step = "answered" /\ UNCHANGED vars

HandlerStep ==
    \/ Reject         \/ RejectTimeout   \/ CallExecuteJson \/ OpenFails
    \/ Opened         \/ AcquireDb       \/ PoolTimeout     \/ RefuseLate
    \/ RefuseReadOnly \/ RefuseParams    \/ CallWithTimeout \/ CallExecParams
    \/ StatementSucceeds \/ StatementFails \/ RowsFetched   \/ RowsFail
    \/ Respond

Next == HandlerStep \/ Tick \/ SetClock \/ Answered

Spec == Init /\ [][Next]_vars

-----------------------------------------------------------------------------
(* Properties.                                                              *)

Moments == Int \union {None}

TypeOK ==
    /\ time \in Nat /\ wall \in Int /\ shifts \in Nat
    /\ mode \in Modes
    /\ request \in Requests
    /\ step \in Steps
    /\ timeoutMs \in 1 .. BusyTimeoutMs
    /\ sqlStart \in Moments /\ execStart \in Moments /\ waitStart \in Moments
    /\ limit \in Moments /\ endsBy \in Moments
    /\ failure \in {None, "limit", "mentions", "other"}
    /\ began \in Nat \union {None}
    /\ effect \in Effects
    /\ status \in {None, 200, 400, 401, 422, 503, 504}

\* Stoolap never gets 0, which would switch its timeout off, and never more
\* than the request may take, even when the wall clock is set while the
\* request waits for a handle.
LimitWithinBudget == limit # None => limit \in 1 .. timeoutMs

\* A statement that was given a limit is over timeout_ms after ExecuteJson
\* began, however the time was spent between opening, waiting and executing.
StatementInTime ==
    step = "running" /\ limit # None /\ shifts = 0 => time <= began + timeoutMs

\* A request is answered 504 for want of time only when timeout_ms has
\* passed, unless an error of Stoolap happens to have "timeout" in its text.
NoEarlyTimeout ==
    status = 504 /\ failure # "mentions" /\ shifts = 0 => time >= began + timeoutMs

\* What the status says of a command: 200 means that it was executed, every
\* error but 504 that it was not, and a 504 in spite of its execution, unless the
\* clock was set, that more than timeout_ms have passed.
StatusTellsEffect ==
    request.statement \in {"command", "insertSelect"} =>
        /\ status = 200 => effect = "done"
        /\ status \notin {None, 200, 504} => effect = "none"
        /\ status = 504 /\ effect = "done" /\ shifts = 0 => time > began + timeoutMs

\* With read_only no statement that may write reaches Stoolap, a WITH among
\* them (CHANGELOG.md:25, "Tightened read-only SQL classification").
ReadOnlyKept == ReadOnly => effect = "none"

=============================================================================
