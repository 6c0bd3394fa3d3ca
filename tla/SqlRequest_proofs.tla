-------------------------- MODULE SqlRequest_proofs ---------------------------
(***************************************************************************)
(* Proofs about SqlRequest, for all limits of the configuration, all       *)
(* timeouts that a request may ask for and any number of clock changes:    *)
(* the invariants that the run SqlRequest checks.                          *)
(***************************************************************************)
EXTENDS SqlRequest, TLAPS

Called == {"opening", "waiting", "held", "running", "rows", "returned"}

\* The clocks of a request are set when they are used.
ClocksSet ==
    /\ step \in Called => began \in Nat /\ execStart \in Int /\ sqlStart \in Int
    /\ step \in Called \ {"opening"} => waitStart \in Int
    /\ limit # None => endsBy \in Int /\ began \in Nat

\* As long as nobody has set the wall clock, every clock tells elapsed time.
ClocksAgree ==
    shifts = 0 =>
        /\ wall = time
        /\ step \in Called => execStart = began /\ sqlStart = began /\ began <= time
        /\ step \in Called \ {"opening"} => began <= waitStart /\ waitStart <= time
        /\ endsBy # None => endsBy = began + timeoutMs

\* Stoolap gets its limit when it is called, and ends the statement by then.
LimitKept ==
    /\ step \in {"received", "opening", "waiting", "held"} => limit = None /\ endsBy = None
    /\ endsBy # None => limit # None
    /\ step = "running" /\ endsBy # None => time <= endsBy

\* Where a request is tells what it has done.
Progress ==
    /\ status # None <=> step = "answered"
    /\ step \in {"received", "opening", "waiting", "held", "running"} => effect = "none"
    /\ step = "rows" => IsQuerySql
    /\ step = "returned" => effect = "done" \/ IsQuerySql
    /\ step \in {"running", "rows"} => Allowed

TimeInv ==
    /\ TypeOK
    /\ ClocksSet
    /\ ClocksAgree
    /\ LimitKept
    /\ LimitWithinBudget

AnswerInv ==
    /\ Progress
    /\ NoEarlyTimeout
    /\ StatusTellsEffect
    /\ ReadOnlyKept

SqlInv == TimeInv /\ AnswerInv

USE SqlAssumption DEF Requests, Statements, Faults, Params, Steps, Moments, Modes,
    Effects, ReadOnly, Called, clocks, starts, Answer

\* The effective timeout lies between 1 and busy_timeout_ms.
LEMMA EffectiveTimeoutInRange ==
  ASSUME NEW asked \in AskedTimeouts \union {None}, asked # None => asked >= 1
  PROVE  EffectiveTimeout(asked) \in 1 .. BusyTimeoutMs
BY DEF EffectiveTimeout, AtMost

\* What is left of the timeout never exceeds it, whichever way the clock was set.
LEMMA RemainingInRange ==
  ASSUME TypeOK, execStart \in Int
  PROVE  /\ RemainingTimeoutMs \in Int
         /\ RemainingTimeoutMs <= timeoutMs
BY DEF TypeOK, RemainingTimeoutMs, MilliSecondsSince

LEMMA SqlInvInit == Init => SqlInv
BY DEF Init, SqlInv, TimeInv, AnswerInv, TypeOK, ClocksSet, ClocksAgree, LimitKept,
       Progress, LimitWithinBudget, NoEarlyTimeout, StatusTellsEffect, ReadOnlyKept,
       IsQuerySql, Allowed

LEMMA SqlInvTick ==
  ASSUME SqlInv, Tick \/ SetClock
  PROVE  SqlInv'
<1> USE DEF SqlInv, TimeInv, AnswerInv, TypeOK, ClocksSet, ClocksAgree, LimitKept,
            Progress, LimitWithinBudget, NoEarlyTimeout, StatusTellsEffect,
            ReadOnlyKept, IsQuerySql, IsReadOnlySql, Allowed
<1>1. CASE Tick       BY <1>1 DEF Tick
<1>2. CASE SetClock   BY <1>2 DEF SetClock
<1>3. QED             BY <1>1, <1>2

\* WriteSql before the adapter is called, and the wait for a handle.
LEMMA SqlInvBefore ==
  ASSUME SqlInv,
         \/ Reject \/ RejectTimeout \/ CallExecuteJson \/ OpenFails \/ Opened
         \/ AcquireDb \/ PoolTimeout
  PROVE  SqlInv'
<1> USE DEF SqlInv, TimeInv, AnswerInv, TypeOK, ClocksSet, ClocksAgree, LimitKept,
            Progress, LimitWithinBudget, NoEarlyTimeout, StatusTellsEffect,
            ReadOnlyKept, IsQuerySql, IsReadOnlySql, Allowed
<1>1. CASE Reject
  <2>1. TimeInv'             BY <1>1 DEF Reject, StatusOf
  <2>2. AnswerInv'           BY <1>1 DEF Reject, StatusOf
  <2>3. QED                  BY ONLY <2>1, <2>2 DEF SqlInv
<1>2. CASE RejectTimeout
  <2>1. TimeInv'             BY <1>2 DEF RejectTimeout
  <2>2. AnswerInv'           BY <1>2 DEF RejectTimeout
  <2>3. QED                  BY ONLY <2>1, <2>2 DEF SqlInv
<1>3. CASE CallExecuteJson
  <2>1. EffectiveTimeout(request.asked) \in 1 .. BusyTimeoutMs
    BY <1>3, EffectiveTimeoutInRange DEF CallExecuteJson
  <2>2. TimeInv'             BY <1>3, <2>1 DEF CallExecuteJson
  <2>3. AnswerInv'           BY <1>3 DEF CallExecuteJson
  <2>4. QED                  BY ONLY <2>2, <2>3 DEF SqlInv
<1>4. CASE OpenFails
  <2>1. TimeInv'             BY <1>4 DEF OpenFails
  <2>2. AnswerInv'           BY <1>4 DEF OpenFails
  <2>3. QED                  BY ONLY <2>1, <2>2 DEF SqlInv
<1>5. CASE Opened
  <2>1. TimeInv'             BY <1>5 DEF Opened
  <2>2. AnswerInv'           BY <1>5 DEF Opened
  <2>3. QED                  BY ONLY <2>1, <2>2 DEF SqlInv
<1>6. CASE AcquireDb         BY <1>6 DEF AcquireDb
<1>7. CASE PoolTimeout
  <2>1. TimeInv'             BY <1>7 DEF PoolTimeout, MilliSecondsSince
  <2>2. AnswerInv'           BY <1>7 DEF PoolTimeout, MilliSecondsSince
  <2>3. QED                  BY ONLY <2>1, <2>2 DEF SqlInv
<1>8. QED                    BY <1>1, <1>2, <1>3, <1>4, <1>5, <1>6, <1>7

\* ExecuteJson with a handle.
LEMMA SqlInvHeld ==
  ASSUME SqlInv,
         \/ RefuseLate \/ RefuseReadOnly \/ RefuseParams \/ CallWithTimeout
         \/ CallExecParams
  PROVE  SqlInv'
<1> USE DEF SqlInv, TimeInv, AnswerInv, TypeOK, ClocksSet, ClocksAgree, LimitKept,
            Progress, LimitWithinBudget, NoEarlyTimeout, StatusTellsEffect,
            ReadOnlyKept, IsQuerySql, IsReadOnlySql, Allowed
<1>1. CASE RefuseLate
  <2>1. TimeInv'             BY <1>1 DEF RefuseLate, NoTimeLeft, RemainingTimeoutMs, MilliSecondsSince
  <2>2. AnswerInv'           BY <1>1 DEF RefuseLate, NoTimeLeft, RemainingTimeoutMs, MilliSecondsSince
  <2>3. QED                  BY ONLY <2>1, <2>2 DEF SqlInv
<1>2. CASE RefuseReadOnly
  <2>1. TimeInv'             BY <1>2 DEF RefuseReadOnly
  <2>2. AnswerInv'           BY <1>2 DEF RefuseReadOnly
  <2>3. QED                  BY ONLY <2>1, <2>2 DEF SqlInv
<1>3. CASE RefuseParams
  <2>1. TimeInv'             BY <1>3 DEF RefuseParams
  <2>2. AnswerInv'           BY <1>3 DEF RefuseParams
  <2>3. QED                  BY ONLY <2>1, <2>2 DEF SqlInv
<1>4. CASE CallWithTimeout
  <2>1. execStart \in Int    BY <1>4 DEF CallWithTimeout
  <2>2. RemainingTimeoutMs \in 1 .. timeoutMs
    BY <1>4, <2>1, RemainingInRange DEF CallWithTimeout, NoTimeLeft
  <2>3. shifts = 0 => time + RemainingTimeoutMs = began + timeoutMs
    BY <1>4 DEF CallWithTimeout, RemainingTimeoutMs, MilliSecondsSince
  <2>4. TimeInv'             BY <1>4, <2>2, <2>3 DEF CallWithTimeout
  <2>5. AnswerInv'           BY <1>4, <2>2 DEF CallWithTimeout
  <2>6. QED                  BY ONLY <2>4, <2>5 DEF SqlInv
<1>5. CASE CallExecParams
  <2>1. TimeInv'             BY <1>5 DEF CallExecParams
  <2>2. AnswerInv'           BY <1>5 DEF CallExecParams
  <2>3. QED                  BY ONLY <2>1, <2>2 DEF SqlInv
<1>6. QED                    BY <1>1, <1>2, <1>3, <1>4, <1>5

\* Stoolap, and the answer.
LEMMA SqlInvAfter ==
  ASSUME SqlInv,
         \/ StatementSucceeds \/ StatementFails \/ RowsFetched \/ RowsFail \/ Respond
  PROVE  SqlInv'
<1> USE DEF SqlInv, TimeInv, AnswerInv, TypeOK, ClocksSet, ClocksAgree, LimitKept,
            Progress, LimitWithinBudget, NoEarlyTimeout, StatusTellsEffect,
            ReadOnlyKept, IsQuerySql, IsReadOnlySql, Allowed
<1>1. CASE StatementSucceeds   BY <1>1 DEF StatementSucceeds
<1>2. CASE StatementFails
  <2>1. TimeInv'             BY <1>2 DEF StatementFails
  <2>2. AnswerInv'           BY <1>2 DEF StatementFails
  <2>3. QED                  BY ONLY <2>1, <2>2 DEF SqlInv
<1>3. CASE RowsFetched         BY <1>3 DEF RowsFetched
<1>4. CASE RowsFail
  <2>1. TimeInv'             BY <1>4 DEF RowsFail
  <2>2. AnswerInv'           BY <1>4 DEF RowsFail
  <2>3. QED                  BY ONLY <2>1, <2>2 DEF SqlInv
<1>5. CASE Respond
  <2>1. TimeInv'             BY <1>5 DEF Respond, FinalStatus, MilliSecondsSince
  <2>2. AnswerInv'           BY <1>5 DEF Respond, FinalStatus, MilliSecondsSince
  <2>3. QED                  BY ONLY <2>1, <2>2 DEF SqlInv
<1>6. QED                      BY <1>1, <1>2, <1>3, <1>4, <1>5

\* Every reachable state satisfies SqlInv.
THEOREM SqlInvAlways == Spec => []SqlInv
<1>1. SqlInv /\ [Next]_vars => SqlInv'
  <2> SUFFICES ASSUME SqlInv, [Next]_vars PROVE SqlInv' OBVIOUS
  <2>1. CASE HandlerStep
    BY <2>1, SqlInvBefore, SqlInvHeld, SqlInvAfter DEF HandlerStep
  <2>2. CASE Tick \/ SetClock     BY <2>2, SqlInvTick
  <2>3. CASE UNCHANGED vars
    BY <2>3 DEF vars, SqlInv, TimeInv, AnswerInv, TypeOK, ClocksSet, ClocksAgree, LimitKept,
       Progress, LimitWithinBudget, NoEarlyTimeout, StatusTellsEffect, ReadOnlyKept,
       IsQuerySql, IsReadOnlySql, Allowed
  <2>4. QED                       BY <2>1, <2>2, <2>3 DEF Next, Answered
<1>2. QED   BY SqlInvInit, <1>1, PTL DEF Spec

\* The type invariant of a request.
THEOREM TypeCorrect == Spec => []TypeOK
<1>1. SqlInv => TypeOK   BY DEF SqlInv, TimeInv, AnswerInv
<1>2. QED                BY <1>1, SqlInvAlways, PTL

\* The timeout that Stoolap gets is at least 1 and at most that of the request,
\* also when the wall clock is set (ExecuteJson, RemainingTimeoutMs).
THEOREM LimitAlwaysWithinBudget == Spec => []LimitWithinBudget
<1>1. SqlInv => LimitWithinBudget   BY DEF SqlInv, TimeInv, AnswerInv
<1>2. QED                           BY <1>1, SqlInvAlways, PTL

\* A statement with a limit is over timeout_ms after ExecuteJson began.
THEOREM StatementsInTime == Spec => []StatementInTime
<1>1. SqlInv => StatementInTime
  BY DEF SqlInv, TimeInv, StatementInTime, TypeOK, ClocksSet, ClocksAgree, LimitKept
<1>2. QED                BY <1>1, SqlInvAlways, PTL

\* No request is answered 504 for want of time before timeout_ms has passed.
THEOREM TimeoutsNotEarly == Spec => []NoEarlyTimeout
<1>1. SqlInv => NoEarlyTimeout   BY DEF SqlInv, TimeInv, AnswerInv
<1>2. QED                        BY <1>1, SqlInvAlways, PTL

\* The status of a command tells whether it was executed, except 504.
THEOREM StatusIsTruthful == Spec => []StatusTellsEffect
<1>1. SqlInv => StatusTellsEffect   BY DEF SqlInv, TimeInv, AnswerInv
<1>2. QED                           BY <1>1, SqlInvAlways, PTL

\* With read_only nothing is written.
THEOREM ReadOnlyAlwaysKept == Spec => []ReadOnlyKept
<1>1. SqlInv => ReadOnlyKept   BY DEF SqlInv, TimeInv, AnswerInv
<1>2. QED                      BY <1>1, SqlInvAlways, PTL

=============================================================================
