----------------------------- MODULE HandlePool -----------------------------
(***************************************************************************)
(* The handle pool of TStoolapAdapter                                      *)
(* (server/src/liquidstoolap_server/lsstoolapadapter.pas).                 *)
(*                                                                         *)
(* One database handle (FDb) and its clones fill the array FPool; FPoolBusy*)
(* says which slots are in use.  The thread of a request opens the pool if *)
(* nobody has (Open), takes a free slot (AcquireDb), runs its statement    *)
(* and gives the slot back (ReleaseDb).  The main thread may open the pool *)
(* before any request exists ([stoolap] startup_check), and closes it when *)
(* the server object is destroyed (Close).                                 *)
(*                                                                         *)
(* Two critical sections are involved.  FOpenLock is held across Open and  *)
(* Close and is the variable openLock.  FPoolLock is held across one scan  *)
(* or one assignment, so what it protects is one step here.  OpenUnlocked  *)
(* writes the pool WITHOUT FPoolLock: each of its assignments is a step of *)
(* its own, and scans of other threads fall between them.                  *)
(*                                                                         *)
(* The caller of the adapter, the HTTP server, is reduced to `phase`: when *)
(* requests may start to use the adapter and when Close may be called.     *)
(***************************************************************************)
EXTENDS Integers, FiniteSets

CONSTANTS
    Requests,       \* the threads that execute SQL requests
    Main,           \* the thread that constructs and destroys the server
    PoolSize,       \* EffectivePoolSize: [stoolap] sql_worker_count, at least 1
    StartupChecks,  \* the values [stoolap] startup_check may have
    BackendFails,   \* may library load, open, clone or the startup query fail?
    None            \* "no thread", "no slot"

ASSUME PoolAssumption ==
    /\ PoolSize \in Nat \ {0}
    /\ BackendFails \in BOOLEAN
    /\ Main \notin Requests
    /\ None \notin Requests \union {Main} \union Nat

ASSUME StartupAssumption ==
    /\ StartupChecks \subseteq BOOLEAN
    /\ StartupChecks # {}

\* The pool is opened before anything is served.
EagerOpen == FALSE \notin StartupChecks

Threads == Requests \union {Main}
Slots == 0 .. PoolSize - 1

VARIABLES
    phase,      \* what the server lets requests do: startup, serving, draining
    db,         \* FDb is assigned
    poolSize,   \* FPoolSize
    allocated,  \* FPool and FPoolBusy have their length
    pool,       \* pool[i]: FPool[i] is assigned
    busy,       \* FPoolBusy
    openLock,   \* the thread inside FOpenLock
    cursor,     \* the loop index of the thread inside FOpenLock
    pc,         \* where each thread is
    slot,       \* the PoolIndex of each request
    late,       \* timeout_ms has elapsed since AcquireDb began to wait
    opens       \* history: how many times the database was opened

vars == <<phase, db, poolSize, allocated, pool, busy, openLock, cursor, pc,
          slot, late, opens>>

OpeningSteps == {"lock", "locked", "size", "alloc", "assign", "clear"}
WaitingSteps == {"admitted", "open", "acquire", "missed"}
HoldingSteps == {"held", "exec", "release"}
MainSteps == {"start", "open", "startquery", "up", "closescan", "closing", "closed"}

Goto(t, step) == pc' = [pc EXCEPT ![t] = step]

Init ==
    /\ phase = "startup"
    /\ db = FALSE
    /\ poolSize = 0
    /\ allocated = FALSE
    /\ pool = [i \in Slots |-> FALSE]
    /\ busy = [i \in Slots |-> FALSE]
    /\ openLock = None
    /\ cursor = 0
    /\ pc = [t \in Threads |-> IF t = Main THEN "start" ELSE "idle"]
    /\ slot = [r \in Requests |-> None]
    /\ late = [r \in Requests |-> FALSE]
    /\ opens = 0

-----------------------------------------------------------------------------
(* Open and OpenUnlocked, called by AcquireDb and by StartupCheck.          *)

\* What the caller of Open does when Open returns, and when it raises:
\* a request goes on to the slots or answers with an error; the constructor
\* runs the startup query or leaves the server not ready for good.
Opened(t) ==
    /\ Goto(t, IF t = Main THEN "startquery" ELSE "acquire")
    /\ UNCHANGED phase

OpenRaises(t) ==
    /\ BackendFails
    /\ Goto(t, IF t = Main THEN "up" ELSE "idle")
    /\ phase' = IF t = Main THEN "draining" ELSE phase

\* if FDb <> nil then Exit, outside the lock
OpenCheck(t) ==
    /\ pc[t] = "open"
    /\ IF db THEN Opened(t) ELSE Goto(t, "lock") /\ UNCHANGED phase
    /\ UNCHANGED <<db, poolSize, allocated, pool, busy, openLock, cursor, slot, late, opens>>

TakeOpenLock(t) ==
    /\ pc[t] = "lock"
    /\ openLock = None
    /\ openLock' = t
    /\ Goto(t, "locked")
    /\ UNCHANGED <<phase, db, poolSize, allocated, pool, busy, cursor, slot, late, opens>>

\* the second check of FDb, under the lock
AlreadyOpen(t) ==
    /\ pc[t] = "locked"
    /\ db
    /\ openLock' = None
    /\ Opened(t)
    /\ UNCHANGED <<db, poolSize, allocated, pool, busy, cursor, slot, late, opens>>

\* Mutant: FDb is not checked again under the lock.
OpenDatabaseUnchecked(t) ==
    /\ pc[t] = "locked"
    /\ db' = TRUE
    /\ opens' = opens + 1
    /\ Goto(t, "size")
    /\ UNCHANGED <<phase, poolSize, allocated, pool, busy, openLock, cursor, slot, late>>

\* stoolap_open stores the handle straight into FDb
OpenDatabase(t) ==
    /\ pc[t] = "locked"
    /\ ~db
    /\ db' = TRUE
    /\ opens' = opens + 1
    /\ Goto(t, "size")
    /\ UNCHANGED <<phase, poolSize, allocated, pool, busy, openLock, cursor, slot, late>>

\* the library cannot be loaded or stoolap_open fails: FDb stays nil
OpenDatabaseFails(t) ==
    /\ pc[t] = "locked"
    /\ ~db
    /\ OpenRaises(t)
    /\ openLock' = None
    /\ UNCHANGED <<db, poolSize, allocated, pool, busy, cursor, slot, late, opens>>

SetPoolSize(t) ==
    /\ pc[t] = "size"
    /\ poolSize' = PoolSize
    /\ Goto(t, "alloc")
    /\ UNCHANGED <<phase, db, allocated, pool, busy, openLock, cursor, slot, late, opens>>

\* SetLength of both arrays; nobody reads FPoolBusy while FPool is all nil
AllocatePool(t) ==
    /\ pc[t] = "alloc"
    /\ allocated' = TRUE
    /\ pool' = [i \in Slots |-> FALSE]
    /\ busy' = [i \in Slots |-> FALSE]
    /\ cursor' = 0
    /\ Goto(t, "assign")
    /\ UNCHANGED <<phase, db, poolSize, openLock, slot, late, opens>>

\* FPool[0] := FDb, and for the other slots stoolap_clone into FPool[I]
AssignSlot(t) ==
    /\ pc[t] = "assign"
    /\ pool' = [pool EXCEPT ![cursor] = TRUE]
    /\ Goto(t, "clear")
    /\ UNCHANGED <<phase, db, poolSize, allocated, busy, openLock, cursor, slot, late, opens>>

\* FDb and the slots filled so far stay as they are
CloneFails(t) ==
    /\ pc[t] = "assign"
    /\ cursor > 0
    /\ OpenRaises(t)
    /\ openLock' = None
    /\ UNCHANGED <<db, poolSize, allocated, pool, busy, cursor, slot, late, opens>>

\* Mutant: the loop runs to FPoolSize.
MoreSlotsOffByOne == cursor + 1 <= PoolSize

\* for I := 1 to FPoolSize - 1 goes on
MoreSlots == cursor + 1 < PoolSize

\* FPoolBusy[I] := False, after the slot became visible to other threads
ClearBusy(t) ==
    /\ pc[t] = "clear"
    /\ busy' = [busy EXCEPT ![cursor] = FALSE]
    /\ cursor' = cursor + 1
    /\ IF MoreSlots
       THEN Goto(t, "assign") /\ UNCHANGED <<phase, openLock>>
       ELSE Opened(t) /\ openLock' = None
    /\ UNCHANGED <<db, poolSize, allocated, pool, slot, late, opens>>

OpenStep(t) ==
    \/ OpenCheck(t)    \/ TakeOpenLock(t)      \/ AlreadyOpen(t)
    \/ OpenDatabase(t) \/ OpenDatabaseFails(t) \/ SetPoolSize(t)
    \/ AllocatePool(t) \/ AssignSlot(t)        \/ CloneFails(t)
    \/ ClearBusy(t)

-----------------------------------------------------------------------------
(* One SQL request: WriteSql calls ExecuteJson, which calls AcquireDb.      *)

\* The server lets the request through (FReady was still True).
Begin(r) ==
    /\ pc[r] = "idle"
    /\ phase = "serving"
    /\ Goto(r, "admitted")
    /\ late' = [late EXCEPT ![r] = FALSE]
    /\ UNCHANGED <<phase, db, poolSize, allocated, pool, busy, openLock, cursor, slot, opens>>

\* The request turns out unauthorised or malformed: the adapter is not called.
Decline(r) ==
    /\ pc[r] = "admitted"
    /\ Goto(r, "idle")
    /\ UNCHANGED <<phase, db, poolSize, allocated, pool, busy, openLock, cursor, slot, late, opens>>

CallAdapter(r) ==
    /\ pc[r] = "admitted"
    /\ Goto(r, "open")
    /\ UNCHANGED <<phase, db, poolSize, allocated, pool, busy, openLock, cursor, slot, late, opens>>

\* MilliSecondsBetween(Now, StartedAt) reaches timeout_ms in AcquireDb, and so
\* in ExecuteJson, whose clock started earlier.  That the clock of ExecuteJson
\* alone has run out is one of the reasons to Refuse.
Expire(r) ==
    /\ pc[r] \in {"acquire", "missed", "held"}
    /\ ~late[r]
    /\ late' = [late EXCEPT ![r] = TRUE]
    /\ UNCHANGED <<phase, db, poolSize, allocated, pool, busy, openLock, cursor, pc, slot, opens>>

\* Mutant: the scan does not look at FPoolBusy.
AssignedSlots == {i \in Slots : i < poolSize /\ pool[i]}

\* (FPool[I] <> nil) and (not FPoolBusy[I]), for I below FPoolSize
FreeSlots == {i \in Slots : i < poolSize /\ pool[i] /\ ~busy[i]}

\* The scan takes the first free slot.
TakeSlot(r) ==
    /\ pc[r] = "acquire"
    /\ \E i \in FreeSlots :
          /\ \A j \in FreeSlots : i <= j
          /\ busy' = [busy EXCEPT ![i] = TRUE]
          /\ slot' = [slot EXCEPT ![r] = i]
    /\ Goto(r, "held")
    /\ UNCHANGED <<phase, db, poolSize, allocated, pool, openLock, cursor, late, opens>>

\* Between FPoolSize := and SetLength(FPool) the scan indexes an array that
\* is still empty: an access violation, which WriteSql answers with 500.
ScanFaults(r) ==
    /\ pc[r] = "acquire"
    /\ poolSize > 0 /\ ~allocated
    /\ Goto(r, "idle")
    /\ UNCHANGED <<phase, db, poolSize, allocated, pool, busy, openLock, cursor, slot, late, opens>>

ScanMisses(r) ==
    /\ pc[r] = "acquire"
    /\ poolSize > 0 => allocated
    /\ FreeSlots = {}
    /\ Goto(r, "missed")
    /\ UNCHANGED <<phase, db, poolSize, allocated, pool, busy, openLock, cursor, slot, late, opens>>

\* After a miss: EStoolapPoolTimeoutError, or Sleep(1) and scan again.
PoolTimeout(r) ==
    /\ pc[r] = "missed"
    /\ late[r]
    /\ Goto(r, "idle")
    /\ UNCHANGED <<phase, db, poolSize, allocated, pool, busy, openLock, cursor, slot, late, opens>>

\* Mutant: after a miss the deadline is not looked at.
ScanForever(r) ==
    /\ pc[r] = "missed"
    /\ Goto(r, "acquire")
    /\ UNCHANGED <<phase, db, poolSize, allocated, pool, busy, openLock, cursor, slot, late, opens>>

ScanAgain(r) ==
    /\ pc[r] = "missed"
    /\ ~late[r]
    /\ Goto(r, "acquire")
    /\ UNCHANGED <<phase, db, poolSize, allocated, pool, busy, openLock, cursor, slot, late, opens>>

\* Mutant: the exception is raised outside the try block.
RefuseOutsideTry(r) ==
    /\ pc[r] = "held"
    /\ Goto(r, "idle")
    /\ UNCHANGED <<phase, db, poolSize, allocated, pool, busy, openLock, cursor, slot, late, opens>>

\* No time is left, or the statement is not allowed in read-only mode: the
\* exception passes through the finally part that releases the slot.
Refuse(r) ==
    /\ pc[r] = "held"
    /\ Goto(r, "release")
    /\ UNCHANGED <<phase, db, poolSize, allocated, pool, busy, openLock, cursor, slot, late, opens>>

Execute(r) ==
    /\ pc[r] = "held"
    /\ ~late[r]
    /\ Goto(r, "exec")
    /\ UNCHANGED <<phase, db, poolSize, allocated, pool, busy, openLock, cursor, slot, late, opens>>

\* The statement succeeds, fails or times out inside Stoolap.
ExecuteEnds(r) ==
    /\ pc[r] = "exec"
    /\ Goto(r, "release")
    /\ UNCHANGED <<phase, db, poolSize, allocated, pool, busy, openLock, cursor, slot, late, opens>>

ReleaseDb(r) ==
    /\ pc[r] = "release"
    /\ busy' = IF allocated THEN [busy EXCEPT ![slot[r]] = FALSE] ELSE busy
    /\ slot' = [slot EXCEPT ![r] = None]
    /\ Goto(r, "idle")
    /\ UNCHANGED <<phase, db, poolSize, allocated, pool, openLock, cursor, late, opens>>

\* Everything the thread of a request does once it is past the gate.
RequestStep(r) ==
    \/ OpenStep(r)
    \/ Decline(r)     \/ CallAdapter(r) \/ TakeSlot(r)  \/ ScanFaults(r)
    \/ ScanMisses(r)  \/ PoolTimeout(r) \/ ScanAgain(r) \/ Refuse(r)
    \/ Execute(r)     \/ ExecuteEnds(r) \/ ReleaseDb(r)

-----------------------------------------------------------------------------
(* The main thread: the constructor of the server, then its destructor.     *)

\* if StartupCheck then FAdapter.StartupCheck; otherwise ready at once
Construct ==
    /\ pc[Main] = "start"
    /\ \/ TRUE \in StartupChecks /\ Goto(Main, "open") /\ UNCHANGED phase
       \/ FALSE \in StartupChecks /\ Goto(Main, "up") /\ phase' = "serving"
    /\ UNCHANGED <<db, poolSize, allocated, pool, busy, openLock, cursor, slot, late, opens>>

\* SELECT 1 on FDb; the server serves only if it returns a row.
StartupQuery ==
    /\ pc[Main] = "startquery"
    /\ Goto(Main, "up")
    /\ phase' \in IF BackendFails THEN {"serving", "draining"} ELSE {"serving"}
    /\ UNCHANGED <<db, poolSize, allocated, pool, busy, openLock, cursor, slot, late, opens>>

\* FReady := False for good: no further request gets past the gate.
Drain ==
    /\ pc[Main] = "up"
    /\ phase = "serving"
    /\ phase' = "draining"
    /\ UNCHANGED <<db, poolSize, allocated, pool, busy, openLock, cursor, pc, slot, late, opens>>

\* Close enters FOpenLock.  The caller owes the first three conjuncts: no
\* request is still on its way to a slot.
BeginClose ==
    /\ pc[Main] = "up"
    /\ phase = "draining"
    /\ \A r \in Requests : pc[r] \in {"idle"} \union HoldingSteps
    /\ openLock = None
    /\ openLock' = Main
    /\ Goto(Main, "closescan")
    /\ UNCHANGED <<phase, db, poolSize, allocated, pool, busy, cursor, slot, late, opens>>

\* Mutant: Close does not wait for busy slots.
CloseAtOnce ==
    /\ pc[Main] = "closescan"
    /\ cursor' = PoolSize - 1
    /\ Goto(Main, "closing")
    /\ UNCHANGED <<phase, db, poolSize, allocated, pool, busy, openLock, slot, late, opens>>

\* The loop of Close ends at the first scan that finds every slot free.
AllFree ==
    /\ pc[Main] = "closescan"
    /\ \A i \in Slots : allocated => ~busy[i]
    /\ cursor' = PoolSize - 1
    /\ Goto(Main, "closing")
    /\ UNCHANGED <<phase, db, poolSize, allocated, pool, busy, openLock, slot, late, opens>>

\* stoolap_close and FPool[I] := nil, from the last slot down
CloseHandle ==
    /\ pc[Main] = "closing"
    /\ cursor >= 0
    /\ pool' = [pool EXCEPT ![cursor] = FALSE]
    /\ cursor' = cursor - 1
    /\ UNCHANGED <<phase, db, poolSize, allocated, busy, openLock, pc, slot, late, opens>>

\* Both arrays are emptied, FPoolSize := 0, FDb := nil, leave FOpenLock.
Closed ==
    /\ pc[Main] = "closing"
    /\ cursor < 0
    /\ allocated' = FALSE
    /\ poolSize' = 0
    /\ db' = FALSE
    /\ openLock' = None
    /\ Goto(Main, "closed")
    /\ UNCHANGED <<phase, pool, busy, cursor, slot, late, opens>>

MainStep ==
    \/ Construct \/ OpenStep(Main) \/ StartupQuery
    \/ BeginClose \/ AllFree \/ CloseHandle \/ Closed

\* The process is about to exit: nothing more happens.
Terminated ==
    /\ pc[Main] = "closed"
    /\ UNCHANGED vars

Next ==
    \/ MainStep
    \/ Drain
    \/ \E r \in Requests : Begin(r) \/ RequestStep(r) \/ Expire(r)
    \/ Terminated

Spec == Init /\ [][Next]_vars

(***************************************************************************)
(* Fairness: threads run; a clock reaches every deadline; Stoolap ends     *)
(* every statement it was given (part of RequestStep); a thread that keeps *)
(* asking for FOpenLock gets it.  Begin and Drain are left to the          *)
(* environment.                                                            *)
(***************************************************************************)
Fairness ==
    /\ WF_vars(MainStep)
    /\ \A r \in Requests : WF_vars(RequestStep(r)) /\ WF_vars(Expire(r))
    /\ \A t \in Threads : SF_vars(TakeOpenLock(t))

FairSpec == Spec /\ Fairness

-----------------------------------------------------------------------------
(* Properties.                                                              *)

TypeOK ==
    /\ phase \in {"startup", "serving", "draining"}
    /\ db \in BOOLEAN
    /\ poolSize \in {0, PoolSize}
    /\ allocated \in BOOLEAN
    /\ pool \in [Slots -> BOOLEAN]
    /\ busy \in [Slots -> BOOLEAN]
    /\ openLock \in Threads \union {None}
    /\ cursor \in -1 .. PoolSize
    /\ pc \in [Threads -> {"idle"} \union OpeningSteps \union WaitingSteps
                            \union HoldingSteps \union MainSteps]
    /\ slot \in [Requests -> Slots \union {None}]
    /\ late \in [Requests -> BOOLEAN]
    /\ opens \in Nat

\* Each SQL request uses one handle exclusively (docs/user-guide.md:84): two
\* requests never hold the same slot, whatever OpenUnlocked, AcquireDb and
\* ReleaseDb do to FPoolBusy.
HandlesExclusive ==
    \A r, s \in Requests :
        (r # s /\ slot[r] # None) => slot[r] # slot[s]

\* A slot marked busy has a request that has yet to release it: no error path
\* of ExecuteJson takes a handle out of the pool for good.
NoLeakedHandle ==
    \A i \in Slots :
        busy[i] => \E r \in Requests : slot[r] = i /\ pc[r] \in HoldingSteps

\* Close never closes a handle under a request that is using it.
HeldHandleOpen ==
    \A r \in Requests : slot[r] # None => pool[slot[r]]

\* However many threads find FDb = nil at once, the database is opened once.
OpenedOnce == opens <= 1

\* The pool implements its promise.
Abs == INSTANCE ExclusiveHandles
         WITH Handles <- Slots,
              live    <- {i \in Slots : pool[i]},
              users   <- [i \in Slots |-> {r \in Requests : slot[r] = i}]

ImplementsExclusiveHandles == Abs!Spec

\* Every request that gets past the gate is answered.  It does not wait for a
\* handle for ever, although others may take each one that is given back: it
\* stops at the first scan in vain after timeout_ms.  It does not wait for
\* FOpenLock for ever, because every thread that opens gives the lock back, also
\* when a call fails; timeout_ms is no bound of that wait, since AcquireDb calls
\* Open before it starts its clock.
EveryRequestReturns ==
    \A r \in Requests : pc[r] = "admitted" ~> pc[r] = "idle"

\* Once the server stops admitting requests, Close ends: the busy slots it
\* waits for are all given back.
CloseEnds == phase = "draining" ~> pc[Main] = "closed"

=============================================================================
