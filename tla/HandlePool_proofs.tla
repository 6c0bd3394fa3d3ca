------------------------- MODULE HandlePool_proofs --------------------------
(***************************************************************************)
(* Proofs about HandlePool, for every number of requests and of handles.   *)
(*                                                                         *)
(* LockInv and BusyInv hold in both modes of opening the pool and give the *)
(* type invariant, the single opening of the database, and that no handle  *)
(* is lost to the pool.  GrantInv gives the exclusive use of handles and   *)
(* the refinement of ExclusiveHandles, also in both modes, but only as     *)
(* long as ClearsFree holds: without startup_check it need not, as the run *)
(* HandlePoolLazyRace shows.  EagerInv holds when the constructor opens    *)
(* the pool (startup_check), and implies ClearsFree.                       *)
(***************************************************************************)
EXTENDS HandlePool, TLAPS

LockedSteps == {"locked", "size", "alloc", "assign", "clear", "closescan", "closing"}
ClosingSteps == {"closescan", "closing", "closed"}

\* Where each kind of thread can be.
Places ==
    /\ \A r \in Requests :
          pc[r] \in {"idle"} \union OpeningSteps \union WaitingSteps \union HoldingSteps
    /\ pc[Main] \in MainSteps \union OpeningSteps

\* FOpenLock is held exactly by the thread that is inside Open or Close.
LockHeld == \A t \in Threads : pc[t] \in LockedSteps <=> openLock = t

CursorInRange ==
    /\ \A t \in Threads : pc[t] \in {"assign", "clear"} => cursor \in Slots
    /\ pc[Main] = "closing" => cursor \in -1 .. PoolSize - 1

\* Close runs after the gate was shut: nobody is left who could open again.
NobodyReopens ==
    pc[Main] \in ClosingSteps =>
        /\ phase = "draining"
        /\ \A r \in Requests : pc[r] \in {"idle"} \union HoldingSteps

OpensCounted ==
    /\ opens \in {0, 1}
    /\ (~db /\ pc[Main] # "closed") => opens = 0

LockInv ==
    /\ TypeOK
    /\ Places
    /\ LockHeld
    /\ CursorInRange
    /\ NobodyReopens
    /\ OpensCounted

USE PoolAssumption DEF Threads, Slots, OpeningSteps, WaitingSteps, HoldingSteps,
    MainSteps, LockedSteps, ClosingSteps, Goto, Opened, OpenRaises, MoreSlots

LEMMA LockInvInit == Init => LockInv
<1> SUFFICES ASSUME Init PROVE LockInv OBVIOUS
<1> USE DEF Init
<1>1. TypeOK
  <2>1. \A t \in Threads : pc[t] \in {"start", "idle"}   OBVIOUS
  <2>2. pc \in [Threads -> {"start", "idle"}]            BY <2>1
  <2>3. pc \in [Threads -> {"idle"} \union OpeningSteps \union WaitingSteps
                              \union HoldingSteps \union MainSteps]
    BY <2>2
  <2>4. cursor \in -1 .. PoolSize /\ opens \in Nat       OBVIOUS
  <2>5. /\ pool \in [Slots -> BOOLEAN]
        /\ busy \in [Slots -> BOOLEAN]
        /\ slot \in [Requests -> Slots \union {None}]
        /\ late \in [Requests -> BOOLEAN]                OBVIOUS
  <2>6. QED          BY <2>3, <2>4, <2>5 DEF TypeOK
<1>2. Places         BY DEF Places
<1>3. LockHeld       BY DEF LockHeld
<1>4. CursorInRange  BY DEF CursorInRange
<1>5. NobodyReopens  BY DEF NobodyReopens
<1>6. OpensCounted   BY DEF OpensCounted
<1>7. QED            BY <1>1, <1>2, <1>3, <1>4, <1>5, <1>6 DEF LockInv

LEMMA LockInvOpenStep ==
  ASSUME LockInv, NEW t \in Threads, OpenStep(t)
  PROVE  LockInv'
<1> USE DEF LockInv, TypeOK, Places, LockHeld, CursorInRange, NobodyReopens, OpensCounted
<1>1. CASE OpenCheck(t)
  <2>1. PICK step \in {"startquery", "acquire", "lock"} :
           /\ pc' = [pc EXCEPT ![t] = step]
           /\ step = "startquery" => t = Main
           /\ step = "acquire" => t # Main
    BY <1>1 DEF OpenCheck
  <2>2. QED                      BY <1>1, <2>1 DEF OpenCheck
<1>2. CASE TakeOpenLock(t)       BY <1>2 DEF TakeOpenLock
<1>3. CASE AlreadyOpen(t)        BY <1>3 DEF AlreadyOpen
<1>4. CASE OpenDatabase(t)
  <2>1. pc[Main] # "closed"      BY <1>4 DEF OpenDatabase
  <2>2. opens = 0                BY <1>4, <2>1 DEF OpenDatabase
  <2>3. OpensCounted'            BY <1>4, <2>2 DEF OpenDatabase
  <2>4. QED                      BY <1>4, <2>2, <2>3 DEF OpenDatabase
<1>5. CASE OpenDatabaseFails(t)  BY <1>5 DEF OpenDatabaseFails
<1>6. CASE SetPoolSize(t)        BY <1>6 DEF SetPoolSize
<1>7. CASE AllocatePool(t)       BY <1>7 DEF AllocatePool
<1>8. CASE AssignSlot(t)         BY <1>8 DEF AssignSlot
<1>9. CASE CloneFails(t)         BY <1>9 DEF CloneFails
<1>10. CASE ClearBusy(t)
  <2> USE <1>10 DEF ClearBusy
  <2>1. cursor \in Slots /\ cursor' = cursor + 1   OBVIOUS
  <2>2. CASE cursor + 1 < PoolSize
    <3>1. /\ pc' = [pc EXCEPT ![t] = "assign"]
          /\ openLock' = openLock /\ phase' = phase  BY <2>2
    <3>2. cursor' \in Slots                        BY <2>1, <2>2
    <3>3. QED                                      BY <3>1, <3>2
  <2>3. CASE ~(cursor + 1 < PoolSize)
    <3>1. pc' = [pc EXCEPT ![t] = IF t = Main THEN "startquery" ELSE "acquire"]
      BY <2>3
    <3>2. openLock' = None /\ phase' = phase       BY <2>3
    <3>3. TypeOK'                                  BY <2>1, <3>1, <3>2
    <3>4. Places'                                  BY <3>1
    <3>5. LockHeld'                                BY <3>1, <3>2
    <3>6. CursorInRange'                           BY <3>1, <3>2, LockHeld
    <3>7. NobodyReopens'                           BY <3>1, <3>2
    <3>8. OpensCounted'                            BY <3>1, <3>2
    <3>9. QED           BY ONLY <3>3, <3>4, <3>5, <3>6, <3>7, <3>8
  <2>4. QED                                        BY <2>2, <2>3
<1>11. QED
  BY <1>1, <1>2, <1>3, <1>4, <1>5, <1>6, <1>7, <1>8, <1>9, <1>10 DEF OpenStep

LEMMA LockInvRequestStep ==
  ASSUME LockInv, NEW r \in Requests, RequestStep(r) \/ Begin(r) \/ Expire(r)
  PROVE  LockInv'
<1> USE DEF LockInv, TypeOK, Places, LockHeld, CursorInRange, NobodyReopens, OpensCounted
<1>1. CASE OpenStep(r)      BY ONLY <1>1, LockInv, LockInvOpenStep, r \in Requests DEF Threads
<1>2. CASE Decline(r)       BY <1>2 DEF Decline
<1>3. CASE CallAdapter(r)   BY <1>3 DEF CallAdapter
<1>4. CASE TakeSlot(r)      BY <1>4 DEF TakeSlot, FreeSlots
<1>5. CASE ScanFaults(r)    BY <1>5 DEF ScanFaults
<1>6. CASE ScanMisses(r)    BY <1>6 DEF ScanMisses
<1>7. CASE PoolTimeout(r)   BY <1>7 DEF PoolTimeout
<1>8. CASE ScanAgain(r)     BY <1>8 DEF ScanAgain
<1>9. CASE Refuse(r)        BY <1>9 DEF Refuse
<1>10. CASE Execute(r)      BY <1>10 DEF Execute
<1>11. CASE ExecuteEnds(r)  BY <1>11 DEF ExecuteEnds
<1>12. CASE ReleaseDb(r)    BY <1>12 DEF ReleaseDb
<1>13. CASE Begin(r)        BY <1>13 DEF Begin
<1>14. CASE Expire(r)       BY <1>14 DEF Expire
<1>15. QED
  BY <1>1, <1>2, <1>3, <1>4, <1>5, <1>6, <1>7, <1>8, <1>9, <1>10, <1>11, <1>12,
     <1>13, <1>14 DEF RequestStep

LEMMA LockInvMainStep ==
  ASSUME LockInv, MainStep \/ Drain
  PROVE  LockInv'
<1> USE DEF LockInv, TypeOK, Places, LockHeld, CursorInRange, NobodyReopens, OpensCounted
<1>1. CASE Construct
  <2>1. CASE pc' = [pc EXCEPT ![Main] = "open"]
    BY <1>1, <2>1 DEF Construct
  <2>2. CASE pc' = [pc EXCEPT ![Main] = "up"]
    BY <1>1, <2>2 DEF Construct
  <2>3. QED                 BY <1>1, <2>1, <2>2 DEF Construct
<1>2. CASE OpenStep(Main)   BY ONLY <1>2, LockInv, LockInvOpenStep DEF Threads
<1>3. CASE StartupQuery     BY <1>3 DEF StartupQuery
<1>4. CASE BeginClose       BY <1>4 DEF BeginClose
<1>5. CASE AllFree          BY <1>5 DEF AllFree
<1>6. CASE CloseHandle      BY <1>6 DEF CloseHandle
<1>7. CASE Closed           BY <1>7 DEF Closed
<1>8. CASE Drain            BY <1>8 DEF Drain
<1>9. QED
  BY <1>1, <1>2, <1>3, <1>4, <1>5, <1>6, <1>7, <1>8 DEF MainStep

\* Every reachable state satisfies LockInv, in both modes of opening.
THEOREM LockInvAlways == Spec => []LockInv
<1>1. LockInv /\ [Next]_vars => LockInv'
  <2> SUFFICES ASSUME LockInv, [Next]_vars PROVE LockInv'   OBVIOUS
  <2>1. CASE MainStep \/ Drain       BY <2>1, LockInvMainStep
  <2>2. ASSUME NEW r \in Requests, Begin(r) \/ RequestStep(r) \/ Expire(r)
        PROVE  LockInv'              BY <2>2, LockInvRequestStep
  <2>3. CASE UNCHANGED vars
    BY <2>3 DEF vars, LockInv, TypeOK, Places, LockHeld, CursorInRange,
                NobodyReopens, OpensCounted
  <2>4. QED                          BY <2>1, <2>2, <2>3 DEF Next, Terminated
<1>2. QED  BY LockInvInit, <1>1, PTL DEF Spec

\* The type invariant of the pool.
THEOREM TypeCorrect == Spec => []TypeOK
<1>1. LockInv => TypeOK   BY DEF LockInv
<1>2. QED                 BY <1>1, LockInvAlways, PTL

\* However many threads find FDb = nil at once, stoolap_open runs once: the
\* double check of Open and FOpenLock let a single thread through.
THEOREM DatabaseOpenedOnce == Spec => []OpenedOnce
<1>1. LockInv => OpenedOnce   BY DEF LockInv, OpensCounted, OpenedOnce
<1>2. QED                     BY <1>1, LockInvAlways, PTL

-----------------------------------------------------------------------------
(* From here on the constructor opens the pool.                             *)

PoolComplete == db /\ poolSize = PoolSize /\ allocated /\ \A i \in Slots : pool[i]

\* Requests never open the pool, and whoever is past the gate has all of it.
RequestsFindPool ==
    /\ \A r \in Requests : pc[r] \in {"idle"} \union WaitingSteps \union HoldingSteps
    /\ \A r \in Requests : pc[r] # "idle" => PoolComplete

\* How much of the pool the constructor has filled.
OpeningProgress ==
    /\ pc[Main] \in {"start", "open", "lock", "locked"} => ~db
    /\ pc[Main] \in {"start", "open", "lock", "locked", "size", "alloc"} =>
          \A i \in Slots : ~pool[i]
    /\ pc[Main] \in {"size", "alloc", "assign", "clear"} => db
    /\ pc[Main] \in {"alloc", "assign", "clear"} => poolSize = PoolSize
    /\ pc[Main] \in {"assign", "clear"} =>
          allocated /\ \A i \in Slots : i < cursor => pool[i]
    /\ pc[Main] = "clear" => pool[cursor]
    /\ pc[Main] = "startquery" => PoolComplete

\* The gate: nobody before the constructor is done, everybody with the whole
\* pool, and no user left once Close has seen every slot free.
Gate ==
    /\ phase = "startup" <=> pc[Main] \in {"start", "open", "startquery"} \union OpeningSteps
    /\ phase = "startup" => \A r \in Requests : pc[r] = "idle"
    /\ phase = "serving" => pc[Main] = "up" /\ PoolComplete
    /\ pc[Main] \in {"closing", "closed"} => \A r \in Requests : pc[r] = "idle"

BusySlotHeld == \A i \in Slots : busy[i] => \E r \in Requests : slot[r] = i

\* slot and FPoolBusy agree.
SlotsMatchBusy ==
    /\ \A r \in Requests : slot[r] # None <=> pc[r] \in HoldingSteps
    /\ \A r \in Requests : slot[r] # None => busy[slot[r]]
    /\ HandlesExclusive
    /\ BusySlotHeld

EagerInv ==
    /\ LockInv
    /\ RequestsFindPool
    /\ OpeningProgress
    /\ Gate
    /\ SlotsMatchBusy

LEMMA EagerInvInit ==
  ASSUME Init
  PROVE  EagerInv
<1>1. LockInv           BY LockInvInit
<1>2. RequestsFindPool  BY DEF Init, RequestsFindPool
<1>3. OpeningProgress   BY DEF Init, OpeningProgress
<1>4. Gate              BY DEF Init, Gate
<1>5. SlotsMatchBusy    BY DEF Init, SlotsMatchBusy, HandlesExclusive, BusySlotHeld
<1>6. QED               BY <1>1, <1>2, <1>3, <1>4, <1>5 DEF EagerInv

\* The arrays get their length before any request exists.
LEMMA EagerInvAllocatePool ==
  ASSUME EagerInv, LockInv', AllocatePool(Main)
  PROVE  EagerInv'
<1>1. /\ pc[Main] = "alloc" /\ pc' = [pc EXCEPT ![Main] = "assign"]
      /\ allocated' /\ cursor' = 0
      /\ pool' = [i \in Slots |-> FALSE] /\ busy' = [i \in Slots |-> FALSE]
      /\ UNCHANGED <<phase, db, poolSize, slot>>
  BY DEF AllocatePool
<1>2. \A r \in Requests : pc[r] = "idle" /\ slot[r] = None
  BY <1>1 DEF EagerInv, LockInv, TypeOK, Places, RequestsFindPool, OpeningProgress,
              Gate, SlotsMatchBusy, HandlesExclusive, BusySlotHeld, PoolComplete
<1> USE DEF EagerInv, LockInv, TypeOK, Places
<1>3. RequestsFindPool'    BY <1>1, <1>2 DEF RequestsFindPool, PoolComplete, Gate
<1>4. OpeningProgress'     BY <1>1 DEF OpeningProgress
<1>5. Gate'                BY <1>1 DEF Gate
<1>6. SlotsMatchBusy'
  BY <1>1, <1>2 DEF SlotsMatchBusy, HandlesExclusive, BusySlotHeld
<1>7. QED                  BY ONLY LockInv', <1>3, <1>4, <1>5, <1>6 DEF EagerInv

\* The main thread fills the pool while no request exists, and empties it
\* when none is left.
LEMMA EagerInvMainStep ==
  ASSUME EagerOpen, EagerInv, MainStep \/ Drain
  PROVE  EagerInv'
<1>0. LockInv'   BY LockInvMainStep DEF EagerInv
<1> USE DEF EagerInv, LockInv, TypeOK, Places, CursorInRange, RequestsFindPool,
        OpeningProgress, Gate, SlotsMatchBusy, HandlesExclusive, BusySlotHeld,
        PoolComplete
<1>1. CASE Construct
  <2>1. /\ pc[Main] = "start" /\ pc' = [pc EXCEPT ![Main] = "open"]
        /\ UNCHANGED <<phase, db, poolSize, allocated, pool, busy, openLock, cursor, slot>>
    BY <1>1 DEF Construct, EagerOpen
  <2>2. QED                          BY <1>0, <2>1
<1>2. CASE OpenCheck(Main)           BY <1>0, <1>2 DEF OpenCheck
<1>3. CASE TakeOpenLock(Main)        BY <1>0, <1>3 DEF TakeOpenLock
<1>4. CASE AlreadyOpen(Main)         BY <1>0, <1>4 DEF AlreadyOpen
<1>5. CASE OpenDatabase(Main)        BY <1>0, <1>5 DEF OpenDatabase
<1>6. CASE OpenDatabaseFails(Main)   BY <1>0, <1>6 DEF OpenDatabaseFails
<1>7. CASE SetPoolSize(Main)         BY <1>0, <1>7 DEF SetPoolSize
<1>8. CASE AllocatePool(Main)
  <2> HIDE DEF EagerInv, LockInv
  <2>1. QED                          BY <1>0, <1>8, EagerInvAllocatePool
<1>9. CASE AssignSlot(Main)
  <2>1. /\ pc[Main] = "assign" /\ cursor \in Slots
        /\ pc' = [pc EXCEPT ![Main] = "clear"]
        /\ pool' = [pool EXCEPT ![cursor] = TRUE]
        /\ UNCHANGED <<phase, db, poolSize, allocated, busy, cursor, slot>>
    BY <1>9 DEF AssignSlot
  <2>2. \A r \in Requests : pc[r] = "idle" /\ slot[r] = None    BY <2>1
  <2>3. QED                                      BY ONLY <1>0, <2>1, <2>2, EagerInv, PoolAssumption
<1>10. CASE CloneFails(Main)         BY <1>0, <1>10 DEF CloneFails
<1>11. CASE ClearBusy(Main)
  <2>1. /\ pc[Main] = "clear" /\ cursor \in Slots /\ cursor' = cursor + 1
        /\ busy' = [busy EXCEPT ![cursor] = FALSE]
        /\ UNCHANGED <<phase, db, poolSize, allocated, pool, slot>>
    BY <1>11 DEF ClearBusy
  <2>2. \A r \in Requests : pc[r] = "idle" /\ slot[r] = None    BY <2>1
  <2>3. CASE cursor + 1 < PoolSize
    <3>1. pc' = [pc EXCEPT ![Main] = "assign"]    BY <1>11, <2>3 DEF ClearBusy
    <3>2. QED                                    BY ONLY <1>0, <2>1, <2>2, <3>1, EagerInv, PoolAssumption
  <2>4. CASE ~(cursor + 1 < PoolSize)
    <3>1. pc' = [pc EXCEPT ![Main] = "startquery"]
      BY <1>11, <2>4 DEF ClearBusy
    <3>2. PoolComplete'                          BY <2>1, <2>4
    <3>3. QED                                    BY ONLY <1>0, <2>1, <2>2, <3>1, <3>2, EagerInv, PoolAssumption
  <2>5. QED                                      BY <2>3, <2>4
<1>12. CASE StartupQuery             BY <1>0, <1>12 DEF StartupQuery
<1>13. CASE Drain                    BY <1>0, <1>13 DEF Drain
<1>14. CASE BeginClose               BY <1>0, <1>14 DEF BeginClose
<1>15. CASE AllFree
  <2>1. allocated => \A i \in Slots : ~busy[i]     BY <1>15 DEF AllFree
  <2>2. \A r \in Requests : slot[r] = None         BY <2>1
  <2>3. \A r \in Requests : pc[r] = "idle"         BY <2>2, <1>15 DEF AllFree, NobodyReopens
  <2>4. /\ pc[Main] = "closescan" /\ pc' = [pc EXCEPT ![Main] = "closing"]
        /\ UNCHANGED <<phase, db, poolSize, allocated, pool, busy, openLock, slot>>
    BY <1>15 DEF AllFree
  <2>5. QED                                        BY ONLY <1>0, <2>3, <2>4, EagerInv, PoolAssumption
<1>16. CASE CloseHandle              BY <1>0, <1>16 DEF CloseHandle
<1>17. CASE Closed                   BY <1>0, <1>17 DEF Closed
<1>18. QED
  BY <1>1, <1>2, <1>3, <1>4, <1>5, <1>6, <1>7, <1>8, <1>9, <1>10, <1>11, <1>12,
     <1>13, <1>14, <1>15, <1>16, <1>17 DEF MainStep, OpenStep

\* A step of a request that moves its pc and touches nothing of the pool.
LEMMA RequestMoves ==
  ASSUME EagerInv, LockInv', NEW r \in Requests,
         NEW step \in {"idle"} \union WaitingSteps \union HoldingSteps,
         pc' = [pc EXCEPT ![r] = step],
         UNCHANGED <<phase, db, poolSize, allocated, pool, busy, openLock, cursor, slot>>,
         pc[r] \in HoldingSteps <=> step \in HoldingSteps,
         step # "idle" => pc[r] # "idle" \/ phase = "serving"
  PROVE  EagerInv'
<1> USE DEF EagerInv, LockInv, TypeOK, Places, RequestsFindPool, OpeningProgress,
        Gate, SlotsMatchBusy, HandlesExclusive, BusySlotHeld, PoolComplete
<1>1. RequestsFindPool'     OBVIOUS
<1>2. OpeningProgress'      OBVIOUS
<1>3. Gate'                 OBVIOUS
<1>4. SlotsMatchBusy'       OBVIOUS
<1>5. QED                   BY ONLY LockInv', <1>1, <1>2, <1>3, <1>4 DEF EagerInv

\* A request takes only a free slot of the complete pool and gives it back.
LEMMA EagerInvRequestStep ==
  ASSUME EagerOpen, EagerInv, NEW r \in Requests, RequestStep(r) \/ Begin(r) \/ Expire(r)
  PROVE  EagerInv'
<1>0. LockInv'   BY LockInvRequestStep DEF EagerInv
<1> USE DEF EagerInv, LockInv, TypeOK, Places, RequestsFindPool, OpeningProgress,
        Gate, SlotsMatchBusy, HandlesExclusive, BusySlotHeld, PoolComplete
<1>1. CASE OpenCheck(r)     BY <1>0, <1>1, RequestMoves DEF OpenCheck
<1>2. CASE OpenStep(r) /\ ~OpenCheck(r)
  <2>1. pc[r] \in OpeningSteps
    BY <1>2 DEF OpenStep, TakeOpenLock, AlreadyOpen, OpenDatabase,
                OpenDatabaseFails, SetPoolSize, AllocatePool, AssignSlot,
                CloneFails, ClearBusy
  <2>2. QED                 BY <2>1
<1>3. CASE Decline(r)       BY <1>0, <1>3, RequestMoves DEF Decline
<1>4. CASE CallAdapter(r)   BY <1>0, <1>4, RequestMoves DEF CallAdapter
<1>5. CASE TakeSlot(r)
  <2>1. PICK i \in FreeSlots :
           /\ busy' = [busy EXCEPT ![i] = TRUE]
           /\ slot' = [slot EXCEPT ![r] = i]
    BY <1>5 DEF TakeSlot
  <2>2. i \in Slots /\ ~busy[i]                BY <2>1 DEF FreeSlots
  <2>3. \A s \in Requests : slot[s] # i        BY <2>2
  <2>4. pc[r] = "acquire" /\ pc' = [pc EXCEPT ![r] = "held"]
    BY <1>5 DEF TakeSlot
  <2>5. UNCHANGED <<phase, db, poolSize, allocated, pool, openLock, cursor>>
    BY <1>5 DEF TakeSlot
  <2>6. RequestsFindPool'                      BY <2>4, <2>5
  <2>7. OpeningProgress' /\ Gate'              BY <2>4, <2>5
  <2>8. SlotsMatchBusy'
    <3>1. \A s \in Requests : slot'[s] = IF s = r THEN i ELSE slot[s]   BY <2>1
    <3>2. \A j \in Slots : busy'[j] <=> (j = i \/ busy[j])             BY <2>1, <2>2
    <3>3. \A s \in Requests : pc'[s] = IF s = r THEN "held" ELSE pc[s] BY <2>4
    <3>4. \A s \in Requests : slot'[s] # None <=> pc'[s] \in HoldingSteps
      BY <2>2, <3>1, <3>3
    <3>5. \A s \in Requests : slot'[s] # None => busy'[slot'[s]]        BY <2>2, <3>1, <3>2
    <3>6. HandlesExclusive'                                            BY <2>2, <2>3, <3>1
    <3>7. BusySlotHeld'
      <4>1. slot[r] = None                       BY <2>4
      <4>2. SUFFICES ASSUME NEW j \in Slots, busy'[j]
                     PROVE  \E s \in Requests : slot'[s] = j   OBVIOUS
      <4>3. CASE j = i                           BY <4>3, <3>1
      <4>4. CASE j # i
        <5>1. PICK s \in Requests : slot[s] = j  BY <4>2, <4>4, <3>2
        <5>2. s # r                              BY <4>1, <5>1
        <5>3. slot'[s] = j                       BY <3>1, <5>1, <5>2
        <5>4. QED                                BY <5>3
      <4>5. QED                                  BY <4>3, <4>4
    <3>8. QED                                                          BY <3>4, <3>5, <3>6, <3>7
  <2>9. QED                                    BY ONLY <1>0, <2>6, <2>7, <2>8 DEF EagerInv
<1>6. CASE ScanFaults(r)    BY <1>0, <1>6, RequestMoves DEF ScanFaults
<1>7. CASE ScanMisses(r)    BY <1>0, <1>7, RequestMoves DEF ScanMisses
<1>8. CASE PoolTimeout(r)   BY <1>0, <1>8, RequestMoves DEF PoolTimeout
<1>9. CASE ScanAgain(r)     BY <1>0, <1>9, RequestMoves DEF ScanAgain
<1>10. CASE Refuse(r)       BY <1>0, <1>10, RequestMoves DEF Refuse
<1>11. CASE Execute(r)      BY <1>0, <1>11, RequestMoves DEF Execute
<1>12. CASE ExecuteEnds(r)  BY <1>0, <1>12, RequestMoves DEF ExecuteEnds
<1>13. CASE ReleaseDb(r)
  <2>1. slot[r] \in Slots /\ allocated /\ pc[r] = "release"   BY <1>13 DEF ReleaseDb
  <2>2. /\ busy' = [busy EXCEPT ![slot[r]] = FALSE]
        /\ slot' = [slot EXCEPT ![r] = None]
        /\ pc' = [pc EXCEPT ![r] = "idle"]
    BY <1>13, <2>1 DEF ReleaseDb
  <2>3. UNCHANGED <<phase, db, poolSize, allocated, pool, openLock, cursor>>
    BY <1>13 DEF ReleaseDb
  <2>4. RequestsFindPool'                      BY <2>2, <2>3
  <2>5. OpeningProgress' /\ Gate'              BY <2>2, <2>3
  <2>6. SlotsMatchBusy'                        BY <2>1, <2>2
  <2>7. QED                                    BY ONLY <1>0, <2>4, <2>5, <2>6 DEF EagerInv
<1>14. CASE Begin(r)        BY <1>0, <1>14, RequestMoves DEF Begin
<1>15. CASE Expire(r)       BY <1>0, <1>15 DEF Expire
<1>16. QED
  BY <1>1, <1>2, <1>3, <1>4, <1>5, <1>6, <1>7, <1>8, <1>9, <1>10, <1>11, <1>12,
     <1>13, <1>14, <1>15 DEF RequestStep

THEOREM EagerInvAlways == EagerOpen /\ Spec => []EagerInv
<1> SUFFICES ASSUME EagerOpen PROVE Spec => []EagerInv   OBVIOUS
<1>1. Init => EagerInv                                   BY EagerInvInit
<1>2. EagerInv /\ [Next]_vars => EagerInv'
  <2> SUFFICES ASSUME EagerInv, [Next]_vars PROVE EagerInv'   OBVIOUS
  <2>1. CASE MainStep \/ Drain       BY <2>1, EagerInvMainStep
  <2>2. ASSUME NEW r \in Requests, Begin(r) \/ RequestStep(r) \/ Expire(r)
        PROVE  EagerInv'             BY <2>2, EagerInvRequestStep
  <2>3. CASE UNCHANGED vars
    BY <2>3 DEF vars, EagerInv, LockInv, TypeOK, Places, LockHeld, CursorInRange,
                NobodyReopens, OpensCounted, RequestsFindPool, OpeningProgress,
                Gate, SlotsMatchBusy, HandlesExclusive, BusySlotHeld, PoolComplete
  <2>4. QED                          BY <2>1, <2>2, <2>3 DEF Next, Terminated
<1>3. QED  BY <1>1, <1>2, PTL DEF Spec

-----------------------------------------------------------------------------
(* A busy slot has a holder, in any mode of opening: slots that change under *)
(* their holders only ever become free too early.                           *)

HoldersPlaced == \A r \in Requests : slot[r] # None <=> pc[r] \in HoldingSteps

\* The second conjunct: Close found every slot free, and nobody takes one
\* afterwards.  The last two are for ReleaseDb, which leaves FPoolBusy alone once
\* the arrays are gone.
BusyInv ==
    /\ HoldersPlaced
    /\ BusySlotHeld
    /\ pc[Main] \in {"closing", "closed"} => \A i \in Slots : ~busy[i]
    /\ \A i \in Slots : busy[i] => allocated
    /\ \A t \in Threads : pc[t] \in {"assign", "clear"} => allocated
    /\ pc[Main] # "closed" => \A i \in Slots : pool[i] => allocated

\* A step that frees slots at most.
LEMMA BusyRests ==
  ASSUME LockInv, BusyInv, LockInv', UNCHANGED slot,
         \A i \in Slots : busy'[i] => busy[i],
         \A r \in Requests : pc'[r] \in HoldingSteps <=> pc[r] \in HoldingSteps,
         pc'[Main] \in {"closing", "closed"} => pc[Main] \in {"closing", "closed"},
         pc[Main] = "closed" => pc'[Main] = "closed",
         allocated => allocated',
         \A t \in Threads : pc'[t] \in {"assign", "clear"} => pc[t] \in {"assign", "clear"} \/ allocated',
         \A i \in Slots : pool'[i] => pool[i] \/ allocated'
  PROVE  BusyInv'
BY DEF BusyInv, HoldersPlaced, BusySlotHeld

LEMMA BusyInvOpenStep ==
  ASSUME LockInv, BusyInv, LockInv', NEW t \in Threads, OpenStep(t)
  PROVE  BusyInv'
<1> USE DEF LockInv, TypeOK, Places
<1>1. UNCHANGED slot /\ pc[t] \in OpeningSteps \union {"open"}
  BY DEF OpenStep, OpenCheck, TakeOpenLock, AlreadyOpen, OpenDatabase, OpenDatabaseFails,
     SetPoolSize, AllocatePool, AssignSlot, CloneFails, ClearBusy
<1>2. /\ \A s \in Threads \ {t} : pc'[s] = pc[s]
      /\ pc'[t] \in OpeningSteps \union {"startquery", "acquire", "up", "idle"}
  BY DEF OpenStep, OpenCheck, TakeOpenLock, AlreadyOpen, OpenDatabase, OpenDatabaseFails,
     SetPoolSize, AllocatePool, AssignSlot, CloneFails, ClearBusy
<1>3. CASE AllocatePool(t)
  <2>1. allocated' /\ \A i \in Slots : ~busy'[i]
    BY <1>3 DEF AllocatePool
  <2>2. QED    BY <1>1, <1>2, <2>1, BusyRests
<1>4. CASE AssignSlot(t)
  <2>1. /\ pc[t] = "assign" /\ allocated' = allocated /\ busy' = busy
        /\ pool' = [pool EXCEPT ![cursor] = TRUE]
    BY <1>4 DEF AssignSlot
  <2>2. allocated    BY <2>1 DEF BusyInv
  <2>3. QED    BY <1>1, <1>2, <2>1, <2>2, BusyRests
<1>5. CASE ClearBusy(t)
  <2>1. /\ pc[t] = "clear" /\ allocated' = allocated /\ pool' = pool
        /\ busy' = [busy EXCEPT ![cursor] = FALSE]
    BY <1>5 DEF ClearBusy
  <2>2. allocated    BY <2>1 DEF BusyInv
  <2>3. \A i \in Slots : busy'[i] => busy[i]    BY <2>1
  <2>4. QED    BY <1>1, <1>2, <2>1, <2>2, <2>3, BusyRests
<1>6. CASE OpenStep(t) /\ ~AllocatePool(t) /\ ~AssignSlot(t) /\ ~ClearBusy(t)
  <2>1. UNCHANGED <<allocated, pool, busy>> /\ pc'[t] \notin {"assign", "clear"}
    BY <1>6 DEF OpenStep, OpenCheck, TakeOpenLock, AlreadyOpen, OpenDatabase,
       OpenDatabaseFails, SetPoolSize, CloneFails
  <2>2. QED    BY <1>1, <1>2, <2>1, BusyRests
<1>7. QED    BY <1>3, <1>4, <1>5, <1>6

LEMMA BusyInvMainStep ==
  ASSUME LockInv, BusyInv, LockInv', MainStep \/ Drain
  PROVE  BusyInv'
<1>1. CASE OpenStep(Main)    BY <1>1, BusyInvOpenStep
<1> USE DEF LockInv, TypeOK, Places
<1>2. CASE Construct \/ StartupQuery \/ Drain \/ BeginClose
  <2>1. /\ UNCHANGED <<allocated, pool, busy, slot>>
        /\ \A r \in Requests : pc'[r] = pc[r]
        /\ pc[Main] # "closed" /\ pc'[Main] \in {"open", "up", "closescan"}
    BY <1>2 DEF Construct, StartupQuery, Drain, BeginClose
  <2>2. QED    BY <2>1, BusyRests
<1>3. CASE AllFree
  <2>1. /\ UNCHANGED <<allocated, pool, busy, slot>>
        /\ \A r \in Requests : pc'[r] = pc[r]
        /\ pc[Main] = "closescan" /\ pc'[Main] = "closing"
        /\ \A i \in Slots : ~busy[i]
    BY <1>3 DEF AllFree, BusyInv
  <2>2. QED    BY <2>1 DEF BusyInv, HoldersPlaced, BusySlotHeld
<1>4. CASE CloseHandle
  <2>1. /\ UNCHANGED <<allocated, busy, slot, pc>>
        /\ pool' = [pool EXCEPT ![cursor] = FALSE]
    BY <1>4 DEF CloseHandle
  <2>2. \A i \in Slots : pool'[i] => pool[i]    BY <2>1
  <2>3. QED    BY <2>1, <2>2, BusyRests
<1>5. CASE Closed
  <2>1. /\ UNCHANGED <<busy, slot>>
        /\ \A r \in Requests : pc'[r] = pc[r] /\ pc[r] \notin {"assign", "clear"}
        /\ pc[Main] = "closing" /\ pc'[Main] = "closed"
    BY <1>5 DEF Closed, NobodyReopens
  <2>2. QED    BY <2>1 DEF BusyInv, HoldersPlaced, BusySlotHeld
<1>6. QED    BY <1>1, <1>2, <1>3, <1>4, <1>5 DEF MainStep

LEMMA BusyInvRequestStep ==
  ASSUME LockInv, BusyInv, LockInv', NEW r \in Requests, RequestStep(r) \/ Begin(r) \/ Expire(r)
  PROVE  BusyInv'
<1>1. CASE OpenStep(r)    BY <1>1, BusyInvOpenStep
<1> USE DEF LockInv, TypeOK, Places
<1>2. CASE TakeSlot(r)
  <2>1. PICK i \in FreeSlots :
           /\ busy' = [busy EXCEPT ![i] = TRUE]
           /\ slot' = [slot EXCEPT ![r] = i]
    BY <1>2 DEF TakeSlot
  <2>2. i \in Slots /\ pool[i]                   BY <2>1 DEF FreeSlots
  <2>3. /\ pc[r] = "acquire" /\ pc' = [pc EXCEPT ![r] = "held"]
        /\ UNCHANGED <<allocated, pool>>
    BY <1>2 DEF TakeSlot
  <2>4. pc[Main] \notin ClosingSteps             BY <2>3 DEF NobodyReopens
  <2>5. allocated                                BY <2>2, <2>4 DEF BusyInv
  <2>6. slot[r] = None                           BY <2>3 DEF BusyInv, HoldersPlaced
  <2>7. \A s \in Requests : slot'[s] = IF s = r THEN i ELSE slot[s]      BY <2>1
  <2>8. \A s \in Threads : pc'[s] = IF s = r THEN "held" ELSE pc[s]      BY <2>3
  <2>9. HoldersPlaced'            BY <2>2, <2>7, <2>8 DEF BusyInv, HoldersPlaced
  <2>10. BusySlotHeld'
    <3> SUFFICES ASSUME NEW j \in Slots, busy'[j]
                 PROVE  \E s \in Requests : slot'[s] = j    BY DEF BusySlotHeld
    <3>1. CASE j = i                             BY <3>1, <2>7
    <3>2. CASE j # i
      <4>1. busy[j]                              BY <2>1, <3>2
      <4>2. PICK s \in Requests : slot[s] = j    BY <4>1 DEF BusyInv, BusySlotHeld
      <4>3. s # r                                BY <2>6, <4>2
      <4>4. QED                                  BY <2>7, <4>2, <4>3
    <3>3. QED                                    BY <3>1, <3>2
  <2>11. QED    BY <2>3, <2>4, <2>5, <2>8, <2>9, <2>10 DEF BusyInv
<1>3. CASE ReleaseDb(r)
  <2>1. /\ pc[r] = "release" /\ pc' = [pc EXCEPT ![r] = "idle"]
        /\ slot' = [slot EXCEPT ![r] = None]
        /\ busy' = IF allocated THEN [busy EXCEPT ![slot[r]] = FALSE] ELSE busy
        /\ UNCHANGED <<allocated, pool>>
    BY <1>3 DEF ReleaseDb
  <2>2. slot[r] \in Slots                        BY <2>1 DEF BusyInv, HoldersPlaced
  <2>3. \A j \in Slots : busy'[j] => busy[j] /\ j # slot[r]
    BY <2>1, <2>2 DEF BusyInv
  <2>4. \A s \in Requests : slot'[s] = IF s = r THEN None ELSE slot[s]   BY <2>1
  <2>5. \A s \in Threads : pc'[s] = IF s = r THEN "idle" ELSE pc[s]      BY <2>1
  <2>6. HoldersPlaced'            BY <2>4, <2>5 DEF BusyInv, HoldersPlaced
  <2>7. BusySlotHeld'             BY <2>3, <2>4 DEF BusyInv, BusySlotHeld
  <2>8. QED    BY <2>1, <2>3, <2>5, <2>6, <2>7 DEF BusyInv
<1>4. CASE \/ Begin(r) \/ Expire(r) \/ Decline(r) \/ CallAdapter(r) \/ ScanFaults(r)
           \/ ScanMisses(r) \/ PoolTimeout(r) \/ ScanAgain(r) \/ Refuse(r) \/ Execute(r)
           \/ ExecuteEnds(r)
  <2>1. UNCHANGED <<allocated, pool, busy, slot>>
    BY <1>4 DEF Begin, Expire, Decline, CallAdapter, ScanFaults, ScanMisses, PoolTimeout,
       ScanAgain, Refuse, Execute, ExecuteEnds
  <2>2. /\ \A s \in Threads \ {r} : pc'[s] = pc[s]
        /\ pc'[r] \notin {"assign", "clear"} \/ pc'[r] = pc[r]
        /\ pc'[r] \in HoldingSteps <=> pc[r] \in HoldingSteps
    BY <1>4 DEF Begin, Expire, Decline, CallAdapter, ScanFaults, ScanMisses, PoolTimeout,
       ScanAgain, Refuse, Execute, ExecuteEnds
  <2>3. QED    BY <2>1, <2>2, BusyRests
<1>5. QED    BY <1>1, <1>2, <1>3, <1>4 DEF RequestStep

LEMMA BusyInvNext ==
  ASSUME LockInv, LockInv', BusyInv, [Next]_vars
  PROVE  BusyInv'
<1>1. CASE MainStep \/ Drain       BY <1>1, BusyInvMainStep
<1>2. ASSUME NEW r \in Requests, Begin(r) \/ RequestStep(r) \/ Expire(r)
      PROVE  BusyInv'              BY <1>2, BusyInvRequestStep
<1>3. CASE UNCHANGED vars
  BY <1>3 DEF vars, BusyInv, HoldersPlaced, BusySlotHeld
<1>4. QED                          BY <1>1, <1>2, <1>3 DEF Next, Terminated

LEMMA BusyInvAlways == Spec => []BusyInv
<1>1. Init => BusyInv
  BY DEF Init, BusyInv, HoldersPlaced, BusySlotHeld
<1>2. LockInv /\ LockInv' /\ BusyInv /\ [Next]_vars => BusyInv'   BY BusyInvNext
<1>3. QED                          BY <1>1, <1>2, LockInvAlways, PTL DEF Spec

\* No path through ExecuteJson leaves a slot marked busy, whether the pool is
\* opened at start or by requests that race for it, and whatever fails.
THEOREM NoHandleLeaks == Spec => []NoLeakedHandle
<1>1. BusyInv => NoLeakedHandle
  BY DEF BusyInv, HoldersPlaced, BusySlotHeld, NoLeakedHandle
<1>2. QED                          BY <1>1, BusyInvAlways, PTL

-----------------------------------------------------------------------------
(* Exclusive use in any mode of opening.  OpenUnlocked clears FPoolBusy[I]  *)
(* after it assigned FPool[I], and outside FPoolLock.  As long as no request *)
(* took the slot in between, nothing else can go wrong: ClearsFree is all   *)
(* that the run HandlePoolLazyRace violates.                                *)

ClearsFree ==
    \A t \in Threads : ClearBusy(t) => \A r \in Requests : slot[r] # cursor

\* OpenUnlocked gives the arrays their length once, before there is a handle.
AllocatesOnce ==
    /\ ~db => ~allocated
    /\ \A t \in Threads : pc[t] \in {"size", "alloc"} => db /\ ~allocated

GrantInv ==
    /\ LockInv
    /\ BusyInv
    /\ SlotsMatchBusy
    /\ HeldHandleOpen
    /\ AllocatesOnce

LEMMA GrantInvInit == Init => GrantInv
<1> SUFFICES ASSUME Init PROVE GrantInv   OBVIOUS
<1>1. LockInv                             BY LockInvInit
<1>2. BusyInv                             BY DEF Init, BusyInv, HoldersPlaced, BusySlotHeld
<1>3. SlotsMatchBusy    BY DEF Init, SlotsMatchBusy, HandlesExclusive, BusySlotHeld
<1>4. HeldHandleOpen                      BY DEF Init, HeldHandleOpen
<1>5. AllocatesOnce                       BY DEF Init, AllocatesOnce
<1>6. QED               BY <1>1, <1>2, <1>3, <1>4, <1>5 DEF GrantInv

\* The arrays get their length once: FDb is assigned under FOpenLock by a thread
\* that found it unassigned, and nobody reopens after Close.
LEMMA AllocatesOnceStep ==
  ASSUME LockInv, AllocatesOnce, [Next]_vars
  PROVE  AllocatesOnce'
<1> USE DEF LockInv, TypeOK, Places, LockHeld, AllocatesOnce
<1>1. ASSUME NEW t \in Threads, OpenStep(t)
      PROVE  AllocatesOnce'
  <2> USE DEF OpenStep
  <2>1. CASE AllocatePool(t)
    <3>1. /\ pc[t] = "alloc" /\ pc' = [pc EXCEPT ![t] = "assign"]
          /\ UNCHANGED db /\ allocated'
      BY <2>1 DEF AllocatePool
    <3>2. \A s \in Threads : pc'[s] \notin {"size", "alloc"}
      <4>1. SUFFICES ASSUME NEW s \in Threads, s # t PROVE pc[s] \notin {"size", "alloc"}
        BY <3>1
      <4>2. openLock = t                     BY <3>1
      <4>3. pc[s] \notin LockedSteps         BY <4>1, <4>2
      <4>4. QED                              BY <4>3
    <3>3. db                                 BY <3>1
    <3>4. QED                                BY <3>1, <3>2, <3>3
  <2>2. CASE OpenDatabase(t)
    <3>1. /\ pc[t] = "locked" /\ pc' = [pc EXCEPT ![t] = "size"]
          /\ UNCHANGED allocated /\ ~allocated /\ db'
      BY <2>2 DEF OpenDatabase
    <3>2. QED                                BY <3>1
  <2>3. CASE SetPoolSize(t)
    <3>1. /\ pc[t] = "size" /\ pc' = [pc EXCEPT ![t] = "alloc"]
          /\ UNCHANGED <<db, allocated>>
      BY <2>3 DEF SetPoolSize
    <3>2. QED                                BY <3>1
  <2>4. CASE ~AllocatePool(t) /\ ~OpenDatabase(t) /\ ~SetPoolSize(t)
    <3>1. /\ UNCHANGED <<db, allocated>>
          /\ \A s \in Threads \ {t} : pc'[s] = pc[s]
          /\ pc'[t] \notin {"size", "alloc"}
      BY <1>1, <2>4 DEF OpenCheck, TakeOpenLock, AlreadyOpen, OpenDatabaseFails, AssignSlot,
         CloneFails, ClearBusy
    <3>2. QED                                BY <3>1
  <2>5. QED                                  BY <2>1, <2>2, <2>3, <2>4
<1>2. CASE MainStep \/ Drain
  <2>1. CASE OpenStep(Main)                  BY <1>1, <2>1
  <2>2. CASE Closed
    <3>1. /\ pc[Main] = "closing" /\ pc' = [pc EXCEPT ![Main] = "closed"]
          /\ ~allocated' /\ ~db'
      BY <2>2 DEF Closed
    <3>2. \A r \in Requests : pc[r] \notin {"size", "alloc"}
      BY <3>1 DEF NobodyReopens
    <3>3. QED                                BY <3>1, <3>2
  <2>3. CASE Construct \/ StartupQuery \/ BeginClose \/ AllFree \/ CloseHandle \/ Drain
    <3>1. /\ UNCHANGED <<db, allocated>>
          /\ \A r \in Requests : pc'[r] = pc[r]
          /\ pc'[Main] \notin {"size", "alloc"}
      BY <2>3 DEF Construct, StartupQuery, BeginClose, AllFree, CloseHandle, Drain
    <3>2. QED                                BY <3>1
  <2>4. QED                                  BY <1>2, <2>1, <2>2, <2>3 DEF MainStep
<1>3. ASSUME NEW r \in Requests, Begin(r) \/ RequestStep(r) \/ Expire(r)
      PROVE  AllocatesOnce'
  <2>1. CASE OpenStep(r)                     BY <1>1, <2>1
  <2>2. CASE ~OpenStep(r)
    <3>1. /\ UNCHANGED <<db, allocated>>
          /\ \A s \in Threads \ {r} : pc'[s] = pc[s]
          /\ pc'[r] \notin {"size", "alloc"} \/ pc'[r] = pc[r]
      BY <1>3, <2>2 DEF RequestStep, Begin, Expire, Decline, CallAdapter, TakeSlot, ScanFaults,
         ScanMisses, PoolTimeout, ScanAgain, Refuse, Execute, ExecuteEnds, ReleaseDb
    <3>2. QED                                BY <3>1
  <2>3. QED                                  BY <2>1, <2>2
<1>4. CASE UNCHANGED vars                    BY <1>4 DEF vars
<1>5. QED                                    BY <1>2, <1>3, <1>4 DEF Next, Terminated

\* The slots, their flags and their holders: what is left of GrantInv.
HoldersServed == SlotsMatchBusy /\ HeldHandleOpen

\* A step that takes no handle from a holder.
LEMMA HoldersRest ==
  ASSUME LockInv, BusyInv, HoldersServed, BusyInv', UNCHANGED slot,
         \A r \in Requests : slot[r] # None => busy'[slot[r]] /\ pool'[slot[r]]
  PROVE  HoldersServed'
BY DEF LockInv, TypeOK, BusyInv, HoldersPlaced, HoldersServed, SlotsMatchBusy,
       HandlesExclusive, HeldHandleOpen

LEMMA HoldersServedOpenStep ==
  ASSUME GrantInv, BusyInv', NEW t \in Threads, OpenStep(t), ClearsFree
  PROVE  HoldersServed'
<1> USE DEF GrantInv, LockInv, TypeOK
<1>0. HoldersServed          BY DEF HoldersServed
<1>a. \A r \in Requests : slot[r] # None => busy[slot[r]] /\ pool[slot[r]]
  BY DEF SlotsMatchBusy, HeldHandleOpen
<1>1. CASE AllocatePool(t)
  <2>1. ~allocated /\ UNCHANGED slot    BY <1>1 DEF AllocatePool, AllocatesOnce
  <2>2. \A r \in Requests : slot[r] = None
    BY <2>1, <1>a DEF BusyInv
  <2>3. QED                  BY <1>0, <2>1, <2>2, HoldersRest
<1>2. CASE AssignSlot(t)
  <2>1. UNCHANGED <<slot, busy>> /\ pool' = [pool EXCEPT ![cursor] = TRUE]
    BY <1>2 DEF AssignSlot
  <2>2. \A r \in Requests : slot[r] # None => busy'[slot[r]] /\ pool'[slot[r]]
    BY <1>a, <2>1
  <2>3. QED                  BY <1>0, <2>1, <2>2, HoldersRest
<1>3. CASE ClearBusy(t)
  <2>1. UNCHANGED <<slot, pool>> /\ busy' = [busy EXCEPT ![cursor] = FALSE]
    BY <1>3 DEF ClearBusy
  <2>2. \A r \in Requests : slot[r] # cursor              BY <1>3 DEF ClearsFree
  <2>3. \A r \in Requests : slot[r] # None => busy'[slot[r]] /\ pool'[slot[r]]
    BY <1>a, <2>1, <2>2
  <2>4. QED                  BY <1>0, <2>1, <2>3, HoldersRest
<1>4. CASE ~AllocatePool(t) /\ ~AssignSlot(t) /\ ~ClearBusy(t)
  <2>1. UNCHANGED <<pool, busy, slot>>
    BY <1>4 DEF OpenStep, OpenCheck, TakeOpenLock, AlreadyOpen, OpenDatabase,
       OpenDatabaseFails, SetPoolSize, CloneFails
  <2>2. QED                  BY <1>0, <1>a, <2>1, HoldersRest
<1>5. QED                    BY <1>1, <1>2, <1>3, <1>4

LEMMA HoldersServedMainStep ==
  ASSUME GrantInv, BusyInv', MainStep \/ Drain, ClearsFree
  PROVE  HoldersServed'
<1>0. HoldersServed          BY DEF GrantInv, HoldersServed
<1>a. \A r \in Requests : slot[r] # None => slot[r] \in Slots /\ busy[slot[r]] /\ pool[slot[r]]
  BY DEF GrantInv, LockInv, TypeOK, SlotsMatchBusy, HeldHandleOpen
<1>1. CASE OpenStep(Main)    BY <1>1, HoldersServedOpenStep
<1>2. CASE CloseHandle
  <2>1. UNCHANGED <<slot, busy>> /\ pc[Main] = "closing"    BY <1>2 DEF CloseHandle
  <2>2. \A r \in Requests : slot[r] = None
    BY <1>a, <2>1 DEF GrantInv, BusyInv
  <2>3. QED                  BY <1>0, <2>1, <2>2, HoldersRest DEF GrantInv
<1>3. CASE Construct \/ StartupQuery \/ Drain \/ BeginClose \/ AllFree \/ Closed
  <2>1. UNCHANGED <<pool, busy, slot>>
    BY <1>3 DEF Construct, StartupQuery, Drain, BeginClose, AllFree, Closed
  <2>2. QED                  BY <1>0, <1>a, <2>1, HoldersRest DEF GrantInv
<1>4. QED                    BY <1>1, <1>2, <1>3 DEF MainStep

LEMMA HoldersServedRequestStep ==
  ASSUME GrantInv, BusyInv', NEW r \in Requests, Begin(r) \/ RequestStep(r) \/ Expire(r),
         ClearsFree
  PROVE  HoldersServed'
<1> USE DEF GrantInv, LockInv, TypeOK
<1>0. HoldersServed          BY DEF HoldersServed
<1>a. \A s \in Requests : slot[s] # None => busy[slot[s]] /\ pool[slot[s]]
  BY DEF SlotsMatchBusy, HeldHandleOpen
<1>b. HoldersPlaced' /\ BusySlotHeld'        BY DEF BusyInv
<1>1. CASE OpenStep(r)       BY <1>1, HoldersServedOpenStep
<1>2. CASE TakeSlot(r)
  <2>1. PICK i \in FreeSlots :
           /\ busy' = [busy EXCEPT ![i] = TRUE]
           /\ slot' = [slot EXCEPT ![r] = i]
    BY <1>2 DEF TakeSlot
  <2>2. i \in Slots /\ pool[i] /\ ~busy[i] /\ UNCHANGED pool
    BY <1>2, <2>1 DEF FreeSlots, TakeSlot
  <2>3. \A s \in Requests : slot[s] # i                       BY <1>a, <2>2
  <2>4. \A s \in Requests : slot'[s] = IF s = r THEN i ELSE slot[s]   BY <2>1
  <2>5. \A j \in Slots : busy'[j] <=> (j = i \/ busy[j])      BY <2>1, <2>2
  <2>6. HandlesExclusive'    BY <2>2, <2>3, <2>4 DEF SlotsMatchBusy, HandlesExclusive
  <2>7. \A s \in Requests : slot'[s] # None => busy'[slot'[s]] /\ pool'[slot'[s]]
    BY <1>a, <2>2, <2>4, <2>5
  <2>8. QED
    BY ONLY <1>b, <2>6, <2>7 DEF HoldersServed, SlotsMatchBusy, HoldersPlaced, HeldHandleOpen
<1>3. CASE ReleaseDb(r)
  <2>1. /\ pc[r] = "release" /\ slot' = [slot EXCEPT ![r] = None]
        /\ busy' = IF allocated THEN [busy EXCEPT ![slot[r]] = FALSE] ELSE busy
        /\ UNCHANGED pool
    BY <1>3 DEF ReleaseDb
  <2>2. \A s \in Requests : slot'[s] = IF s = r THEN None ELSE slot[s]   BY <2>1
  <2>3. HandlesExclusive'    BY <2>2 DEF SlotsMatchBusy, HandlesExclusive
  <2>4. \A s \in Requests : slot'[s] # None => busy'[slot'[s]] /\ pool'[slot'[s]]
    <3>1. SUFFICES ASSUME NEW s \in Requests, s # r, slot[s] # None
                   PROVE  busy'[slot[s]] /\ pool'[slot[s]]
      BY <2>2
    <3>2. slot[s] # slot[r]  BY <3>1 DEF SlotsMatchBusy, HandlesExclusive
    <3>3. QED                BY <1>a, <2>1, <3>1, <3>2
  <2>5. QED
    BY ONLY <1>b, <2>3, <2>4 DEF HoldersServed, SlotsMatchBusy, HoldersPlaced, HeldHandleOpen
<1>4. CASE ~OpenStep(r) /\ ~TakeSlot(r) /\ ~ReleaseDb(r)
  <2>1. UNCHANGED <<pool, busy, slot>>
    BY <1>4 DEF RequestStep, Begin, Expire, Decline, CallAdapter, ScanFaults, ScanMisses,
       PoolTimeout, ScanAgain, Refuse, Execute, ExecuteEnds
  <2>2. QED                  BY <1>0, <1>a, <2>1, HoldersRest
<1>5. QED                    BY <1>1, <1>2, <1>3, <1>4

LEMMA GrantInvAlways == Spec /\ [][ClearsFree]_vars => []GrantInv
<1>1. GrantInv /\ LockInv' /\ BusyInv' /\ [Next]_vars /\ [ClearsFree]_vars => GrantInv'
  <2> SUFFICES ASSUME GrantInv, LockInv', BusyInv', [Next]_vars, [ClearsFree]_vars
               PROVE  GrantInv'
    OBVIOUS
  <2>1. AllocatesOnce'       BY AllocatesOnceStep DEF GrantInv
  <2>2. HoldersServed'
    <3>1. CASE UNCHANGED vars
      <4>1. UNCHANGED <<pool, busy, slot>>   BY <3>1 DEF vars
      <4>2. \A r \in Requests : slot[r] # None => busy[slot[r]] /\ pool[slot[r]]
        BY DEF GrantInv, SlotsMatchBusy, HeldHandleOpen
      <4>3. QED              BY <4>1, <4>2, HoldersRest DEF GrantInv, HoldersServed
    <3>2. CASE ~UNCHANGED vars
      <4>1. ClearsFree       BY <3>2
      <4>2. CASE MainStep \/ Drain           BY <4>1, <4>2, HoldersServedMainStep
      <4>3. ASSUME NEW r \in Requests, Begin(r) \/ RequestStep(r) \/ Expire(r)
            PROVE  HoldersServed'            BY <4>1, <4>3, HoldersServedRequestStep
      <4>4. QED              BY <3>2, <4>2, <4>3 DEF Next, Terminated
    <3>3. QED                BY <3>1, <3>2
  <2>3. QED                  BY <2>1, <2>2 DEF GrantInv, HoldersServed
<1>2. QED  BY GrantInvInit, <1>1, LockInvAlways, BusyInvAlways, PTL DEF Spec

\* In any mode of opening, whatever fails and however many threads race for the
\* opening: two requests never hold the same handle (docs/user-guide.md:84),
\* unless OpenUnlocked clears the flag of a slot that somebody holds.
THEOREM OnlyClearBusySharesHandles == Spec /\ [][ClearsFree]_vars => []HandlesExclusive
<1>1. GrantInv => HandlesExclusive   BY DEF GrantInv, SlotsMatchBusy
<1>2. QED                            BY <1>1, GrantInvAlways, PTL

\* With the same exception, Close never closes a handle that a request uses.
THEOREM OnlyClearBusyClosesHeld == Spec /\ [][ClearsFree]_vars => []HeldHandleOpen
<1>1. GrantInv => HeldHandleOpen     BY DEF GrantInv
<1>2. QED                            BY <1>1, GrantInvAlways, PTL

\* When the constructor opens the pool it clears the flags before any request exists.
LEMMA EagerClearsFree == EagerOpen /\ Spec => [][ClearsFree]_vars
<1>1. EagerInv => ClearsFree
  BY DEF EagerInv, LockInv, TypeOK, CursorInRange, RequestsFindPool, Gate, SlotsMatchBusy,
         ClearsFree, ClearBusy
<1>2. QED                            BY <1>1, EagerInvAlways, PTL

\* With startup_check, two requests never hold the same handle
\* (docs/user-guide.md:84), whatever the number of requests and handles.
THEOREM EagerHandlesExclusive == EagerOpen /\ Spec => []HandlesExclusive
  BY EagerClearsFree, OnlyClearBusySharesHandles, PTL

\* With startup_check, Close never closes a handle that a request uses.
THEOREM EagerHeldHandleOpen == EagerOpen /\ Spec => []HeldHandleOpen
  BY EagerClearsFree, OnlyClearBusyClosesHeld, PTL

-----------------------------------------------------------------------------
(* The pool implements ExclusiveHandles: every step grants, returns,        *)
(* publishes or discards one handle, or changes nothing of the abstract     *)
(* state.                                                                   *)

Live == {i \in Slots : pool[i]}
Users == [i \in Slots |-> {r \in Requests : slot[r] = i}]

LEMMA AbsStutter ==
  ASSUME UNCHANGED <<pool, slot>>
  PROVE  UNCHANGED <<Live, Users>>
  BY DEF Live, Users

LEMMA AbsTakeSlot ==
  ASSUME GrantInv, NEW r \in Requests, TakeSlot(r)
  PROVE  \E i \in Slots : Abs!Grant(r, i)
<1> USE DEF GrantInv, LockInv, TypeOK, SlotsMatchBusy
<1>1. PICK i \in FreeSlots : slot' = [slot EXCEPT ![r] = i]   BY DEF TakeSlot
<1>2. i \in Slots /\ pool[i] /\ ~busy[i]                      BY <1>1 DEF FreeSlots
<1>3. \A s \in Requests : slot[s] # i                         BY <1>2
<1>4. slot[r] = None                                          BY DEF TakeSlot
<1>5. \A j \in Slots : {s \in Requests : slot'[s] = j} =
                         IF j = i THEN {r} ELSE {s \in Requests : slot[s] = j}
  BY <1>1, <1>2, <1>3, <1>4
<1>6. Users' = [Users EXCEPT ![i] = {r}]                      BY <1>2, <1>5 DEF Users
<1>7. i \in Live /\ Users[i] = {} /\ \A j \in Slots : r \notin Users[j]
  BY <1>2, <1>3, <1>4 DEF Live, Users
<1>8. Live' = Live                                            BY DEF TakeSlot, Live
<1>9. QED            BY ONLY <1>2, <1>6, <1>7, <1>8 DEF Abs!Grant, Live, Users

LEMMA AbsReleaseDb ==
  ASSUME GrantInv, NEW r \in Requests, ReleaseDb(r)
  PROVE  \E i \in Slots : Abs!Return(r, i)
<1> USE DEF GrantInv, LockInv, TypeOK, SlotsMatchBusy, HandlesExclusive
<1>1. slot[r] \in Slots /\ slot' = [slot EXCEPT ![r] = None]   BY DEF ReleaseDb
<1>2. \A s \in Requests : slot[s] = slot[r] => s = r          BY <1>1
<1>3. \A j \in Slots : {s \in Requests : slot'[s] = j} =
                         IF j = slot[r] THEN {} ELSE {s \in Requests : slot[s] = j}
  BY <1>1, <1>2
<1>4. Users' = [Users EXCEPT ![slot[r]] = {}]
  <2>1. Users' = [j \in Slots |-> {s \in Requests : slot'[s] = j}]    BY DEF Users
  <2>2. Users' = [j \in Slots |-> IF j = slot[r] THEN {} ELSE {s \in Requests : slot[s] = j}]
    BY ONLY <1>3, <2>1
  <2>3. QED                                                   BY ONLY <1>1, <2>2 DEF Users
<1>5. Users[slot[r]] = {r}                                    BY <1>1, <1>2 DEF Users
<1>6. Live' = Live                                            BY DEF ReleaseDb, Live
<1>7. QED            BY ONLY <1>1, <1>4, <1>5, <1>6 DEF Abs!Return, Live, Users

LEMMA AbsAssignSlot ==
  ASSUME GrantInv, NEW t \in Threads, AssignSlot(t)
  PROVE  (\E i \in Slots : Abs!Publish(i)) \/ UNCHANGED <<Live, Users>>
<1> USE DEF GrantInv, LockInv, TypeOK, CursorInRange
<1>1. cursor \in Slots /\ pool' = [pool EXCEPT ![cursor] = TRUE]   BY DEF AssignSlot
<1>2. Live' = Live \union {cursor}                                BY <1>1 DEF Live
<1>3. Users' = Users                                              BY DEF AssignSlot, Users
<1>4. CASE cursor \in Live
  <2>1. Live' = Live                 BY ONLY <1>2, <1>4
  <2>2. QED                          BY ONLY <1>3, <2>1
<1>5. CASE cursor \notin Live
  <2>1. Abs!Publish(cursor)
    BY ONLY <1>2, <1>3, <1>5 DEF Abs!Publish, Live, Users
  <2>2. QED                          BY ONLY <1>1, <2>1 DEF Abs!Publish
<1>6. QED            BY ONLY <1>4, <1>5

LEMMA AbsCloseHandle ==
  ASSUME GrantInv, CloseHandle
  PROVE  (\E i \in Slots : Abs!Discard(i)) \/ UNCHANGED <<Live, Users>>
<1> USE DEF GrantInv, LockInv, TypeOK, CursorInRange
<1>1. cursor \in Slots /\ pool' = [pool EXCEPT ![cursor] = FALSE]  BY DEF CloseHandle
<1>2. Live' = Live \ {cursor}                                     BY <1>1 DEF Live
<1>3. Users' = Users                                              BY DEF CloseHandle, Users
<1>4. \A r \in Requests : slot[r] = None
  BY DEF CloseHandle, BusyInv, SlotsMatchBusy
<1>5. Users[cursor] = {}                                          BY <1>1, <1>4 DEF Users
<1>6. CASE cursor \in Live
  <2>1. Abs!Discard(cursor)
    BY ONLY <1>2, <1>3, <1>5, <1>6 DEF Abs!Discard, Live, Users
  <2>2. QED                          BY ONLY <1>1, <2>1 DEF Abs!Discard
<1>7. CASE cursor \notin Live
  <2>1. Live' = Live                 BY ONLY <1>2, <1>7
  <2>2. QED                          BY ONLY <1>3, <2>1
<1>8. QED            BY ONLY <1>6, <1>7

LEMMA AbsAllocatePool ==
  ASSUME GrantInv, NEW t \in Threads, AllocatePool(t)
  PROVE  UNCHANGED <<Live, Users>>
<1>1. ~allocated                BY DEF AllocatePool, GrantInv, AllocatesOnce
<1>2. pc[Main] # "closed"       BY DEF AllocatePool, GrantInv, LockInv, NobodyReopens
<1>3. Live = {} /\ Live' = {}   BY <1>1, <1>2 DEF AllocatePool, Live, GrantInv, BusyInv
<1>4. Users' = Users            BY DEF AllocatePool, Users
<1>5. QED                       BY <1>3, <1>4

LEMMA AbsOpenStep ==
  ASSUME GrantInv, NEW t \in Threads, OpenStep(t)
  PROVE  (\E i \in Slots : Abs!Publish(i)) \/ UNCHANGED <<Live, Users>>
<1>1. CASE AssignSlot(t)        BY <1>1, AbsAssignSlot
<1>2. CASE AllocatePool(t)      BY <1>2, AbsAllocatePool
<1>3. CASE ~AssignSlot(t) /\ ~AllocatePool(t)
  <2>1. UNCHANGED <<pool, slot>>
    BY <1>3 DEF OpenStep, OpenCheck, TakeOpenLock, AlreadyOpen, OpenDatabase,
                OpenDatabaseFails, SetPoolSize, CloneFails, ClearBusy
  <2>2. QED                     BY <2>1, AbsStutter
<1>4. QED                       BY <1>1, <1>2, <1>3

\* The pool keeps the promise of ExclusiveHandles: a handle is granted to one
\* request at a time and discarded only when unused.  The exception is ClearBusy
\* of a slot that somebody holds.
THEOREM OnlyClearBusyBreaksPromise ==
  Spec /\ [][ClearsFree]_vars => ImplementsExclusiveHandles
<1>1. Init => Abs!Init   BY DEF Init, Abs!Init
<1>2. GrantInv /\ [Next]_vars => [Abs!Next]_(Abs!vars)
  <2> SUFFICES ASSUME GrantInv, [Next]_vars
               PROVE  Abs!Next \/ UNCHANGED <<Live, Users>>
    BY DEF Abs!vars, Live, Users
  <2>1. CASE MainStep
    <3>1. CASE OpenStep(Main)
      BY <3>1, AbsOpenStep DEF Abs!Next
    <3>2. CASE CloseHandle            BY <3>2, AbsCloseHandle DEF Abs!Next
    <3>3. CASE Construct \/ StartupQuery \/ BeginClose \/ AllFree \/ Closed
      <4>1. UNCHANGED <<pool, slot>>
        BY <3>3 DEF Construct, StartupQuery, BeginClose, AllFree, Closed
      <4>2. QED                       BY <4>1, AbsStutter
    <3>4. QED                         BY <2>1, <3>1, <3>2, <3>3 DEF MainStep
  <2>2. CASE Drain \/ UNCHANGED vars
    <3>1. UNCHANGED <<pool, slot>>    BY <2>2 DEF Drain, vars
    <3>2. QED                         BY <3>1, AbsStutter
  <2>3. ASSUME NEW r \in Requests, Begin(r) \/ RequestStep(r) \/ Expire(r)
        PROVE  Abs!Next \/ UNCHANGED <<Live, Users>>
    <3>1. CASE OpenStep(r)            BY <3>1, AbsOpenStep DEF Abs!Next
    <3>2. CASE TakeSlot(r)            BY <3>2, AbsTakeSlot DEF Abs!Next
    <3>3. CASE ReleaseDb(r)           BY <3>3, AbsReleaseDb DEF Abs!Next
    <3>4. CASE ~OpenStep(r) /\ ~TakeSlot(r) /\ ~ReleaseDb(r)
      <4>1. UNCHANGED <<pool, slot>>
        BY <2>3, <3>4 DEF RequestStep, Begin, Expire, Decline, CallAdapter, ScanFaults,
           ScanMisses, PoolTimeout, ScanAgain, Refuse, Execute, ExecuteEnds
      <4>2. QED                       BY <4>1, AbsStutter
    <3>5. QED                         BY <3>1, <3>2, <3>3, <3>4
  <2>4. QED                           BY <2>1, <2>2, <2>3 DEF Next, Terminated
<1>3. QED
  BY <1>1, <1>2, GrantInvAlways, PTL DEF Spec, Abs!Spec, ImplementsExclusiveHandles

\* With startup_check there is no exception.
THEOREM EagerImplementsExclusiveHandles == EagerOpen /\ Spec => ImplementsExclusiveHandles
  BY EagerClearsFree, OnlyClearBusyBreaksPromise, PTL

=============================================================================
