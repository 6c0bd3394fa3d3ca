----------------------- MODULE ServerLifecycle_proofs -----------------------
(***************************************************************************)
(* Proofs about ServerLifecycle, for any number of connections, handles    *)
(* and admitted requests: the count of active requests is exact, the       *)
(* adapter is at rest when the server object is destroyed, and the server  *)
(* is the caller that HandlePool takes for granted, so that what           *)
(* HandlePool_proofs shows holds for the server.                           *)
(***************************************************************************)
EXTENDS ServerLifecycle, HandlePool_proofs, FiniteSetTheorems

HandlerPlaces == {"none", "reading", "entered", "token", "sql", "finally", "leave"}
InsideHandler == {"entered", "token", "sql"}

\* Serve before RequestShutdown, and after FReady was cleared.
Untold == {"construct", "poll", "setFlag"}
Told == {"deactivate", "wake", "waking", "waitActive", "waitThread", "freeAuth", "freeAdapter"}
Resting == {"waitThread", "freeAuth", "freeAdapter"}

ServerTypes ==
    /\ http \in [Conns -> HandlerPlaces]
    /\ entered \in SUBSET Conns
    /\ signalled \in BOOLEAN
    /\ shutdownRequested \in BOOLEAN
    /\ acceptor \in {"unborn", "starting", "listening", "stopping", "finished"}
    /\ main \in Untold \union Told \union {"clearReady"}
    /\ authAlive \in BOOLEAN
    /\ exit \in {None, 0, 4}

\* The count is that of the connections that were admitted.
Counted ==
    /\ IsFiniteSet(entered)
    /\ active = Cardinality(entered)
    /\ active <= MaxConcurrent
    /\ \A c \in Conns : http[c] \in InsideHandler => c \in entered
    /\ \A c \in entered : http[c] \in InsideHandler \union {"finally", "leave"}

\* The adapter is used by the handlers of /sql only, ...
SqlOnly == \A r \in Requests : pc[r] # "idle" => http[r] = "sql"

\* ... constructed before and destroyed after everything else, ...
AdapterLives ==
    /\ main = "construct" => pc[Main] \notin ClosingSteps
    /\ main \notin {"construct", "freeAdapter"} => pc[Main] = "up"
    /\ main = "freeAdapter" => pc[Main] \in {"up"} \union ClosingSteps
    /\ pc[Main] = "up" => phase # "startup"
    /\ main \in Told => phase # "serving"

\* ... and at rest once nobody is counted and FReady is False.
AtRest == main \in Resting => \A r \in Requests : pc[r] = "idle"

\* The listener stops only when it is told to; if it ends without, nothing was
\* ever accepted.
Listener ==
    /\ main \in Untold => ~shutdownRequested
    /\ main = "construct" => acceptor = "unborn"
    /\ main \in {"clearReady"} \union (Told \ Resting) => shutdownRequested
    /\ acceptor = "stopping" => shutdownRequested
    /\ acceptor \in {"unborn", "starting"} => \A c \in Conns : http[c] = "none"
    /\ acceptor = "finished" /\ ~shutdownRequested =>
          phase # "serving" /\ \A c \in Conns : http[c] = "none"

\* WakeServer connects once.
WakerWaits == main \notin {"waking", "waitActive"} \union Resting => http[Waker] = "none"

ServerInv ==
    /\ LockInv
    /\ ServerTypes
    /\ Counted
    /\ SqlOnly
    /\ AdapterLives
    /\ AtRest
    /\ Listener
    /\ WakerWaits

USE PoolAssumption, ServerAssumption DEF Threads, Conns

-----------------------------------------------------------------------------
(* What the actions of HandlePool do to the places of the threads.          *)

LEMMA RequestStepMoves ==
    ASSUME LockInv, NEW r \in Requests, RequestStep(r) \/ Expire(r)
    PROVE  /\ pc[r] # "idle"
           /\ phase' = phase
           /\ \A t \in Threads \ {r} : pc'[t] = pc[t]
<1> USE DEF LockInv, TypeOK, Goto
<1>1. CASE OpenStep(r)
  BY <1>1 DEF OpenStep, OpenCheck, TakeOpenLock, AlreadyOpen, OpenDatabase,
     OpenDatabaseFails, SetPoolSize, AllocatePool, AssignSlot, CloneFails, ClearBusy,
     Opened, OpenRaises
<1>2. CASE ~OpenStep(r)
  BY <1>2 DEF RequestStep, Expire, Decline, CallAdapter, TakeSlot, ScanFaults,
     ScanMisses, PoolTimeout, ScanAgain, Refuse, Execute, ExecuteEnds, ReleaseDb
<1> QED
  BY <1>1, <1>2

LEMMA ConstructorMoves ==
    ASSUME LockInv, Construct \/ OpenStep(Main) \/ StartupQuery, pc[Main] \notin ClosingSteps,
           pc[Main] = "up" => phase # "startup"
    PROVE  /\ pc'[Main] \notin ClosingSteps
           /\ pc'[Main] = "up" => phase' # "startup"
           /\ \A r \in Requests : pc'[r] = pc[r]
<1> USE DEF LockInv, TypeOK, Goto, ClosingSteps
<1>1. CASE OpenStep(Main)
  BY <1>1 DEF OpenStep, OpenCheck, TakeOpenLock, AlreadyOpen, OpenDatabase,
     OpenDatabaseFails, SetPoolSize, AllocatePool, AssignSlot, CloneFails, ClearBusy,
     Opened, OpenRaises
<1>2. CASE Construct
  BY <1>2 DEF Construct
<1>3. CASE StartupQuery
  BY <1>3 DEF StartupQuery
<1> QED
  BY <1>1, <1>2, <1>3

LEMMA CloseMoves ==
    ASSUME LockInv, AllFree \/ CloseHandle \/ Closed
    PROVE  /\ pc[Main] \in ClosingSteps /\ pc'[Main] \in ClosingSteps
           /\ phase' = phase
           /\ \A r \in Requests : pc'[r] = pc[r]
BY DEF LockInv, TypeOK, Goto, ClosingSteps, AllFree, CloseHandle, Closed

-----------------------------------------------------------------------------
(* Every step of the server is one of HandlePool, or does not concern it.   *)

LEMMA PoolStep ==
    ASSUME ServerInv, [ServerNext]_allVars
    PROVE  [Next]_vars
<1>1. CASE ServeStep
  <2>1. CASE ConstructStep
    BY <2>1 DEF ConstructStep, Next, MainStep
  <2>2. CASE ClearReady
    BY <2>2 DEF ClearReady, Next
  <2>3. CASE FreeAdapter
    <3>1. phase = "draining"
      BY <2>3 DEF FreeAdapter, MainAt, ServerInv, AdapterLives, Told, LockInv, TypeOK
    <3>2. \A r \in Requests : pc[r] = "idle"
      BY <2>3 DEF FreeAdapter, MainAt, ServerInv, AtRest, Resting
    <3>3. BeginClose
      BY <2>3, <3>1, <3>2 DEF FreeAdapter, BeginClose, serverVars
    <3> QED
      BY <3>3 DEF Next, MainStep
  <2>4. CASE CloseStep
    BY <2>4 DEF CloseStep, Next, MainStep
  <2>5. CASE ~(ConstructStep \/ ClearReady \/ FreeAdapter \/ CloseStep)
    BY <1>1, <2>5 DEF ServeStep, StartServerThread, PollEnds, SetShutdownFlag, Deactivate,
       WakeConnects, WakeEnds, NoActiveRequests, HaltActiveRequests, ThreadFinished,
       HaltThread, FreeAuth, ExitProcess
  <2> QED
    BY <2>1, <2>2, <2>3, <2>4, <2>5
<1>2. CASE AcceptorStep
  BY <1>2 DEF AcceptorStep, StartListening, BindFails, RunReturns, Next
<1>3. CASE Signal
  BY <1>3 DEF Signal
<1>4. ASSUME NEW c \in Conns, HandlerStep(c)
      PROVE  UNCHANGED vars
  BY <1>4 DEF HandlerStep, TryEnterRequest, PlainEndpoint, FinallyStop, LeaveRequest
<1>5. ASSUME NEW r \in Requests, RequestHandlerStep(r) \/ Accept(r) \/ SqlExpires(r)
      PROVE  [Next]_vars
  BY <1>5 DEF RequestHandlerStep, RouteToken, IssueToken, SqlNotReady, SqlReady, SqlStep,
     SqlAnswered, Accept, SqlExpires, Next
<1>6. CASE Exited \/ UNCHANGED allVars
  BY <1>6 DEF Exited, allVars
<1> QED
  BY <1>1, <1>2, <1>3, <1>4, <1>5, <1>6 DEF ServerNext

LEMMA LockInvKept ==
    ASSUME ServerInv, [ServerNext]_allVars
    PROVE  LockInv'
<1> USE DEF ServerInv
<1>1. [Next]_vars
  BY PoolStep
<1>2. CASE MainStep \/ Drain
  BY <1>2, LockInvMainStep
<1>3. ASSUME NEW r \in Requests, Begin(r) \/ RequestStep(r) \/ Expire(r)
      PROVE  LockInv'
  BY <1>3, LockInvRequestStep
<1>4. CASE Terminated \/ UNCHANGED vars
  <2>1. UNCHANGED vars
    BY <1>4 DEF Terminated
  <2> QED
    BY <2>1 DEF LockInv, TypeOK, Places, LockHeld, CursorInRange, NobodyReopens,
       OpensCounted, vars
<1> QED
  BY <1>1, <1>2, <1>3, <1>4 DEF Next

-----------------------------------------------------------------------------
(* ServerInv is inductive.                                                  *)

LEMMA ServerInvInit ==
    ASSUME ServerInit
    PROVE  ServerInv
<1>1. LockInv
  BY LockInvInit DEF ServerInit
<1>2. ServerTypes
  BY DEF ServerInit, ServerTypes, HandlerPlaces, Untold
<1>3. Counted
  BY FS_EmptySet DEF ServerInit, Counted, InsideHandler
<1>4. SqlOnly /\ AdapterLives /\ AtRest /\ Listener /\ WakerWaits
  BY DEF ServerInit, Init, SqlOnly, AdapterLives, AtRest, Listener, WakerWaits, ClosingSteps, Told,
     Resting, Untold
<1> QED
  BY <1>1, <1>2, <1>3, <1>4 DEF ServerInv

\* One handler moves; what it does to the count is left open.
LEMMA HandlerMoves ==
    ASSUME ServerInv, LockInv', NEW c \in Conns, NEW step \in HandlerPlaces,
           http[c] # "none", http' = [http EXCEPT ![c] = step],
           http[c] = "sql" => c \in Requests /\ pc[c] = "idle",
           entered' \in SUBSET Conns,
           UNCHANGED <<vars, signalled, shutdownRequested, main, authAlive, exit>>,
           acceptor' = acceptor \/ (shutdownRequested /\ acceptor' = "stopping"),
           Counted'
    PROVE  ServerInv'
<1> USE DEF ServerInv
<1>1. UNCHANGED <<pc, phase, signalled, shutdownRequested, main, authAlive, exit>>
  BY DEF vars
<1>2. /\ http' \in [Conns -> HandlerPlaces]
      /\ \A d \in Conns \ {c} : http'[d] = http[d]
  BY DEF ServerTypes
<1>3. ServerTypes'
  BY <1>1, <1>2 DEF ServerTypes
<1>4. SqlOnly'
  BY <1>1, <1>2 DEF SqlOnly
<1>5. AdapterLives' /\ AtRest'
  BY <1>1 DEF AdapterLives, AtRest
<1>6. Listener'
  BY <1>1, <1>2 DEF Listener
<1>7. WakerWaits'
  BY <1>1, <1>2 DEF WakerWaits
<1> QED
  BY <1>3, <1>4, <1>5, <1>6, <1>7

\* A handler goes on without entering or leaving.
LEMMA SameCount ==
    ASSUME ServerInv, NEW c \in Conns, NEW step \in HandlerPlaces,
           http' = [http EXCEPT ![c] = step], UNCHANGED <<entered, active>>,
           http[c] \in InsideHandler \union {"finally"} \/ step \notin InsideHandler,
           http[c] = "finally" => step = "leave",
           c \in entered => step \in InsideHandler \union {"finally", "leave"},
           step \in InsideHandler => c \in entered
    PROVE  Counted'
BY DEF ServerInv, ServerTypes, Counted

LEMMA HandlerKeepsServerInv ==
    ASSUME ServerInv, LockInv', NEW c \in Conns, HandlerStep(c)
    PROVE  ServerInv'
<1> USE DEF ServerInv
<1>1. CASE TryEnterRequest(c) /\ HasRoom
  <2>1. /\ http[c] = "reading" /\ http' = [http EXCEPT ![c] = "entered"]
        /\ active' = active + 1 /\ entered' = entered \union {c}
        /\ UNCHANGED <<vars, signalled, shutdownRequested, acceptor, main, authAlive, exit>>
    BY <1>1 DEF TryEnterRequest, HttpGoto, At
  <2>2. c \notin entered
    BY <2>1 DEF Counted, InsideHandler
  <2>3. IsFiniteSet(entered') /\ Cardinality(entered') = Cardinality(entered) + 1
    BY <2>1, <2>2, FS_AddElement DEF Counted
  <2>4. Cardinality(entered) \in Nat
    BY FS_CardinalityType DEF Counted
  <2>5. active' = Cardinality(entered') /\ active' <= MaxConcurrent
    BY <1>1, <2>1, <2>3, <2>4 DEF HasRoom, Counted
  <2>6. Counted'
    BY <2>1, <2>3, <2>5 DEF Counted, InsideHandler, ServerTypes
  <2>7. entered' \in SUBSET Conns /\ "entered" \in HandlerPlaces
    BY <2>1 DEF ServerTypes, HandlerPlaces
  <2> QED
    BY <2>1, <2>6, <2>7, HandlerMoves
<1>2. CASE TryEnterRequest(c) /\ ~HasRoom
  <2>1. /\ http[c] = "reading" /\ http' = [http EXCEPT ![c] = "finally"]
        /\ UNCHANGED <<active, entered>>
        /\ UNCHANGED <<vars, signalled, shutdownRequested, acceptor, main, authAlive, exit>>
    BY <1>2 DEF TryEnterRequest, HttpGoto, At
  <2>2. Counted'
    BY <2>1, SameCount DEF InsideHandler, HandlerPlaces
  <2> QED
    BY <2>1, <2>2, HandlerMoves DEF ServerTypes, HandlerPlaces
<1>3. CASE PlainEndpoint(c)
  <2>1. /\ http[c] = "entered" /\ http' = [http EXCEPT ![c] = "finally"]
        /\ UNCHANGED <<active, entered>>
        /\ UNCHANGED <<vars, signalled, shutdownRequested, acceptor, main, authAlive, exit>>
    BY <1>3 DEF PlainEndpoint, HttpGoto, At
  <2>2. Counted'
    BY <2>1, SameCount DEF InsideHandler, HandlerPlaces
  <2> QED
    BY <2>1, <2>2, HandlerMoves DEF ServerTypes, HandlerPlaces
<1>4. CASE FinallyStop(c)
  <2>1. /\ http[c] = "finally" /\ http' = [http EXCEPT ![c] = "leave"]
        /\ UNCHANGED <<active, entered>>
        /\ UNCHANGED <<vars, signalled, shutdownRequested, main, authAlive, exit>>
        /\ acceptor' = acceptor \/ (shutdownRequested /\ acceptor' = "stopping")
    BY <1>4 DEF FinallyStop, HttpGoto, At, StopAccepting
  <2>2. Counted'
    BY <2>1, SameCount DEF InsideHandler, HandlerPlaces
  <2> QED
    BY <2>1, <2>2, HandlerMoves DEF ServerTypes, HandlerPlaces
<1>5. CASE LeaveRequest(c)
  <2>1. /\ http[c] = "leave" /\ http' = [http EXCEPT ![c] = "none"]
        /\ active' = ActiveAfter(c) /\ entered' = entered \ {c}
        /\ UNCHANGED <<vars, signalled, shutdownRequested, acceptor, main, authAlive, exit>>
    BY <1>5 DEF LeaveRequest, HttpGoto, At
  <2>2. /\ IsFiniteSet(entered')
        /\ Cardinality(entered') = IF c \in entered THEN Cardinality(entered) - 1
                                                    ELSE Cardinality(entered)
    BY <2>1, FS_RemoveElement DEF Counted
  <2>3. Cardinality(entered) \in Nat /\ (c \in entered => Cardinality(entered) # 0)
    BY FS_CardinalityType, FS_EmptySet DEF Counted
  <2>4. active' = Cardinality(entered') /\ active' <= MaxConcurrent
    BY <2>1, <2>2, <2>3 DEF ActiveAfter, Counted
  <2>5. Counted'
    BY <2>1, <2>2, <2>4 DEF Counted, InsideHandler, ServerTypes
  <2>6. entered' \in SUBSET Conns /\ "none" \in HandlerPlaces
    BY <2>1 DEF ServerTypes, HandlerPlaces
  <2> QED
    BY <2>1, <2>5, <2>6, HandlerMoves
<1> QED
  BY <1>1, <1>2, <1>3, <1>4, <1>5 DEF HandlerStep

LEMMA RequestHandlerKeepsServerInv ==
    ASSUME ServerInv, LockInv', NEW r \in Requests,
           RequestHandlerStep(r) \/ Accept(r) \/ SqlExpires(r)
    PROVE  ServerInv'
<1> USE DEF ServerInv
<1>0. r \in Conns /\ r \in Threads /\ r # Main
  OBVIOUS
<1>1. CASE RouteToken(r) \/ IssueToken(r) \/ SqlNotReady(r) \/ SqlAnswered(r)
  <2>1. PICK step \in {"token", "finally"} :
             /\ http[r] \in InsideHandler /\ http' = [http EXCEPT ![r] = step]
             /\ http[r] = "sql" => pc[r] = "idle"
             /\ UNCHANGED <<active, entered>>
             /\ UNCHANGED <<vars, signalled, shutdownRequested, acceptor, main, authAlive, exit>>
    BY <1>1 DEF RouteToken, IssueToken, SqlNotReady, SqlAnswered, HttpGoto, At, InsideHandler
  <2>2. r \in entered
    BY <1>0, <2>1 DEF Counted
  <2>3. Counted'
    BY <1>0, <2>1, <2>2, SameCount DEF InsideHandler, HandlerPlaces
  <2> QED
    BY <1>0, <2>1, <2>3, HandlerMoves DEF ServerTypes, HandlerPlaces, InsideHandler
<1>2. CASE SqlReady(r)
  <2>1. /\ http[r] = "entered" /\ http' = [http EXCEPT ![r] = "sql"]
        /\ pc' = [pc EXCEPT ![r] = "admitted"]
        /\ phase = "serving" /\ phase' = phase
        /\ UNCHANGED <<entered, active, signalled, shutdownRequested, acceptor, main,
                       authAlive, exit>>
    BY <1>2 DEF SqlReady, Begin, HttpGoto, At, Goto
  <2>2. Counted'
    <3>1. r \in entered
      BY <1>0, <2>1 DEF Counted, InsideHandler
    <3> QED
      BY <1>0, <2>1, <3>1, SameCount DEF InsideHandler, HandlerPlaces
  <2>3. /\ http' \in [Conns -> HandlerPlaces]
        /\ \A d \in Conns \ {r} : http'[d] = http[d]
        /\ \A t \in Threads \ {r} : pc'[t] = pc[t]
    BY <1>0, <2>1 DEF ServerTypes, HandlerPlaces, LockInv, TypeOK
  <2>4. ServerTypes'
    BY <2>1, <2>3 DEF ServerTypes
  <2>5. SqlOnly'
    BY <1>0, <2>1, <2>3 DEF SqlOnly, ServerTypes
  <2>6. AdapterLives' /\ AtRest'
    BY <1>0, <2>1, <2>3 DEF AdapterLives, AtRest, Resting, Told
  <2>7. Listener' /\ WakerWaits'
    BY <1>0, <2>1, <2>3 DEF Listener, WakerWaits
  <2> QED
    BY <2>2, <2>4, <2>5, <2>6, <2>7
<1>3. CASE SqlStep(r) \/ SqlExpires(r)
  <2>1. /\ http[r] = "sql"
        /\ RequestStep(r) \/ Expire(r)
        /\ UNCHANGED <<http, entered, active, signalled, shutdownRequested, acceptor, main,
                       authAlive, exit>>
    BY <1>3 DEF SqlStep, SqlExpires, At, serverVars
  <2>2. /\ pc[r] # "idle" /\ phase' = phase
        /\ \A t \in Threads \ {r} : pc'[t] = pc[t]
    BY <2>1, RequestStepMoves
  <2>3. ServerTypes' /\ Counted'
    BY <2>1 DEF ServerTypes, Counted
  <2>4. SqlOnly'
    BY <2>1, <2>2 DEF SqlOnly
  <2>5. AdapterLives' /\ AtRest'
    BY <1>0, <2>1, <2>2 DEF AdapterLives, AtRest
  <2>6. Listener' /\ WakerWaits'
    BY <2>1, <2>2 DEF Listener, WakerWaits
  <2> QED
    BY <2>3, <2>4, <2>5, <2>6
<1>4. CASE Accept(r)
  <2>1. /\ http[r] = "none" /\ http' = [http EXCEPT ![r] = "reading"]
        /\ acceptor \in {"listening", "stopping"}
        /\ UNCHANGED <<entered, active, signalled, shutdownRequested, acceptor, main,
                       authAlive, exit>>
        /\ UNCHANGED <<pc, phase>>
    BY <1>4 DEF Accept, HttpGoto, At, vars
  <2>2. /\ http' \in [Conns -> HandlerPlaces]
        /\ \A d \in Conns \ {r} : http'[d] = http[d]
        /\ http'[r] = "reading"
    BY <1>0, <2>1 DEF ServerTypes, HandlerPlaces
  <2>3. ServerTypes' /\ Counted'
    BY <2>1, <2>2 DEF ServerTypes, Counted, InsideHandler
  <2>4. SqlOnly' /\ AdapterLives' /\ AtRest'
    BY <2>1, <2>2 DEF SqlOnly, AdapterLives, AtRest
  <2>5. Listener' /\ WakerWaits'
    BY <2>1, <2>2 DEF Listener, WakerWaits
  <2> QED
    BY <2>3, <2>4, <2>5
<1> QED
  BY <1>1, <1>2, <1>3, <1>4 DEF RequestHandlerStep

\* The thread in Run.
LEMMA AcceptorKeepsServerInv ==
    ASSUME ServerInv, LockInv', AcceptorStep
    PROVE  ServerInv'
<1> USE DEF ServerInv
<1>1. UNCHANGED <<http, entered, active, signalled, shutdownRequested, main, authAlive, exit>>
  BY DEF AcceptorStep, StartListening, BindFails, RunReturns
<1>2. pc' = pc /\ (phase' = phase \/ phase' = "draining")
  BY DEF AcceptorStep, StartListening, BindFails, RunReturns, Drain, vars
<1>3. acceptor' \in {"listening", "finished"}
  BY DEF AcceptorStep, StartListening, BindFails, RunReturns
<1>4. ServerTypes' /\ Counted'
  BY <1>1, <1>3 DEF ServerTypes, Counted
<1>5. SqlOnly' /\ AdapterLives' /\ AtRest'
  BY <1>1, <1>2 DEF SqlOnly, AdapterLives, AtRest
<1>6. Listener' /\ WakerWaits'
  <2>1. main # "construct"
    BY DEF AcceptorStep, StartListening, BindFails, RunReturns, Listener, WakerWaits
  <2>2. ASSUME acceptor' = "finished", ~shutdownRequested
        PROVE  phase' # "serving" /\ \A c \in Conns : http[c] = "none"
    <3>1. BindFails
      BY <2>2 DEF AcceptorStep, StartListening, RunReturns, Listener, WakerWaits
    <3> QED
      BY <3>1 DEF BindFails, Drain, vars, Listener, WakerWaits
  <2> QED
    BY <1>1, <1>3, <2>1, <2>2 DEF Listener, WakerWaits
<1> QED
  BY <1>4, <1>5, <1>6

\* The main thread between two steps of the adapter.
LEMMA ServeMoves ==
    ASSUME ServerInv, LockInv', UNCHANGED <<vars, http, entered, active>>,
           ServerTypes', AdapterLives', AtRest', Listener' /\ WakerWaits'
    PROVE  ServerInv'
BY DEF ServerInv, Counted, SqlOnly, vars

\* Nobody is counted and nobody can come any more.
LEMMA NobodyInside ==
    ASSUME ServerInv, active <= 0, NEW r \in Requests
    PROVE  pc[r] = "idle"
<1>1. active = Cardinality(entered) /\ IsFiniteSet(entered)
  BY DEF ServerInv, Counted
<1>2. entered = {}
  BY <1>1, FS_CardinalityType, FS_EmptySet
<1> QED
  BY <1>2 DEF ServerInv, Counted, SqlOnly, InsideHandler

LEMMA ServeKeepsServerInv ==
    ASSUME ServerInv, LockInv', ServeStep
    PROVE  ServerInv'
<1> USE DEF ServerInv
<1> DEFINE Quiet == UNCHANGED <<vars, http, entered, active>>
<1>1. CASE ConstructStep
  <2>1. /\ main = "construct"
        /\ Construct \/ OpenStep(Main) \/ StartupQuery
        /\ UNCHANGED serverVars
    BY <1>1 DEF ConstructStep, MainAt
  <2>2. UNCHANGED <<http, entered, active, signalled, shutdownRequested, acceptor, main,
                    authAlive, exit>>
    BY <2>1 DEF serverVars
  <2>3. /\ pc'[Main] \notin ClosingSteps /\ (pc'[Main] = "up" => phase' # "startup")
        /\ \A r \in Requests : pc'[r] = pc[r]
    BY <2>1, ConstructorMoves DEF AdapterLives
  <2>4. ServerTypes' /\ Counted' /\ SqlOnly'
    BY <2>2, <2>3 DEF ServerTypes, Counted, SqlOnly
  <2>5. AdapterLives' /\ AtRest' /\ Listener' /\ WakerWaits'
    BY <2>1, <2>2, <2>3 DEF AdapterLives, AtRest, Listener, WakerWaits, Told, Resting
  <2> QED
    BY <2>4, <2>5
<1>2. CASE StartServerThread
  <2>1. /\ main = "construct" /\ main' = "poll" /\ acceptor' = "starting" /\ pc[Main] = "up"
        /\ Quiet /\ UNCHANGED <<signalled, shutdownRequested, authAlive, exit>>
    BY <1>2 DEF StartServerThread, MainAt, MainGoto
  <2>2. UNCHANGED <<pc, phase>>
    BY <2>1 DEF vars
  <2>3. ServerTypes'
    BY <2>1 DEF ServerTypes, Untold
  <2>4. AdapterLives' /\ AtRest'
    BY <2>1, <2>2 DEF AdapterLives, AtRest, Told, Resting
  <2>5. Listener' /\ WakerWaits'
    BY <2>1, <2>2 DEF Listener, WakerWaits, Untold, Told
  <2> QED
    BY <2>1, <2>3, <2>4, <2>5, ServeMoves
<1>3. CASE PollEnds
  <2>1. /\ main = "poll" /\ main' = (IF signalled THEN "setFlag" ELSE "freeAuth")
        /\ signalled \/ acceptor = "finished"
        /\ Quiet /\ UNCHANGED <<signalled, shutdownRequested, acceptor, authAlive, exit>>
    BY <1>3 DEF PollEnds, MainAt, MainGoto
  <2>2. UNCHANGED <<pc, phase, http>>
    BY <2>1 DEF vars
  <2>3. ~shutdownRequested
    BY <2>1 DEF Listener, WakerWaits, Untold
  <2>4. ServerTypes'
    BY <2>1 DEF ServerTypes, Untold, Told
  <2>5. ~signalled => phase # "serving" /\ \A r \in Requests : pc[r] = "idle"
    BY <2>1, <2>3 DEF Listener, WakerWaits, SqlOnly
  <2>6. AdapterLives' /\ AtRest'
    BY <2>1, <2>2, <2>5 DEF AdapterLives, AtRest, Told, Resting
  <2>7. Listener' /\ WakerWaits'
    BY <2>1, <2>2, <2>3 DEF Listener, WakerWaits, Untold, Told, Resting
  <2> QED
    BY <2>1, <2>4, <2>6, <2>7, ServeMoves
<1>4. CASE SetShutdownFlag
  <2>1. /\ main = "setFlag" /\ main' = "clearReady" /\ shutdownRequested' = TRUE
        /\ Quiet /\ UNCHANGED <<signalled, acceptor, authAlive, exit>>
    BY <1>4 DEF SetShutdownFlag, MainAt, MainGoto
  <2>2. UNCHANGED <<pc, phase, http>>
    BY <2>1 DEF vars
  <2>3. ServerTypes'
    BY <2>1 DEF ServerTypes
  <2>4. AdapterLives' /\ AtRest'
    BY <2>1, <2>2 DEF AdapterLives, AtRest, Told, Resting
  <2>5. Listener' /\ WakerWaits'
    BY <2>1, <2>2 DEF Listener, WakerWaits, Untold, Told, Resting
  <2> QED
    BY <2>1, <2>3, <2>4, <2>5, ServeMoves
<1>5. CASE ClearReady
  <2>1. /\ main = "clearReady" /\ main' = "deactivate"
        /\ UNCHANGED <<http, entered, active, signalled, shutdownRequested, acceptor,
                       authAlive, exit>>
    BY <1>5 DEF ClearReady, MainAt, MainGoto
  <2>2. pc' = pc /\ phase' # "serving" /\ (phase' = phase \/ phase' = "draining")
    BY <1>5 DEF ClearReady, Drain, vars
  <2>3. ServerTypes' /\ Counted' /\ SqlOnly'
    BY <2>1, <2>2 DEF ServerTypes, Counted, SqlOnly, Told
  <2>4. AdapterLives' /\ AtRest'
    BY <2>1, <2>2 DEF AdapterLives, AtRest, Told, Resting
  <2>5. Listener' /\ WakerWaits'
    BY <2>1, <2>2 DEF Listener, WakerWaits, Untold, Told, Resting
  <2> QED
    BY <2>3, <2>4, <2>5
<1>6. CASE Deactivate \/ (WakeEnds /\ UNCHANGED acceptor)
  <2>1. /\ main \in {"deactivate", "wake", "waking"} /\ main' \in {"wake", "waitActive"}
        /\ main' = "wake" => main = "deactivate"
        /\ acceptor' = acceptor \/ acceptor' = "stopping"
        /\ acceptor' # acceptor => acceptor = "listening"
        /\ Quiet /\ UNCHANGED <<signalled, shutdownRequested, authAlive, exit>>
    BY <1>6 DEF Deactivate, WakeEnds, MainAt, MainGoto, StopAccepting
  <2>2. UNCHANGED <<pc, phase, http>>
    BY <2>1 DEF vars
  <2>3. ServerTypes'
    BY <2>1 DEF ServerTypes, Told
  <2>4. AdapterLives' /\ AtRest'
    BY <2>1, <2>2 DEF AdapterLives, AtRest, Told, Resting
  <2>5. Listener' /\ WakerWaits'
    BY <2>1, <2>2 DEF Listener, WakerWaits, Untold, Told, Resting
  <2> QED
    BY <2>1, <2>3, <2>4, <2>5, ServeMoves
<1>7. CASE WakeConnects
  <2>1. /\ main = "wake" /\ main' = "waking" /\ acceptor \in {"listening", "stopping"}
        /\ http' = [http EXCEPT ![Waker] = "reading"]
        /\ UNCHANGED <<vars, entered, active, signalled, shutdownRequested, acceptor,
                       authAlive, exit>>
    BY <1>7 DEF WakeConnects, MainAt, MainGoto, HttpGoto
  <2>2. UNCHANGED <<pc, phase>>
    BY <2>1 DEF vars
  <2>3. /\ http' \in [Conns -> HandlerPlaces] /\ http'[Waker] = "reading"
        /\ \A c \in Conns \ {Waker} : http'[c] = http[c]
    BY <2>1 DEF ServerTypes, HandlerPlaces
  <2>4. ServerTypes'
    BY <2>1, <2>3 DEF ServerTypes, Told
  <2>5. Counted'
    <3>1. http[Waker] = "none"
      BY <2>1 DEF WakerWaits, Resting
    <3> QED
      BY <2>1, <2>3, <3>1 DEF Counted, InsideHandler
  <2>6. SqlOnly' /\ AdapterLives' /\ AtRest'
    BY <2>1, <2>2, <2>3 DEF SqlOnly, AdapterLives, AtRest, Told, Resting
  <2>7. Listener' /\ WakerWaits'
    BY <2>1, <2>2, <2>3 DEF Listener, WakerWaits, Untold, Told, Resting
  <2> QED
    BY <2>4, <2>5, <2>6, <2>7
<1>8. CASE NoActiveRequests \/ ThreadFinished \/ FreeAuth
  <2>1. /\ main \in {"waitActive", "waitThread", "freeAuth"} /\ main' \in Resting
        /\ main = "waitActive" => active <= 0
        /\ main' # "freeAdapter" \/ main = "freeAuth"
        /\ authAlive' \in {authAlive, FALSE}
        /\ Quiet /\ UNCHANGED <<signalled, shutdownRequested, acceptor, exit>>
    BY <1>8 DEF NoActiveRequests, ThreadFinished, FreeAuth, MainAt, MainGoto, Resting
  <2>2. UNCHANGED <<pc, phase, http>>
    BY <2>1 DEF vars
  <2>3. \A r \in Requests : pc[r] = "idle"
    BY <2>1, NobodyInside DEF AtRest, Resting
  <2>4. ServerTypes'
    BY <2>1 DEF ServerTypes, Told, Resting
  <2>5. AdapterLives' /\ AtRest'
    BY <2>1, <2>2, <2>3 DEF AdapterLives, AtRest, Told, Resting
  <2>6. Listener' /\ WakerWaits'
    BY <2>1, <2>2 DEF Listener, WakerWaits, Untold, Told, Resting
  <2> QED
    BY <2>1, <2>4, <2>5, <2>6, ServeMoves
<1>9. CASE HaltActiveRequests \/ HaltThread \/ ExitProcess
  <2>1. /\ exit' \in {0, 4} /\ Quiet
        /\ UNCHANGED <<signalled, shutdownRequested, acceptor, main, authAlive>>
    BY <1>9 DEF HaltActiveRequests, HaltThread, ExitProcess
  <2>2. UNCHANGED <<pc, phase, http>>
    BY <2>1 DEF vars
  <2>3. ServerTypes' /\ AdapterLives' /\ AtRest' /\ Listener' /\ WakerWaits'
    BY <2>1, <2>2 DEF ServerTypes, AdapterLives, AtRest, Listener, WakerWaits
  <2> QED
    BY <2>1, <2>3, ServeMoves
<1>10. CASE FreeAdapter \/ CloseStep
  <2>1. main = "freeAdapter" /\ UNCHANGED serverVars
    BY <1>10 DEF FreeAdapter, CloseStep, MainAt
  <2>2. UNCHANGED <<http, entered, active, signalled, shutdownRequested, acceptor, main,
                    authAlive, exit>>
    BY <2>1 DEF serverVars
  <2>3. /\ pc'[Main] \in ClosingSteps /\ phase' = phase
        /\ \A r \in Requests : pc'[r] = pc[r]
    <3>1. CASE FreeAdapter
      BY <3>1 DEF FreeAdapter, Goto, LockInv, TypeOK, ClosingSteps
    <3>2. CASE CloseStep
      BY <3>2, CloseMoves DEF CloseStep
    <3> QED
      BY <1>10, <3>1, <3>2
  <2>4. ServerTypes' /\ Counted' /\ SqlOnly'
    BY <2>2, <2>3 DEF ServerTypes, Counted, SqlOnly
  <2>5. AdapterLives' /\ AtRest' /\ Listener' /\ WakerWaits'
    BY <2>1, <2>2, <2>3 DEF AdapterLives, AtRest, Listener, WakerWaits, Told, Resting, ClosingSteps
  <2> QED
    BY <2>4, <2>5
<1>11. WakeEnds => UNCHANGED acceptor
  BY DEF WakeEnds
<1> QED
  BY <1>1, <1>2, <1>3, <1>4, <1>5, <1>6, <1>7, <1>8, <1>9, <1>10, <1>11 DEF ServeStep

LEMMA ServerInvStep ==
    ASSUME ServerInv, [ServerNext]_allVars
    PROVE  ServerInv'
<1>0. LockInv'
  BY LockInvKept
<1>1. CASE ServeStep
  BY <1>0, <1>1, ServeKeepsServerInv
<1>2. CASE AcceptorStep
  BY <1>0, <1>2, AcceptorKeepsServerInv
<1>3. CASE Signal \/ Exited \/ UNCHANGED allVars
  <2>1. /\ UNCHANGED <<vars, http, entered, active, shutdownRequested, acceptor, main,
                       authAlive, exit>>
        /\ signalled' = signalled \/ signalled' = TRUE
    BY <1>3 DEF Signal, Exited, allVars, serverVars
  <2>2. UNCHANGED <<pc, phase>>
    BY <2>1 DEF vars
  <2>3. UNCHANGED <<http, entered, active, shutdownRequested, acceptor, main, authAlive, exit>>
    BY <2>1
  <2>4. ServerTypes'
    BY <2>1, <2>3 DEF ServerInv, ServerTypes
  <2>5. Counted' /\ SqlOnly' /\ AdapterLives'
    BY <2>2, <2>3 DEF ServerInv, Counted, SqlOnly, AdapterLives
  <2>6. AtRest' /\ Listener' /\ WakerWaits'
    BY <2>2, <2>3 DEF ServerInv, AtRest, Listener, WakerWaits
  <2> QED
    BY <1>0, <2>4, <2>5, <2>6 DEF ServerInv
<1>4. ASSUME NEW c \in Conns, HandlerStep(c)
      PROVE  ServerInv'
  BY <1>0, <1>4, HandlerKeepsServerInv
<1>5. ASSUME NEW r \in Requests, RequestHandlerStep(r) \/ Accept(r) \/ SqlExpires(r)
      PROVE  ServerInv'
  BY <1>0, <1>5, RequestHandlerKeepsServerInv
<1> QED
  BY <1>1, <1>2, <1>3, <1>4, <1>5 DEF ServerNext

\* The invariant behind the theorems below.
THEOREM ServerInvariant == ServerSpec => []ServerInv
BY ServerInvInit, ServerInvStep, PTL DEF ServerSpec

-----------------------------------------------------------------------------

\* FActiveRequests is the number of connections inside the handler, in every
\* interleaving of admissions, refusals and departures.
THEOREM CountIsExact == ServerSpec => []ActiveCountExact
<1>1. ServerInv => ActiveCountExact
  <2> SUFFICES ASSUME ServerInv PROVE ActiveCountExact
    OBVIOUS
  <2>1. {c \in Conns : http[c] \in {"entered", "token", "sql"}} \union entered = entered
    BY DEF ServerInv, Counted, InsideHandler
  <2> QED
    BY <2>1 DEF ActiveCountExact, ServerInv, Counted
<1> QED
  BY <1>1, ServerInvariant, PTL

\* No statement runs in an adapter that is being destroyed.
THEOREM AdapterIsAtRest == ServerSpec => []AdapterAtRest
<1>1. ServerInv => AdapterAtRest
  BY DEF ServerInv, AtRest, Resting, AdapterAtRest
<1> QED
  BY <1>1, ServerInvariant, PTL

\* The server calls Close only when the pool may be closed, and is in every
\* other way the caller that HandlePool takes for granted.
THEOREM ServerImplementsPool == ServerSpec => ImplementsPool
<1>1. ServerInit => Init
  BY DEF ServerInit
<1> QED
  BY <1>1, PoolStep, ServerInvariant, PTL DEF ServerSpec, Spec, ImplementsPool

\* Types, with the count within the limit of admission.
THEOREM ServerTypesCorrect == ServerSpec => []ServerTypeOK
<1>1. ServerInv => ServerTypeOK
  <2> SUFFICES ASSUME ServerInv PROVE ServerTypeOK
    OBVIOUS
  <2>1. active \in 0 .. MaxConcurrent
    BY FS_CardinalityType DEF ServerInv, Counted
  <2> QED
    BY <2>1 DEF ServerTypeOK, ServerInv, ServerTypes, LockInv, HandlerPlaces, Untold, Told
<1> QED
  BY <1>1, ServerInvariant, PTL

\* With startup_check the server uses every handle exclusively and closes none
\* that is in use.
THEOREM ServerUsesHandlesExclusively ==
    EagerOpen /\ ServerSpec => ImplementsExclusiveHandles
BY ServerImplementsPool, EagerImplementsExclusiveHandles, PTL DEF ImplementsPool

-----------------------------------------------------------------------------
(* A handle for each admitted request.                                      *)

LEMMA MissedByScan ==
    ASSUME LockInv, [Next]_vars, NEW r \in Requests, pc[r] # "missed", pc'[r] = "missed"
    PROVE  ScanMisses(r)
<1> USE DEF LockInv, TypeOK, Goto
<1>1. CASE Drain \/ Terminated \/ UNCHANGED vars
  BY <1>1 DEF Drain, Terminated, vars
<1>2. CASE MainStep
  <2>1. CASE Construct \/ StartupQuery \/ BeginClose \/ AllFree \/ CloseHandle \/ Closed
    BY <2>1 DEF Construct, StartupQuery, BeginClose, AllFree, CloseHandle, Closed
  <2>2. CASE OpenStep(Main)
    BY <2>2 DEF OpenStep, OpenCheck, TakeOpenLock, AlreadyOpen, OpenDatabase,
       OpenDatabaseFails, SetPoolSize, AllocatePool, AssignSlot, CloneFails, ClearBusy,
       Opened, OpenRaises
  <2> QED
    BY <1>2, <2>1, <2>2 DEF MainStep
<1>3. ASSUME NEW s \in Requests, Begin(s) \/ Expire(s)
      PROVE  FALSE
  BY <1>3 DEF Begin, Expire
<1>4. ASSUME NEW s \in Requests, RequestStep(s)
      PROVE  ScanMisses(r)
  <2>1. CASE OpenStep(s)
    BY <2>1 DEF OpenStep, OpenCheck, TakeOpenLock, AlreadyOpen, OpenDatabase,
       OpenDatabaseFails, SetPoolSize, AllocatePool, AssignSlot, CloneFails, ClearBusy,
       Opened, OpenRaises
  <2>2. CASE ScanMisses(s)
    <3>1. s = r
      BY <2>2 DEF ScanMisses
    <3> QED
      BY <2>2, <3>1
  <2>3. CASE ~OpenStep(s) /\ ~ScanMisses(s)
    BY <1>4, <2>3 DEF RequestStep, Decline, CallAdapter, TakeSlot, ScanFaults, PoolTimeout,
       ScanAgain, Refuse, Execute, ExecuteEnds, ReleaseDb
  <2> QED
    BY <2>1, <2>2, <2>3
<1> QED
  BY <1>1, <1>2, <1>3, <1>4 DEF Next

\* A scan that misses means that every handle is held by another admitted request.
LEMMA MissMeansFewHandles ==
    ASSUME ServerInv, EagerInv, NEW r \in Requests, ScanMisses(r)
    PROVE  PoolSize < MaxConcurrent
<1> DEFINE others == entered \ {r}
           f == [i \in Slots |-> CHOOSE s \in Requests : slot[s] = i]
<1>1. pc[r] = "acquire" /\ FreeSlots = {}
  BY DEF ScanMisses
<1>2. \A i \in Slots : busy[i]
  BY <1>1 DEF EagerInv, RequestsFindPool, PoolComplete, FreeSlots, Slots, LockInv, TypeOK
<1>3. \A i \in Slots : f[i] \in Requests /\ slot[f[i]] = i
  BY <1>2 DEF EagerInv, SlotsMatchBusy, BusySlotHeld
<1>4. \A i \in Slots : f[i] \in others
  <2> SUFFICES ASSUME NEW i \in Slots PROVE f[i] \in others
    OBVIOUS
  <2>1. i # None
    BY DEF Slots
  <2>2. pc[f[i]] \in HoldingSteps
    BY <1>3, <2>1 DEF EagerInv, SlotsMatchBusy
  <2>3. http[f[i]] = "sql" /\ f[i] # r
    BY <1>1, <1>3, <2>2 DEF ServerInv, SqlOnly, HoldingSteps
  <2> QED
    BY <1>3, <2>3 DEF ServerInv, Counted, InsideHandler
<1>5. f \in Injection(Slots, others)
  <2>1. f \in [Slots -> others]
    BY <1>4
  <2>2. \A i, j \in Slots : f[i] = f[j] => i = j
    BY <1>3
  <2> HIDE DEF f, others
  <2> QED
    BY <2>1, <2>2 DEF Injection, IsInjective
<1>6. r \in entered
  BY <1>1 DEF ServerInv, SqlOnly, Counted, InsideHandler
<1>7. IsFiniteSet(others) /\ Cardinality(others) = active - 1
  BY <1>6, FS_RemoveElement DEF ServerInv, Counted
<1>8. Cardinality(Slots) <= Cardinality(others)
  <2> HIDE DEF f, others
  <2> QED
    BY <1>5, <1>7, FS_Injection
<1>9. Cardinality(Slots) = PoolSize
  BY FS_Interval DEF Slots
<1>10. active <= MaxConcurrent /\ active \in Nat
  BY FS_CardinalityType DEF ServerInv, Counted
<1> QED
  BY <1>7, <1>8, <1>9, <1>10

\* With startup_check and a handle for each admitted request, no request ever
\* waits for a handle.
THEOREM HandlesSuffice == ServerSpec => []NobodyWaitsForHandle
<1>1. CASE ~(EagerOpen /\ PoolSize >= MaxConcurrent)
  BY <1>1, PTL DEF NobodyWaitsForHandle
<1>2. CASE EagerOpen /\ PoolSize >= MaxConcurrent
  <2>1. ServerSpec => []EagerInv
    BY <1>2, ServerImplementsPool, EagerInvAlways, PTL DEF ImplementsPool
  <2>2. ServerInit => NobodyWaitsForHandle
    BY DEF ServerInit, Init, NobodyWaitsForHandle
  <2>3. ServerInv /\ EagerInv /\ NobodyWaitsForHandle /\ [ServerNext]_allVars
          => NobodyWaitsForHandle'
    <3> SUFFICES ASSUME ServerInv, EagerInv, NobodyWaitsForHandle, [ServerNext]_allVars,
                        NEW r \in Requests, pc'[r] = "missed"
                 PROVE  FALSE
      BY DEF NobodyWaitsForHandle
    <3>1. pc[r] # "missed"
      BY <1>2 DEF NobodyWaitsForHandle
    <3>2. ScanMisses(r)
      BY <3>1, PoolStep, MissedByScan DEF ServerInv
    <3> QED
      BY <1>2, <3>2, MissMeansFewHandles
  <2> QED
    BY <2>1, <2>2, <2>3, ServerInvariant, PTL DEF ServerSpec
<1> QED
  BY <1>1, <1>2

-----------------------------------------------------------------------------
(* What the two other findings come down to.                                *)

\* Nobody is admitted after WaitForActiveRequests read zero.
NoLateEntry ==
    \A r \in Requests : TryEnterRequest(r) /\ HasRoom => main \notin Resting

\* Serve sets Active to False on a server that listens, or did.
StopsListener == Deactivate => acceptor # "starting"

\* FAuth is freed by the last step but one, and by then no handler is inside.
AuthInv ==
    /\ main \in Resting => \A r \in Requests : http[r] \notin InsideHandler
    /\ ~authAlive => main = "freeAdapter"

\* Once it was told to stop, the listener does not listen any more.
StoppedInv ==
    /\ main # "construct" => acceptor # "unborn"
    /\ main \in {"wake", "waking", "waitActive", "waitThread"} =>
          acceptor \in {"stopping", "finished"}
    /\ exit # 4

\* Which steps bring a request inside its handler, and which free FAuth.
LEMMA AuthMoves ==
  ASSUME ServerInv, [ServerNext]_allVars
  PROVE  /\ \A r \in Requests : http'[r] \in InsideHandler =>
               http[r] \in InsideHandler \/ (TryEnterRequest(r) /\ HasRoom)
         /\ authAlive' = authAlive \/ (main = "freeAuth" /\ main' = "freeAdapter")
         /\ main' \in Resting => \/ main \in Resting
                                 \/ main = "waitActive" /\ active <= 0
                                 \/ main = "poll" /\ ~signalled /\ acceptor = "finished"
         /\ main = "freeAdapter" => main' = "freeAdapter"
<1> USE DEF ServerInv, ServerTypes, HandlerPlaces, InsideHandler, Resting
<1>1. CASE ServeStep
  <2>1. CASE WakeConnects
    BY <2>1 DEF WakeConnects, HttpGoto, MainAt, MainGoto
  <2>2. CASE ServeStep /\ ~WakeConnects
    <3>1. UNCHANGED http
      BY <2>2 DEF ServeStep, ConstructStep, StartServerThread, PollEnds, SetShutdownFlag,
         ClearReady, Deactivate, WakeEnds, NoActiveRequests, HaltActiveRequests,
         ThreadFinished, HaltThread, FreeAuth, FreeAdapter, CloseStep, ExitProcess, serverVars
    <3>2. authAlive' = authAlive \/ (main = "freeAuth" /\ main' = "freeAdapter")
      BY <2>2 DEF ServeStep, ConstructStep, StartServerThread, PollEnds, SetShutdownFlag,
         ClearReady, Deactivate, WakeEnds, NoActiveRequests, HaltActiveRequests,
         ThreadFinished, HaltThread, FreeAuth, FreeAdapter, CloseStep, ExitProcess, serverVars,
         MainAt, MainGoto
    <3>3. /\ main' \in Resting => \/ main \in Resting
                                  \/ main = "waitActive" /\ active <= 0
                                  \/ main = "poll" /\ ~signalled /\ acceptor = "finished"
          /\ main = "freeAdapter" => main' = "freeAdapter"
      BY <2>2 DEF ServeStep, ConstructStep, StartServerThread, PollEnds, SetShutdownFlag,
         ClearReady, Deactivate, WakeEnds, NoActiveRequests, HaltActiveRequests,
         ThreadFinished, HaltThread, FreeAuth, FreeAdapter, CloseStep, ExitProcess, serverVars,
         MainAt, MainGoto
    <3> QED
      BY <3>1, <3>2, <3>3
  <2> QED
    BY <1>1, <2>1, <2>2
<1>2. CASE AcceptorStep \/ Signal \/ Exited \/ UNCHANGED allVars
  <2>1. UNCHANGED <<http, main, authAlive>>
    BY <1>2 DEF AcceptorStep, StartListening, BindFails, RunReturns, Signal, Exited, allVars,
       serverVars
  <2> QED
    BY <2>1
<1>3. ASSUME NEW c \in Conns, HandlerStep(c)
      PROVE  /\ UNCHANGED <<main, authAlive>>
             /\ \A r \in Requests : http'[r] \in InsideHandler =>
                   http[r] \in InsideHandler \/ (TryEnterRequest(r) /\ HasRoom)
  <2>1. UNCHANGED <<main, authAlive>>
    BY <1>3 DEF HandlerStep, TryEnterRequest, PlainEndpoint, FinallyStop, LeaveRequest
  <2>2. CASE TryEnterRequest(c) /\ HasRoom
    <3>1. http' = [http EXCEPT ![c] = "entered"]
      BY <2>2 DEF TryEnterRequest, HttpGoto
    <3> QED
      BY <2>1, <2>2, <3>1
  <2>3. CASE ~(TryEnterRequest(c) /\ HasRoom)
    <3>1. PICK step \in {"finally", "leave", "none"} : http' = [http EXCEPT ![c] = step]
      BY <1>3, <2>3 DEF HandlerStep, TryEnterRequest, PlainEndpoint, FinallyStop, LeaveRequest,
         HttpGoto
    <3> QED
      BY <2>1, <3>1
  <2> QED
    BY <2>2, <2>3
<1>4. ASSUME NEW r \in Requests, RequestHandlerStep(r) \/ Accept(r) \/ SqlExpires(r)
      PROVE  /\ UNCHANGED <<main, authAlive>>
             /\ \A q \in Requests : http'[q] \in InsideHandler => http[q] \in InsideHandler
  <2>1. UNCHANGED <<main, authAlive>>
    BY <1>4 DEF RequestHandlerStep, RouteToken, IssueToken, SqlNotReady, SqlReady, SqlStep,
       SqlAnswered, Accept, SqlExpires, serverVars
  <2>2. CASE SqlStep(r) \/ SqlExpires(r)
    BY <2>1, <2>2 DEF SqlStep, SqlExpires, serverVars
  <2>3. CASE ~SqlStep(r) /\ ~SqlExpires(r)
    <3>1. PICK step \in HandlerPlaces :
             /\ http' = [http EXCEPT ![r] = step]
             /\ step \in InsideHandler => http[r] \in InsideHandler
      BY <1>4, <2>3 DEF RequestHandlerStep, RouteToken, IssueToken, SqlNotReady, SqlReady,
         SqlAnswered, Accept, HttpGoto, At
    <3> QED
      BY <2>1, <3>1
  <2> QED
    BY <2>2, <2>3
<1> QED
  BY <1>1, <1>2, <1>3, <1>4 DEF ServerNext

LEMMA AuthInvStep ==
  ASSUME ServerInv, AuthInv, [ServerNext]_allVars, [NoLateEntry]_allVars
  PROVE  AuthInv'
<1>1. CASE UNCHANGED allVars
  BY <1>1 DEF AuthInv, allVars, serverVars
<1>2. CASE ~UNCHANGED allVars
  <2>1. NoLateEntry
    BY <1>2
  <2>2. ASSUME NEW r \in Requests, main' \in Resting, http'[r] \in InsideHandler
        PROVE  FALSE
    <3>1. http[r] \in InsideHandler \/ (TryEnterRequest(r) /\ HasRoom)
      BY <2>2, AuthMoves
    <3>2. CASE main \in Resting
      <4>1. http[r] \notin InsideHandler
        BY <3>2 DEF AuthInv
      <4> QED
        BY <2>1, <3>1, <3>2, <4>1 DEF NoLateEntry
    <3>3. CASE main = "waitActive" /\ active <= 0
      <4>1. entered = {}
        BY <3>3, FS_CardinalityType, FS_EmptySet DEF ServerInv, Counted
      <4>2. http[r] \notin InsideHandler
        BY <4>1 DEF ServerInv, Counted
      <4>3. TryEnterRequest(r)
        BY <3>1, <4>2
      <4>4. main' = main
        BY <4>3 DEF TryEnterRequest
      <4> QED
        BY <2>2, <3>3, <4>4 DEF Resting
    <3>4. CASE main = "poll" /\ ~signalled /\ acceptor = "finished"
      <4>1. http[r] = "none"
        BY <3>4 DEF ServerInv, Listener, Untold
      <4>2. ~TryEnterRequest(r)
        BY <4>1 DEF TryEnterRequest, At
      <4> QED
        BY <3>1, <4>1, <4>2 DEF InsideHandler
    <3> QED
      BY <2>2, <3>2, <3>3, <3>4, AuthMoves
  <2>3. ~authAlive' => main' = "freeAdapter"
    BY AuthMoves DEF AuthInv
  <2> QED
    BY <2>2, <2>3 DEF AuthInv
<1> QED
  BY <1>1, <1>2

\* FAuth is used after it was freed only by a request that is admitted after
\* WaitForActiveRequests (lshttpserver.pas) has read zero.
THEOREM OnlyLateEntryUsesFreedAuth ==
    ServerSpec /\ [][NoLateEntry]_allVars => []AuthNotUsedAfterFree
<1>1. ServerInit => AuthInv
  BY DEF ServerInit, AuthInv, Resting
<1>2. ServerInv /\ AuthInv => AuthNotUsedAfterFree
  BY DEF ServerInv, SqlOnly, AuthInv, Resting, InsideHandler, AuthNotUsedAfterFree
<1> QED
  BY <1>1, <1>2, AuthInvStep, ServerInvariant, PTL DEF ServerSpec

LEMMA StoppedInvStep ==
  ASSUME ~Impatient, ServerInv, StoppedInv, [ServerNext]_allVars, [StopsListener]_allVars
  PROVE  StoppedInv'
<1> USE DEF StoppedInv
<1>1. CASE UNCHANGED allVars
  BY <1>1 DEF allVars, serverVars
<1>2. CASE ServeStep /\ ~UNCHANGED allVars
  <2>1. CASE Deactivate
    <3>1. acceptor \notin {"starting", "unborn"}
      BY <1>2, <2>1 DEF StopsListener, Deactivate, MainAt
    <3> QED
      BY <2>1, <3>1 DEF Deactivate, MainAt, MainGoto, StopAccepting, ServerInv, ServerTypes
  <2>2. CASE HaltActiveRequests
    BY <2>2 DEF HaltActiveRequests
  <2>3. CASE HaltThread
    <3>1. main = "waitThread" /\ acceptor = "listening"
      BY <2>3 DEF HaltThread, MainAt
    <3> QED
      BY <3>1
  <2>4. CASE ConstructStep \/ FreeAdapter \/ CloseStep
    BY <2>4 DEF ConstructStep, FreeAdapter, CloseStep, serverVars
  <2>5. CASE StartServerThread \/ PollEnds \/ SetShutdownFlag \/ ClearReady
    BY <2>5 DEF StartServerThread, PollEnds, SetShutdownFlag, ClearReady, MainAt, MainGoto
  <2>6. CASE \/ WakeConnects \/ WakeEnds \/ NoActiveRequests \/ ThreadFinished \/ FreeAuth
             \/ ExitProcess
    BY <2>6 DEF WakeConnects, WakeEnds, NoActiveRequests, ThreadFinished, FreeAuth, ExitProcess,
       MainAt, MainGoto
  <2> QED
    BY <1>2, <2>1, <2>2, <2>3, <2>4, <2>5, <2>6 DEF ServeStep
<1>3. CASE AcceptorStep
  BY <1>3 DEF AcceptorStep, StartListening, BindFails, RunReturns
<1>4. CASE Signal \/ Exited
  BY <1>4 DEF Signal, Exited, allVars, serverVars
<1>5. ASSUME NEW c \in Conns, HandlerStep(c)
      PROVE  StoppedInv'
  BY <1>5 DEF HandlerStep, TryEnterRequest, PlainEndpoint, FinallyStop, LeaveRequest,
     StopAccepting
<1>6. ASSUME NEW r \in Requests, RequestHandlerStep(r) \/ Accept(r) \/ SqlExpires(r)
      PROVE  StoppedInv'
  BY <1>6 DEF RequestHandlerStep, RouteToken, IssueToken, SqlNotReady, SqlReady, SqlStep,
     SqlAnswered, Accept, SqlExpires, serverVars
<1> QED
  BY <1>1, <1>2, <1>3, <1>4, <1>5, <1>6 DEF ServerNext

\* A shutdown that is given the time it needs ends with code 4 only if Serve set
\* Active to False before the server listened.
THEOREM OnlyEarlySignalExits4 ==
    ~Impatient /\ ServerSpec /\ [][StopsListener]_allVars => []GracefulExitCode
<1> SUFFICES ASSUME ~Impatient
             PROVE  ServerSpec /\ [][StopsListener]_allVars => []GracefulExitCode
  OBVIOUS
<1>1. ServerInit => StoppedInv
  BY DEF ServerInit, StoppedInv
<1>2. StoppedInv => GracefulExitCode
  BY DEF StoppedInv, GracefulExitCode
<1>3. ServerInv /\ StoppedInv /\ [ServerNext]_allVars /\ [StopsListener]_allVars => StoppedInv'
  BY StoppedInvStep
<1> QED
  BY <1>1, <1>2, <1>3, ServerInvariant, PTL DEF ServerSpec

\* The server loses no handle and opens the database once, in both modes.
THEOREM ServerKeepsPool == ServerSpec => [](NoLeakedHandle /\ OpenedOnce)
BY ServerImplementsPool, NoHandleLeaks, DatabaseOpenedOnce, PTL DEF ImplementsPool

=============================================================================
