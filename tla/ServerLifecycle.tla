--------------------------- MODULE ServerLifecycle ---------------------------
(***************************************************************************)
(* The HTTP server around the handle pool: admission of requests, the      *)
(* three endpoints as far as they touch shared objects, and the graceful   *)
(* shutdown of liquidstoolap_server (server/src/liquidstoolap_server.lpr   *)
(* procedure Serve, server/src/liquidstoolap_server/lshttpserver.pas).     *)
(*                                                                         *)
(* It EXTENDS HandlePool: a SQL request goes through the adapter with the  *)
(* actions of that module, and `phase` is FReady (set by the constructor,  *)
(* cleared by RequestShutdown).  What HandlePool takes from its caller, in *)
(* particular that Close begins when no request is on its way to a slot,   *)
(* is not assumed here: ImplementsPool has TLC check it.                   *)
(*                                                                         *)
(* The Free Pascal HTTP server (fphttpserver, not part of the repository)  *)
(* is modelled from how it is used: a thread per connection calls          *)
(* HandleRequest; assigning Active := False stops a server that is         *)
(* listening and does nothing to one that has not started to listen; Run   *)
(* returns without joining the connection threads.                         *)
(***************************************************************************)
EXTENDS HandlePool

CONSTANTS
    Waker,          \* the connection of WakeServer
    MaxConcurrent,  \* [server] max_concurrent_requests, > 1: threaded mode
    Impatient       \* may shutdown_grace_ms elapse while progress is possible?

Conns == Requests \union {Waker}

ASSUME ServerAssumption ==
    /\ MaxConcurrent \in Nat \ {0, 1}
    /\ Impatient \in BOOLEAN
    /\ Waker \notin Requests \union {Main, None}

VARIABLES
    http,               \* where the handler of each connection is
    entered,            \* the connections whose RequestEntered is True
    active,             \* FActiveRequests
    signalled,          \* ShutdownRequested, set by the signal handler
    shutdownRequested,  \* FShutdownRequested
    acceptor,           \* the thread in Run: unborn, starting, listening, stopping, finished
    main,               \* where the main thread is in Serve
    authAlive,          \* FAuth has not been freed
    exit                \* the exit code of the process: None, 0 or 4

serverVars == <<http, entered, active, signalled, shutdownRequested, acceptor,
                main, authAlive, exit>>
allVars == <<vars, serverVars>>

ServerInit ==
    /\ Init
    /\ http = [c \in Conns |-> "none"]
    /\ entered = {}
    /\ active = 0
    /\ signalled = FALSE
    /\ shutdownRequested = FALSE
    /\ acceptor = "unborn"
    /\ main = "construct"
    /\ authAlive = TRUE
    /\ exit = None

\* Nothing moves after the process has exited.
Running == exit = None
At(c, step) == Running /\ http[c] = step
HttpGoto(c, step) == http' = [http EXCEPT ![c] = step]

-----------------------------------------------------------------------------
(* HandleRequest, in the thread of a connection.                            *)

\* The accept call that is blocked when the server stops still completes.
Accept(r) ==
    /\ acceptor \in {"listening", "stopping"}
    /\ At(r, "none")
    /\ HttpGoto(r, "reading")
    /\ UNCHANGED <<vars, entered, active, signalled, shutdownRequested, acceptor,
                   main, authAlive, exit>>

\* Mutant: one request too many.
HasRoomOffByOne == active <= MaxConcurrent

\* FActiveRequests < FConfig.Server.MaxConcurrentRequests
HasRoom == active < MaxConcurrent

\* TryEnterRequest, under FRequestLock; a refused request gets 503.
TryEnterRequest(c) ==
    /\ At(c, "reading")
    /\ IF HasRoom
       THEN /\ active' = active + 1
            /\ entered' = entered \union {c}
            /\ HttpGoto(c, "entered")
       ELSE /\ HttpGoto(c, "finally")
            /\ UNCHANGED <<active, entered>>
    /\ UNCHANGED <<vars, signalled, shutdownRequested, acceptor, main, authAlive, exit>>

\* GET /health, OPTIONS and unknown paths: nothing shared is changed.
PlainEndpoint(c) ==
    /\ At(c, "entered")
    /\ HttpGoto(c, "finally")
    /\ UNCHANGED <<vars, entered, active, signalled, shutdownRequested, acceptor,
                   main, authAlive, exit>>

\* POST /auth/token looks at FAuth = nil only, never at FReady.
RouteToken(r) ==
    /\ At(r, "entered")
    /\ HttpGoto(r, "token")
    /\ UNCHANGED <<vars, entered, active, signalled, shutdownRequested, acceptor,
                   main, authAlive, exit>>

\* FAuth.IssueToken under FAuthLock, or an earlier rejection of the body
IssueToken(r) ==
    /\ At(r, "token")
    /\ HttpGoto(r, "finally")
    /\ UNCHANGED <<vars, entered, active, signalled, shutdownRequested, acceptor,
                   main, authAlive, exit>>

\* POST /sql: if not FReady then 503
SqlNotReady(r) ==
    /\ At(r, "entered")
    /\ phase # "serving"
    /\ HttpGoto(r, "finally")
    /\ UNCHANGED <<vars, entered, active, signalled, shutdownRequested, acceptor,
                   main, authAlive, exit>>

SqlReady(r) ==
    /\ At(r, "entered")
    /\ Begin(r)
    /\ HttpGoto(r, "sql")
    /\ UNCHANGED <<entered, active, signalled, shutdownRequested, acceptor, main,
                   authAlive, exit>>

\* IsAuthorized, validation and ExecuteJson
SqlStep(r) ==
    /\ At(r, "sql")
    /\ RequestStep(r)
    /\ UNCHANGED serverVars

SqlExpires(r) ==
    /\ At(r, "sql")
    /\ Expire(r)
    /\ UNCHANGED serverVars

SqlAnswered(r) ==
    /\ At(r, "sql")
    /\ pc[r] = "idle"
    /\ HttpGoto(r, "finally")
    /\ UNCHANGED <<vars, entered, active, signalled, shutdownRequested, acceptor,
                   main, authAlive, exit>>

\* FServer.Active := False
StopAccepting ==
    acceptor' = IF acceptor = "listening" THEN "stopping" ELSE acceptor

\* The finally part of HandleRequest: if FShutdownRequested then stop...
FinallyStop(c) ==
    /\ At(c, "finally")
    /\ IF shutdownRequested THEN StopAccepting ELSE UNCHANGED acceptor
    /\ HttpGoto(c, "leave")
    /\ UNCHANGED <<vars, entered, active, signalled, shutdownRequested, main,
                   authAlive, exit>>

\* Mutant: refused requests leave, too.
ActiveAfterAny(c) == IF active > 0 THEN active - 1 ELSE active

ActiveAfter(c) == IF c \in entered /\ active > 0 THEN active - 1 ELSE active

\* ... and if RequestEntered then LeaveRequest.  The response goes out after.
LeaveRequest(c) ==
    /\ At(c, "leave")
    /\ active' = ActiveAfter(c)
    /\ entered' = entered \ {c}
    /\ HttpGoto(c, "none")
    /\ UNCHANGED <<vars, signalled, shutdownRequested, acceptor, main, authAlive, exit>>

\* What a connection thread does by itself once it has a request.
HandlerStep(c) ==
    \/ TryEnterRequest(c) \/ PlainEndpoint(c) \/ FinallyStop(c) \/ LeaveRequest(c)

RequestHandlerStep(r) ==
    \/ RouteToken(r) \/ IssueToken(r) \/ SqlNotReady(r)
    \/ SqlReady(r)   \/ SqlStep(r)    \/ SqlAnswered(r)

-----------------------------------------------------------------------------
(* The thread in TLiquidStoolapHttpServer.Run.                              *)

StartListening ==
    /\ Running /\ acceptor = "starting"
    /\ acceptor' = "listening"
    /\ UNCHANGED <<vars, http, entered, active, signalled, shutdownRequested, main,
                   authAlive, exit>>

\* The port is taken: Run raises and the thread ends.  No request can come
\* any more, which is what `phase` stands for.
BindFails ==
    /\ BackendFails
    /\ Running /\ acceptor = "starting"
    /\ acceptor' = "finished"
    /\ IF phase = "serving" THEN Drain ELSE UNCHANGED vars
    /\ UNCHANGED <<http, entered, active, signalled, shutdownRequested, main,
                   authAlive, exit>>

RunReturns ==
    /\ Running /\ acceptor = "stopping"
    /\ acceptor' = "finished"
    /\ UNCHANGED <<vars, http, entered, active, signalled, shutdownRequested, main,
                   authAlive, exit>>

AcceptorStep == StartListening \/ BindFails \/ RunReturns

-----------------------------------------------------------------------------
(* The main thread: procedure Serve.                                        *)

MainAt(step) == Running /\ main = step
MainGoto(step) == main' = step

\* The constructor of TLiquidStoolapHttpServer, which opens the pool.
ConstructStep ==
    /\ MainAt("construct")
    /\ Construct \/ OpenStep(Main) \/ StartupQuery
    /\ UNCHANGED serverVars

StartServerThread ==
    /\ MainAt("construct")
    /\ pc[Main] = "up"
    /\ acceptor' = "starting"
    /\ MainGoto("poll")
    /\ UNCHANGED <<vars, http, entered, active, signalled, shutdownRequested,
                   authAlive, exit>>

\* while (not ShutdownRequested) and (not ServerThread.Finished)
PollEnds ==
    /\ MainAt("poll")
    /\ signalled \/ acceptor = "finished"
    /\ MainGoto(IF signalled THEN "setFlag" ELSE "freeAuth")
    /\ UNCHANGED <<vars, http, entered, active, signalled, shutdownRequested,
                   acceptor, authAlive, exit>>

\* RequestShutdown: FShutdownRequested, then FReady, then FServer.Active
SetShutdownFlag ==
    /\ MainAt("setFlag")
    /\ shutdownRequested' = TRUE
    /\ MainGoto("clearReady")
    /\ UNCHANGED <<vars, http, entered, active, signalled, acceptor, authAlive, exit>>

\* Mutant: FReady stays True.
StayReady ==
    /\ MainAt("clearReady")
    /\ MainGoto("deactivate")
    /\ UNCHANGED <<vars, http, entered, active, signalled, shutdownRequested, acceptor,
                   authAlive, exit>>

ClearReady ==
    /\ MainAt("clearReady")
    /\ IF phase = "serving" THEN Drain ELSE UNCHANGED vars
    /\ MainGoto("deactivate")
    /\ UNCHANGED <<http, entered, active, signalled, shutdownRequested, acceptor,
                   authAlive, exit>>

Deactivate ==
    /\ MainAt("deactivate")
    /\ StopAccepting
    /\ MainGoto("wake")
    /\ UNCHANGED <<vars, http, entered, active, signalled, shutdownRequested,
                   authAlive, exit>>

\* WakeServer: one GET /health, which a server that has not stopped accepts ...
WakeConnects ==
    /\ MainAt("wake")
    /\ acceptor \in {"listening", "stopping"}
    /\ HttpGoto(Waker, "reading")
    /\ MainGoto("waking")
    /\ UNCHANGED <<vars, entered, active, signalled, shutdownRequested, acceptor,
                   authAlive, exit>>

\* ... whose answer it waits for, and every error is ignored.
WakeEnds ==
    /\ \/ MainAt("wake") /\ acceptor # "listening"   \* refused, or not accepted
       \/ MainAt("waking") /\ http[Waker] = "none"
    /\ MainGoto("waitActive")
    /\ UNCHANGED <<vars, http, entered, active, signalled, shutdownRequested,
                   acceptor, authAlive, exit>>

\* Mutant: the shutdown does not wait for active requests.
SkipWaitForActive ==
    /\ MainAt("waitActive")
    /\ MainGoto("waitThread")
    /\ UNCHANGED <<vars, http, entered, active, signalled, shutdownRequested,
                   acceptor, authAlive, exit>>

\* WaitForActiveRequests finds FActiveRequests <= 0
NoActiveRequests ==
    /\ MainAt("waitActive")
    /\ active <= 0
    /\ MainGoto("waitThread")
    /\ UNCHANGED <<vars, http, entered, active, signalled, shutdownRequested,
                   acceptor, authAlive, exit>>

\* shutdown_grace_ms elapses first: Halt(4)
HaltActiveRequests ==
    /\ MainAt("waitActive")
    /\ active > 0
    /\ Impatient
    /\ exit' = 4
    /\ UNCHANGED <<vars, http, entered, active, signalled, shutdownRequested,
                   acceptor, main, authAlive>>

ThreadFinished ==
    /\ MainAt("waitThread")
    /\ acceptor = "finished"
    /\ MainGoto("freeAuth")
    /\ UNCHANGED <<vars, http, entered, active, signalled, shutdownRequested,
                   acceptor, authAlive, exit>>

\* Mutant: another grace period begins instead of Halt(4).
WaitAnotherGrace ==
    /\ MainAt("waitThread")
    /\ acceptor # "finished"
    /\ UNCHANGED allVars

\* The server thread is still there after shutdown_grace_ms: Halt(4).  With
\* patience this happens only to a thread that nobody has told to stop.
HaltThread ==
    /\ MainAt("waitThread")
    /\ acceptor # "finished"
    /\ Impatient \/ acceptor = "listening"
    /\ exit' = 4
    /\ UNCHANGED <<vars, http, entered, active, signalled, shutdownRequested,
                   acceptor, main, authAlive>>

\* Server.Free: FAuth.Free, FAdapter.Free (which closes the pool), FServer.Free
FreeAuth ==
    /\ MainAt("freeAuth")
    /\ authAlive' = FALSE
    /\ MainGoto("freeAdapter")
    /\ UNCHANGED <<vars, http, entered, active, signalled, shutdownRequested,
                   acceptor, exit>>

\* TStoolapAdapter.Destroy calls Close, which enters FOpenLock.
FreeAdapter ==
    /\ MainAt("freeAdapter")
    /\ pc[Main] = "up"
    /\ openLock = None
    /\ openLock' = Main
    /\ Goto(Main, "closescan")
    /\ UNCHANGED <<phase, db, poolSize, allocated, pool, busy, cursor, slot, late,
                   opens, serverVars>>

CloseStep ==
    /\ MainAt("freeAdapter")
    /\ AllFree \/ CloseHandle \/ Closed
    /\ UNCHANGED serverVars

ExitProcess ==
    /\ MainAt("freeAdapter")
    /\ pc[Main] = "closed"
    /\ exit' = 0
    /\ UNCHANGED <<vars, http, entered, active, signalled, shutdownRequested,
                   acceptor, main, authAlive>>

ServeStep ==
    \/ ConstructStep   \/ StartServerThread \/ PollEnds     \/ SetShutdownFlag
    \/ ClearReady      \/ Deactivate        \/ WakeConnects \/ WakeEnds
    \/ NoActiveRequests \/ HaltActiveRequests \/ ThreadFinished \/ HaltThread
    \/ FreeAuth        \/ FreeAdapter       \/ CloseStep    \/ ExitProcess

-----------------------------------------------------------------------------

\* SIGINT or SIGTERM; the handler is installed just before the thread starts.
Signal ==
    /\ Running /\ main # "construct"
    /\ ~signalled
    /\ signalled' = TRUE
    /\ UNCHANGED <<vars, http, entered, active, shutdownRequested, acceptor, main,
                   authAlive, exit>>

Exited == ~Running /\ UNCHANGED allVars

ServerNext ==
    \/ ServeStep
    \/ AcceptorStep
    \/ Signal
    \/ \E c \in Conns : HandlerStep(c)
    \/ \E r \in Requests : RequestHandlerStep(r) \/ Accept(r) \/ SqlExpires(r)
    \/ Exited

ServerSpec == ServerInit /\ [][ServerNext]_allVars

(***************************************************************************)
(* Fairness: threads run, clocks reach their deadlines, Stoolap ends every *)
(* statement, and a thread that keeps asking for FOpenLock gets it.        *)
(* Clients and signals are left to the environment.                        *)
(***************************************************************************)
ServerFairness ==
    /\ WF_allVars(ServeStep)
    /\ WF_allVars(AcceptorStep)
    /\ WF_allVars(HandlerStep(Waker))
    /\ \A r \in Requests : /\ WF_allVars(HandlerStep(r) \/ RequestHandlerStep(r))
                            /\ WF_allVars(SqlExpires(r))
                            /\ SF_allVars(SqlStep(r) /\ TakeOpenLock(r))

FairServerSpec == ServerSpec /\ ServerFairness

-----------------------------------------------------------------------------
(* Properties.                                                              *)

ServerTypeOK ==
    /\ TypeOK
    /\ http \in [Conns -> {"none", "reading", "entered", "token", "sql", "finally", "leave"}]
    /\ entered \in SUBSET Conns
    /\ active \in 0 .. MaxConcurrent
    /\ signalled \in BOOLEAN
    /\ shutdownRequested \in BOOLEAN
    /\ acceptor \in {"unborn", "starting", "listening", "stopping", "finished"}
    /\ main \in {"construct", "poll", "setFlag", "clearReady", "deactivate", "wake",
                 "waking", "waitActive", "waitThread", "freeAuth", "freeAdapter"}
    /\ authAlive \in BOOLEAN
    /\ exit \in {None, 0, 4}

\* FActiveRequests counts exactly the connections that are inside the
\* handler: a refused request neither takes nor gives back a place, so the
\* count can be trusted by the limit and by WaitForActiveRequests.
ActiveCountExact ==
    active = Cardinality({c \in Conns : http[c] \in {"entered", "token", "sql"}}
                         \union entered)

\* Destruction of the server finds the adapter at rest: from FAuth.Free on no
\* statement runs and none can start, because FReady was cleared before the
\* active requests were counted.
AdapterAtRest ==
    main \in {"freeAuth", "freeAdapter"} => \A r \in Requests : pc[r] = "idle"

\* With a handle per admitted request (sql_worker_count = 0 takes
\* max_concurrent_requests) an opened pool never makes a request wait.
NobodyWaitsForHandle ==
    (EagerOpen /\ PoolSize >= MaxConcurrent) => \A r \in Requests : pc[r] # "missed"

\* The server gives HandlePool the caller it takes for granted.
ImplementsPool == Spec

\* A signal always ends the process, whatever the clients do.
ShutdownEnds == signalled ~> ~Running

\* Every request a connection thread has read is answered, or the process ends.
EveryConnectionAnswered ==
    \A r \in Requests : http[r] = "reading" ~> (http[r] = "none" \/ ~Running)

\* CHANGELOG.md:21: "the server now waits for active HTTP requests and busy
\* Stoolap handles before closing": no handler uses FAuth after FAuth.Free.
AuthNotUsedAfterFree ==
    \A r \in Requests : (http[r] = "token" \/ pc[r] = "admitted") => authAlive

\* docs/SRS.md:762-767: graceful shutdown ends the process with code 0, given
\* that every request ends within shutdown_grace_ms.
GracefulExitCode == exit # 4

=============================================================================
