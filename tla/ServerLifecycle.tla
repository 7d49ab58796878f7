--------------------------- MODULE ServerLifecycle ---------------------------
(***************************************************************************)
(* The life of a generated server: autogenServer.Start, Stop and           *)
(* GracefulStop (core/serve.go), the multiStoppableServer they delegate    *)
(* to, and the REST (httpServer, core/http.go) and gRPC (grpcServer,       *)
(* core/grpc.go) sub-servers it runs.                                      *)
(*                                                                         *)
(* Processes: the goroutine that calls Start; one runner goroutine per     *)
(* sub-server, spawned by multiStoppableServer.Start; any number of        *)
(* callers of Stop or GracefulStop, each of which spawns one stopper       *)
(* goroutine per sub-server while it holds autogenServer.m; and clients    *)
(* whose requests are in flight in a sub-server.                           *)
(***************************************************************************)
EXTENDS Naturals, Sequences, FiniteSets

CONSTANTS Servers,      \* the sub-servers Start can build
          GrpcServers,  \* those of them that are gRPC servers
          Builds,       \* what the configuration makes Start do (see StartPlan)
          Callers,      \* goroutines that call Stop or GracefulStop, once each
          MaxInflight,  \* bound on the requests in flight in one sub-server
          NoOne         \* the mutex is free

Outcomes == {"ok", "error", "panic"}

Build == [outcome : Outcomes, servers : SUBSET Servers, health : BOOLEAN]

ASSUME BuildsAssumption == Builds \subseteq Build

ASSUME GrpcAssumption == GrpcServers \subseteq Servers

ASSUME InflightAssumption == MaxInflight \in Nat

ASSUME CallersAssumption == NoOne \notin Callers

VARIABLES
    build,       \* the outcome of Start's configuration phase
    starter,     \* where the goroutine in autogenServer.Start is
    startRes,    \* what Start returned
    mutex,       \* holder of autogenServer.m
    multi,       \* s.multiServer # nil
    ready,       \* health server was told SetReady(true)
    runner,      \* runner[s]: the goroutine running sub-server s
    runRes,      \* runRes[s]: what s.Start() returned or panicked with
    errChan,     \* the buffered channel of multiStoppableServer.Start
    shut,        \* shut[s]: "up", "draining" or "closed" (state of the library server)
    inflight,    \* inflight[s]: requests being processed by s
    dropped,     \* dropped[s]: s has cut a request off
    op,          \* op[c]: the call c makes
    caller,      \* where caller c is
    stopper,     \* stopper[c][s]: the goroutine of c that stops s
    late,        \* late[c][s]: the graceful stop of s by c ran into its deadline
    errQueue,    \* errQueue[c]: sub-servers whose stop error was queued
    callRes      \* callRes[c]: the errors c's call returned

startVars  == <<build, starter, startRes>>
guardVars  == <<mutex, multi, ready>>
runnerVars == <<runner, runRes, errChan>>
serverVars == <<shut, inflight, dropped>>
callerVars == <<op, caller, stopper, late, errQueue, callRes>>
vars == <<startVars, guardVars, runnerVars, serverVars, callerVars>>

Results == {"nil", "stopped", "failed"}
Nothing == "nothing"
Cap     == 1             \* make(chan error, 1)

IsGrpc(s) == s \in GrpcServers

TypeOK ==
    /\ build \in Build
    /\ starter \in {"idle", "publish", "setReady", "spawn", "waiting", "returned", "panicked"}
    /\ startRes \in Results \cup {Nothing}
    /\ mutex \in Callers \cup {NoOne}
    /\ multi \in BOOLEAN
    /\ ready \in BOOLEAN
    /\ runner \in [Servers -> {"none", "spawned", "serving", "sending", "done"}]
    /\ runRes \in [Servers -> Results \cup {Nothing}]
    /\ errChan \in Seq(Servers)
    /\ Len(errChan) <= Cap
    /\ shut \in [Servers -> {"up", "draining", "closed"}]
    /\ inflight \in [Servers -> 0..MaxInflight]
    /\ dropped \in [Servers -> BOOLEAN]
    /\ op \in [Callers -> {"none", "Stop", "GracefulStop"}]
    /\ caller \in [Callers -> {"idle", "lock", "stopping", "returned"}]
    /\ stopper \in [Callers -> [Servers -> {"none", "spawned", "draining", "done"}]]
    /\ late \in [Callers -> [Servers -> BOOLEAN]]
    /\ errQueue \in [Callers -> SUBSET Servers]
    /\ callRes \in [Callers -> SUBSET Servers]

Init ==
    /\ build \in Builds
    /\ starter = "idle"
    /\ startRes = Nothing
    /\ mutex = NoOne
    /\ multi = FALSE
    /\ ready = FALSE
    /\ runner = [s \in Servers |-> "none"]
    /\ runRes = [s \in Servers |-> Nothing]
    /\ errChan = << >>
    /\ shut = [s \in Servers |-> "up"]
    /\ inflight = [s \in Servers |-> 0]
    /\ dropped = [s \in Servers |-> FALSE]
    /\ op = [c \in Callers |-> "none"]
    /\ caller = [c \in Callers |-> "idle"]
    /\ stopper = [c \in Callers |-> [s \in Servers |-> "none"]]
    /\ late = [c \in Callers |-> [s \in Servers |-> FALSE]]
    /\ errQueue = [c \in Callers |-> {}]
    /\ callRes = [c \in Callers |-> {}]

-----------------------------------------------------------------------------
(* autogenServer.Start *)

\* The configuration phase: an error is returned, a panic escapes, or the
\* sub-servers are ready to be published.
StartCall ==
    /\ starter = "idle"
    /\ \/ /\ build.outcome = "ok"
          /\ starter' = "publish"
          /\ UNCHANGED startRes
       \/ /\ build.outcome = "error"
          /\ starter' = "returned"
          /\ startRes' = "failed"
       \/ /\ build.outcome = "panic"
          /\ starter' = "panicked"
          /\ UNCHANGED startRes
    /\ UNCHANGED <<build, guardVars, runnerVars, serverVars, callerVars>>

\* Slip: the multiServer is built but not stored in s.multiServer.
MultiServerNotStored ==
    /\ starter = "publish"
    /\ mutex = NoOne
    /\ starter' = "setReady"
    /\ UNCHANGED <<build, startRes, guardVars, runnerVars, serverVars, callerVars>>

newMultiStoppableServer ==
    /\ starter = "publish"
    /\ mutex = NoOne
    /\ multi' = TRUE
    /\ starter' = "setReady"
    /\ UNCHANGED <<build, startRes, mutex, ready, runnerVars, serverVars, callerVars>>

SetReady ==
    /\ starter = "setReady"
    /\ ready' = build.health
    /\ starter' = "spawn"
    /\ UNCHANGED <<build, startRes, mutex, multi, runnerVars, serverVars, callerVars>>

\* multiStoppableServer.Start: one goroutine per sub-server ...
SpawnRunners ==
    /\ starter = "spawn"
    /\ starter' = "waiting"
    /\ runner' = [s \in Servers |-> IF s \in build.servers THEN "spawned" ELSE "none"]
    /\ UNCHANGED <<build, startRes, guardVars, runRes, errChan, serverVars, callerVars>>

\* ... and return <-errChan.
StartReturn ==
    /\ starter = "waiting"
    /\ errChan # << >>
    /\ startRes' = runRes[Head(errChan)]
    /\ errChan' = Tail(errChan)
    /\ starter' = "returned"
    /\ UNCHANGED <<build, guardVars, runner, runRes, serverVars, callerVars>>

-----------------------------------------------------------------------------
(* The runner goroutine of sub-server s *)

Finish(s, res) ==
    /\ runner' = [runner EXCEPT ![s] = "sending"]
    /\ runRes' = [runRes EXCEPT ![s] = res]

\* Slip: the server is started without looking whether it was shut down.
HttpStartAnyway(s) ==
    /\ runner' = [runner EXCEPT ![s] = "serving"]
    /\ UNCHANGED runRes

\* net/http: a server that was shut down before it listened serves nothing and
\* returns ErrServerClosed, which httpServer.Start turns into nil.
HttpStart(s) ==
    \/ /\ shut[s] # "up"
       /\ Finish(s, "nil")
    \/ /\ shut[s] = "up"
       /\ runner' = [runner EXCEPT ![s] = "serving"]
       /\ UNCHANGED runRes

\* grpc: Serve after Stop returns ErrServerStopped, which grpcServer.Start
\* passes on.
GrpcStart(s) ==
    \/ /\ shut[s] # "up"
       /\ Finish(s, "stopped")
    \/ /\ shut[s] = "up"
       /\ runner' = [runner EXCEPT ![s] = "serving"]
       /\ UNCHANGED runRes

\* The port cannot be bound, or s.Start() panics and the deferred recover turns
\* the panic into an error.
StartFails(s) == Finish(s, "failed")

SubStart(s) ==
    /\ runner[s] = "spawned"
    /\ \/ ~IsGrpc(s) /\ HttpStart(s)
       \/ IsGrpc(s) /\ GrpcStart(s)
       \/ StartFails(s)
    /\ UNCHANGED <<startVars, guardVars, errChan, serverVars, callerVars>>

\* ListenAndServe returns as soon as Shutdown or Close is called, while
\* grpc.Server.Serve waits for Stop or GracefulStop to be over.
ServeEnds(s) ==
    /\ runner[s] = "serving"
    /\ shut[s] = "closed" \/ (shut[s] = "draining" /\ ~IsGrpc(s))
    /\ Finish(s, "nil")
    /\ UNCHANGED <<startVars, guardVars, errChan, serverVars, callerVars>>

\* Slip: httpServer.Start returns nil for every error of ListenAndServe.
ServeFailsSilently(s) ==
    /\ runner[s] = "serving"
    /\ shut[s] = "up"
    /\ Finish(s, "nil")
    /\ UNCHANGED <<startVars, guardVars, errChan, serverVars, callerVars>>

\* The accept loop gives up.
ServeFails(s) ==
    /\ runner[s] = "serving"
    /\ shut[s] = "up"
    /\ Finish(s, "failed")
    /\ UNCHANGED <<startVars, guardVars, errChan, serverVars, callerVars>>

\* Slip: only a non-nil error is sent.
SendErrorOnly(s) ==
    /\ runner[s] = "sending"
    /\ Len(errChan) < Cap
    /\ errChan' = IF runRes[s] = "nil" THEN errChan ELSE Append(errChan, s)
    /\ runner' = [runner EXCEPT ![s] = "done"]
    /\ UNCHANGED <<startVars, guardVars, runRes, serverVars, callerVars>>

\* Slip: make(chan error), where a send needs Start to be receiving.
SendResultUnbuffered(s) ==
    /\ runner[s] = "sending"
    /\ errChan = << >>
    /\ starter = "waiting"
    /\ errChan' = <<s>>
    /\ runner' = [runner EXCEPT ![s] = "done"]
    /\ UNCHANGED <<startVars, guardVars, runRes, serverVars, callerVars>>

\* errChan <- err
SendResult(s) ==
    /\ runner[s] = "sending"
    /\ Len(errChan) < Cap
    /\ errChan' = Append(errChan, s)
    /\ runner' = [runner EXCEPT ![s] = "done"]
    /\ UNCHANGED <<startVars, guardVars, runRes, serverVars, callerVars>>

-----------------------------------------------------------------------------
(* Clients *)

RequestArrives(s) ==
    /\ runner[s] = "serving"
    /\ shut[s] = "up"
    /\ inflight[s] < MaxInflight
    /\ inflight' = [inflight EXCEPT ![s] = @ + 1]
    /\ UNCHANGED <<startVars, guardVars, runnerVars, shut, dropped, callerVars>>

RequestDone(s) ==
    /\ inflight[s] > 0
    /\ inflight' = [inflight EXCEPT ![s] = @ - 1]
    /\ UNCHANGED <<startVars, guardVars, runnerVars, shut, dropped, callerVars>>

-----------------------------------------------------------------------------
(* autogenServer.Stop and GracefulStop, called by c *)

Call(c) ==
    /\ caller[c] = "idle"
    /\ caller' = [caller EXCEPT ![c] = "lock"]
    /\ \E o \in {"Stop", "GracefulStop"} : op' = [op EXCEPT ![c] = o]
    /\ UNCHANGED <<startVars, guardVars, runnerVars, serverVars, stopper, late, errQueue, callRes>>

\* Slip: Stop does not take s.m.
SpawnWithoutLock(c) ==
    /\ caller[c] = "lock"
    /\ multi
    /\ mutex' = c
    /\ caller' = [caller EXCEPT ![c] = "stopping"]
    /\ stopper' = [stopper EXCEPT ![c] =
            [s \in Servers |-> IF s \in build.servers THEN "spawned" ELSE "none"]]
    /\ UNCHANGED <<startVars, multi, ready, runnerVars, serverVars, op, late, errQueue, callRes>>

\* s.m.Lock(); nothing to stop when multiServer is nil.
LockAndSpawn(c) ==
    /\ caller[c] = "lock"
    /\ mutex = NoOne
    /\ \/ /\ ~multi
          /\ caller' = [caller EXCEPT ![c] = "returned"]
          /\ UNCHANGED <<mutex, stopper>>
       \/ /\ multi
          /\ mutex' = c
          /\ caller' = [caller EXCEPT ![c] = "stopping"]
          /\ stopper' = [stopper EXCEPT ![c] =
                [s \in Servers |-> IF s \in build.servers THEN "spawned" ELSE "none"]]
    /\ UNCHANGED <<startVars, multi, ready, runnerVars, serverVars, op, late, errQueue, callRes>>

\* server.Close() and grpc.Server.Stop(): every connection is cut.
HardStop(s) ==
    /\ shut' = [shut EXCEPT ![s] = "closed"]
    /\ inflight' = [inflight EXCEPT ![s] = 0]
    /\ dropped' = [dropped EXCEPT ![s] = @ \/ inflight[s] > 0]

\* The stopper goroutine's tail: an error of an httpServer is queued, a grpcServer
\* has none to report.
StopperDone(c, s) ==
    /\ stopper' = [stopper EXCEPT ![c][s] = "done"]
    /\ \/ UNCHANGED errQueue
       \/ /\ ~IsGrpc(s)
          /\ errQueue' = [errQueue EXCEPT ![c] = @ \cup {s}]

StopSub(c, s) ==
    /\ stopper[c][s] = "spawned"
    /\ op[c] = "Stop"
    /\ HardStop(s)
    /\ StopperDone(c, s)
    /\ UNCHANGED <<startVars, guardVars, runnerVars, op, caller, late, callRes>>

\* Slip: GracefulStop closes the server before it waits.
GracefulStopCloses(c, s) ==
    /\ stopper[c][s] = "spawned"
    /\ op[c] = "GracefulStop"
    /\ HardStop(s)
    /\ stopper' = [stopper EXCEPT ![c][s] = "draining"]
    /\ UNCHANGED <<startVars, guardVars, runnerVars, op, caller, late, errQueue, callRes>>

\* Shutdown and grpc GracefulStop close the listener, then wait.
GracefulStopSub(c, s) ==
    /\ stopper[c][s] = "spawned"
    /\ op[c] = "GracefulStop"
    /\ shut' = [shut EXCEPT ![s] = IF @ = "up" THEN "draining" ELSE @]
    /\ stopper' = [stopper EXCEPT ![c][s] = "draining"]
    /\ UNCHANGED <<startVars, guardVars, runnerVars, inflight, dropped, op, caller, late, errQueue, callRes>>

Drained(c, s) ==
    /\ stopper[c][s] = "draining"
    /\ inflight[s] = 0
    /\ shut' = [shut EXCEPT ![s] = "closed"]
    /\ StopperDone(c, s)
    /\ UNCHANGED <<startVars, guardVars, runnerVars, inflight, dropped, op, caller, late, callRes>>

\* Slip: Shutdown is given a context without a deadline.
NoDeadline(c, s) == FALSE

\* httpServer.GracefulStop gives up at its deadline and closes the server.
\* grpcServer.GracefulStop has no deadline.
DeadlineExceeded(c, s) ==
    /\ stopper[c][s] = "draining"
    /\ ~IsGrpc(s)
    /\ HardStop(s)
    /\ late' = [late EXCEPT ![c][s] = TRUE]
    /\ StopperDone(c, s)
    /\ UNCHANGED <<startVars, guardVars, runnerVars, op, caller, callRes>>

\* Slip: no wg.Wait().
CallReturnEarly(c) ==
    /\ caller[c] = "stopping"
    /\ callRes' = [callRes EXCEPT ![c] = errQueue[c]]
    /\ caller' = [caller EXCEPT ![c] = "returned"]
    /\ mutex' = NoOne
    /\ UNCHANGED <<startVars, multi, ready, runnerVars, serverVars, op, stopper, late, errQueue>>

\* wg.Wait(), drain errQueue, return, deferred s.m.Unlock().
CallReturn(c) ==
    /\ caller[c] = "stopping"
    /\ \A s \in build.servers : stopper[c][s] = "done"
    /\ callRes' = [callRes EXCEPT ![c] = errQueue[c]]
    /\ caller' = [caller EXCEPT ![c] = "returned"]
    /\ mutex' = NoOne
    /\ UNCHANGED <<startVars, multi, ready, runnerVars, serverVars, op, stopper, late, errQueue>>

-----------------------------------------------------------------------------

Starter == StartCall \/ newMultiStoppableServer \/ SetReady \/ SpawnRunners \/ StartReturn

Runner(s) == SubStart(s) \/ ServeEnds(s) \/ SendResult(s)

Stopper(c, s) == StopSub(c, s) \/ GracefulStopSub(c, s) \/ Drained(c, s) \/ DeadlineExceeded(c, s)

Environment ==
    \/ \E s \in Servers : RequestArrives(s) \/ RequestDone(s) \/ ServeFails(s)
    \/ \E c \in Callers : Call(c)

Next ==
    \/ Starter
    \/ Environment
    \/ \E s \in Servers : Runner(s)
    \/ \E c \in Callers : LockAndSpawn(c) \/ CallReturn(c)
    \/ \E c \in Callers, s \in Servers : Stopper(c, s)

Spec == Init /\ [][Next]_vars

\* Go schedules every runnable goroutine and fires every timer; sync.Mutex does
\* not starve a waiter. Nothing makes a request finish or a client call.
Fairness ==
    /\ WF_vars(Starter)
    /\ \A s \in Servers : WF_vars(Runner(s))
    /\ \A c \in Callers : SF_vars(LockAndSpawn(c)) /\ WF_vars(CallReturn(c))
    /\ \A c \in Callers, s \in Servers : WF_vars(Stopper(c, s))

FairSpec == Spec /\ Fairness

-----------------------------------------------------------------------------
(* Safety *)

\* The call of c found a server to stop.
Found(c) == \E s \in Servers : stopper[c][s] # "none"

\* At most one Stop or GracefulStop is at work at any time: a sub-server is never
\* being stopped by two calls, because autogenServer.m is held for the whole call.
StopsAreSerial ==
    \A c, d \in Callers, s, t \in Servers :
        (stopper[c][s] \in {"spawned", "draining"} /\ stopper[d][t] \in {"spawned", "draining"}) => c = d

\* The WaitGroup in multiStoppableServer.Stop and GracefulStop: when a call that
\* found a server returns, every sub-server is closed and every error a sub-server
\* reported is in the MultiError, none arriving after the queue was drained.
StopIsComplete ==
    \A c \in Callers : (caller[c] = "returned" /\ Found(c)) =>
        /\ \A s \in build.servers : shut[s] = "closed"
        /\ callRes[c] = errQueue[c]

\* Start returns nil only because a stop was asked for: httpServer.Start hides
\* ErrServerClosed and no other error.
StartNilMeansStop ==
    startRes = "nil" => \E c \in Callers, s \in build.servers :
                            stopper[c][s] \in {"draining", "done"} /\ shut[s] # "up"

\* A graceful stop cuts a request off only in a sub-server whose own deadline has
\* expired; otherwise only Stop does (httpServer.GracefulStop, grpcServer.GracefulStop).
DropsAreJustified ==
    \A s \in Servers : dropped[s] =>
        \E c \in Callers : late[c][s] \/ (op[c] = "Stop" /\ stopper[c][s] = "done")

\* Once the health endpoint has been told the server is ready, a Stop or GracefulStop
\* cannot come back without having stopped anything: multiServer is published first. (Before
\* that a call finds no server, returns nil, and Start goes on: autogenServer.Stop.)
ReadyIsStoppable ==
    [][\A c \in Callers : (ready /\ caller[c] = "lock" /\ caller'[c] # "lock") => caller'[c] = "stopping"]_vars

\* After a call that found a server has returned, no sub-server starts serving or
\* takes a request, not even one whose runner had not reached its Start yet.
StoppedStaysStopped ==
    [][\A c \in Callers, s \in build.servers : (caller[c] = "returned" /\ Found(c)) =>
            /\ runner'[s] = "serving" => runner[s] = "serving"
            /\ inflight'[s] <= inflight[s]]_vars

-----------------------------------------------------------------------------
(* Liveness *)

\* Every Stop and GracefulStop returns when all sub-servers are REST, even when a
\* request never finishes: Shutdown is given a deadline and is followed by Close.
StopCallsReturn ==
    \A c \in Callers :
        (caller[c] = "lock" /\ build.servers \cap GrpcServers = {}) ~> caller[c] = "returned"

\* Start comes back once a sub-server has failed or a stop call has returned.
StartComesBack ==
    ((\E s \in Servers : runner[s] = "sending") \/ (\E c \in Callers : caller[c] = "returned" /\ Found(c)))
        ~> starter = "returned"

\* With at most two sub-servers no runner goroutine is left behind: one result is
\* received by Start and the other fits in errChan. With three, one may stay blocked.
NoRunnerLeaks ==
    \A s \in Servers :
        (runner[s] = "sending" /\ Cardinality(build.servers) <= 2) ~> runner[s] = "done"

-----------------------------------------------------------------------------
(* What the comments of core/stoppableserver.go say *)

\* "bring the server to a stop after some bounded period of time, even if this
\* involves ungracefully dropping some laggard requests/calls" (line 18).
GracefulStopIsBounded ==
    \A c \in Callers : (caller[c] = "stopping" /\ op[c] = "GracefulStop") ~> caller[c] = "returned"
==============================================================================
