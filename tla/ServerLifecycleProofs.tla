------------------------ MODULE ServerLifecycleProofs -------------------------
(***************************************************************************)
(* Proofs about ServerLifecycle for every set of sub-servers, callers and  *)
(* builds and every bound on the requests in flight.                       *)
(***************************************************************************)
EXTENDS ServerLifecycle, TLAPS

\* Init starts inside the types: a build is one some configuration leads to.
LEMMA InitType == Init => TypeOK
<1> SUFFICES ASSUME Init PROVE TypeOK
  OBVIOUS
<1>1. build \in Build
  BY BuildsAssumption DEF Init
<1>2. errChan \in Seq(Servers) /\ Len(errChan) <= Cap
  BY DEF Init, Cap
<1>3. /\ errQueue \in [Callers -> SUBSET Servers]
      /\ callRes \in [Callers -> SUBSET Servers]
  BY DEF Init
<1>4. /\ stopper \in [Callers -> [Servers -> {"none", "spawned", "draining", "done"}]]
      /\ late \in [Callers -> [Servers -> BOOLEAN]]
  BY DEF Init
<1>5. inflight \in [Servers -> 0..MaxInflight]
  BY InflightAssumption DEF Init
<1>6. /\ shut \in [Servers -> {"up", "draining", "closed"}]
      /\ dropped \in [Servers -> BOOLEAN]
      /\ op \in [Callers -> {"none", "Stop", "GracefulStop"}]
      /\ caller \in [Callers -> {"idle", "lock", "stopping", "returned"}]
      /\ runner \in [Servers -> {"none", "spawned", "serving", "sending", "done"}]
      /\ runRes \in [Servers -> Results \cup {Nothing}]
  BY DEF Init
<1> QED
  BY Zenon, <1>1, <1>2, <1>3, <1>4, <1>5, <1>6 DEF Init, TypeOK

\* The library servers' hard stop keeps the types.
LEMMA HardStopType ==
    ASSUME TypeOK, NEW s \in Servers, HardStop(s)
    PROVE  /\ shut' \in [Servers -> {"up", "draining", "closed"}]
           /\ inflight' \in [Servers -> 0..MaxInflight]
           /\ dropped' \in [Servers -> BOOLEAN]
  BY InflightAssumption DEF TypeOK, HardStop

\* A stopper goroutine that is done has its state and the error queue typed.
LEMMA StopperDoneType ==
    ASSUME TypeOK, NEW c \in Callers, NEW s \in Servers, StopperDone(c, s)
    PROVE  /\ stopper' \in [Callers -> [Servers -> {"none", "spawned", "draining", "done"}]]
           /\ errQueue' \in [Callers -> SUBSET Servers]
<1>1. stopper' \in [Callers -> [Servers -> {"none", "spawned", "draining", "done"}]]
  BY DEF TypeOK, StopperDone
<1>2. errQueue' \in [Callers -> SUBSET Servers]
  <2>1. errQueue[c] \cup {s} \in SUBSET Servers
    BY DEF TypeOK
  <2> QED
    BY ZenonT(40), <2>1 DEF TypeOK, StopperDone
<1> QED
  BY <1>1, <1>2

\* Every step of Start, of a runner, of a stop call and of a client keeps the types.
LEMMA NextType == TypeOK /\ [Next]_vars => TypeOK'
<1> SUFFICES ASSUME TypeOK, [Next]_vars PROVE TypeOK'
  OBVIOUS
<1> USE DEF TypeOK, startVars, guardVars, runnerVars, serverVars, callerVars
<1>1. CASE StartCall
  BY <1>1 DEF StartCall, Results
<1>2. CASE newMultiStoppableServer
  BY <1>2 DEF newMultiStoppableServer
<1>3. CASE SetReady
  BY <1>3 DEF SetReady, Build
<1>4. CASE SpawnRunners
  BY <1>4 DEF SpawnRunners
<1>5. CASE StartReturn
  <2>1. /\ Head(errChan) \in Servers
        /\ Tail(errChan) \in Seq(Servers)
        /\ Len(Tail(errChan)) <= Cap
    BY <1>5 DEF StartReturn, Cap
  <2>2. startRes' \in Results \cup {Nothing}
    BY <1>5, <2>1 DEF StartReturn
  <2> QED
    BY <1>5, <2>1, <2>2 DEF StartReturn
<1>6. ASSUME NEW s \in Servers, SubStart(s) PROVE TypeOK'
  <2>1. \/ runner' = [runner EXCEPT ![s] = "serving"] /\ runRes' = runRes
        \/ \E res \in Results : Finish(s, res)
    BY Zenon, <1>6 DEF SubStart, HttpStart, GrpcStart, StartFails, Results
  <2>2. runner' \in [Servers -> {"none", "spawned", "serving", "sending", "done"}]
    BY Zenon, <1>6, <2>1 DEF Finish
  <2>3. runRes' \in [Servers -> Results \cup {Nothing}]
    BY Zenon, <1>6, <2>1 DEF Finish
  <2> QED
    BY Zenon, <1>6, <2>2, <2>3 DEF SubStart
<1>7. ASSUME NEW s \in Servers, ServeEnds(s) PROVE TypeOK'
  BY <1>7 DEF ServeEnds, Finish, Results
<1>8. ASSUME NEW s \in Servers, ServeFails(s) PROVE TypeOK'
  BY <1>8 DEF ServeFails, Finish, Results
<1>9. ASSUME NEW s \in Servers, SendResult(s) PROVE TypeOK'
  BY <1>9 DEF SendResult, Cap
<1>10. ASSUME NEW s \in Servers, RequestArrives(s) PROVE TypeOK'
  BY <1>10, InflightAssumption DEF RequestArrives
<1>11. ASSUME NEW s \in Servers, RequestDone(s) PROVE TypeOK'
  BY <1>11, InflightAssumption DEF RequestDone
<1>12. ASSUME NEW c \in Callers, Call(c) PROVE TypeOK'
  BY <1>12 DEF Call
<1>13. ASSUME NEW c \in Callers, LockAndSpawn(c) PROVE TypeOK'
  <2>1. CASE ~multi
    BY Zenon, <1>13, <2>1 DEF LockAndSpawn
  <2>2. CASE multi
    <3> DEFINE spawned == [s \in Servers |-> IF s \in build.servers THEN "spawned" ELSE "none"]
    <3>1. spawned \in [Servers -> {"none", "spawned", "draining", "done"}]
      OBVIOUS
    <3>2. stopper' = [stopper EXCEPT ![c] = spawned]
      BY <1>13, <2>2 DEF LockAndSpawn
    <3> HIDE DEF spawned
    <3>3. stopper' \in [Callers -> [Servers -> {"none", "spawned", "draining", "done"}]]
      BY <3>1, <3>2
    <3> QED
      BY Zenon, <1>13, <2>2, <3>3 DEF LockAndSpawn
  <2> QED
    BY <2>1, <2>2
<1>14. ASSUME NEW c \in Callers, CallReturn(c) PROVE TypeOK'
  BY <1>14 DEF CallReturn
<1>15. ASSUME NEW c \in Callers, NEW s \in Servers, StopSub(c, s) PROVE TypeOK'
  BY <1>15, HardStopType, StopperDoneType DEF StopSub
<1>16. ASSUME NEW c \in Callers, NEW s \in Servers, GracefulStopSub(c, s) PROVE TypeOK'
  BY <1>16 DEF GracefulStopSub
<1>17. ASSUME NEW c \in Callers, NEW s \in Servers, Drained(c, s) PROVE TypeOK'
  BY SMTT(30), <1>17, StopperDoneType DEF Drained
<1>18. ASSUME NEW c \in Callers, NEW s \in Servers, DeadlineExceeded(c, s) PROVE TypeOK'
  BY SMTT(30), <1>18, HardStopType, StopperDoneType DEF DeadlineExceeded
<1>19. CASE UNCHANGED vars
  BY <1>19 DEF vars
<1> QED
    BY Zenon, <1>1, <1>2, <1>3, <1>4, <1>5, <1>6, <1>7, <1>8, <1>9, <1>10, <1>11, <1>12, <1>13,
     <1>14, <1>15, <1>16, <1>17, <1>18, <1>19
     DEF Next, Starter, Runner, Stopper, Environment

\* The server's state never leaves its types.
THEOREM TypeCorrect == Spec => []TypeOK
  BY InitType, NextType, PTL DEF Spec

-----------------------------------------------------------------------------
(* Stop calls: the mutex, the stopper goroutines and what they leave behind. *)

\* autogenServer.m is held by the call that has stopper goroutines at work, and a call
\* has stopper goroutines only for sub-servers that were built.
Locking ==
    /\ \A c \in Callers : caller[c] = "stopping" <=> mutex = c
    /\ \A c \in Callers, s \in Servers :
          /\ stopper[c][s] \in {"spawned", "draining"} => caller[c] = "stopping"
          /\ stopper[c][s] # "none" => caller[c] \in {"stopping", "returned"} /\ s \in build.servers

\* A stopper that is done leaves its sub-server closed for good.
Closing ==
    /\ \A c \in Callers, s \in Servers : stopper[c][s] = "done" => shut[s] = "closed"
    /\ StopIsComplete

StopInv == TypeOK /\ Locking /\ Closing

\* A step of Start, of a runner or of a client touches neither the mutex nor a call.
LEMMA StepKinds ==
    ASSUME Next
    PROVE  \/ UNCHANGED <<build, mutex, shut, callerVars>>
           \/ \E c \in Callers : Call(c) \/ LockAndSpawn(c) \/ CallReturn(c)
           \/ \E c \in Callers, s \in Servers : Stopper(c, s)
<1>1. CASE Starter
  BY <1>1 DEF Starter, StartCall, newMultiStoppableServer, SetReady, SpawnRunners, StartReturn,
     guardVars, serverVars
<1>2. ASSUME NEW s \in Servers, Runner(s)
      PROVE  UNCHANGED <<build, mutex, shut, callerVars>>
  BY <1>2 DEF Runner, SubStart, ServeEnds, SendResult, startVars, guardVars, serverVars
<1>3. ASSUME NEW s \in Servers, RequestArrives(s) \/ RequestDone(s) \/ ServeFails(s)
      PROVE  UNCHANGED <<build, mutex, shut, callerVars>>
  BY <1>3 DEF RequestArrives, RequestDone, ServeFails, startVars, guardVars, serverVars
<1> QED
  BY <1>1, <1>2, <1>3 DEF Next, Environment

\* Closed sub-servers stay closed under every step.
LEMMA ClosedStays ==
    ASSUME TypeOK, [Next]_vars, NEW s \in Servers, shut[s] = "closed"
    PROVE  shut'[s] = "closed"
<1>1. ASSUME NEW c \in Callers, NEW t \in Servers, Stopper(c, t) PROVE shut'[s] = "closed"
  BY <1>1 DEF Stopper, StopSub, GracefulStopSub, Drained, DeadlineExceeded, HardStop, TypeOK
<1>2. ASSUME NEW c \in Callers, Call(c) \/ LockAndSpawn(c) \/ CallReturn(c) PROVE shut'[s] = "closed"
  BY SMTT(30), <1>2 DEF Call, LockAndSpawn, CallReturn, serverVars
<1> QED
  BY <1>1, <1>2, StepKinds DEF vars, serverVars

\* Every step keeps the mutex and the stopper goroutines in agreement.
LEMMA NextLocking == StopInv /\ [Next]_vars => Locking'
<1> SUFFICES ASSUME StopInv, [Next]_vars PROVE Locking'
  OBVIOUS
<1> USE DEF StopInv, TypeOK, Locking
<1>1. CASE UNCHANGED <<build, mutex, callerVars>>
  BY <1>1 DEF callerVars
<1>2. ASSUME NEW c \in Callers, Call(c) PROVE Locking'
  BY <1>2 DEF Call, startVars, guardVars
<1>3. ASSUME NEW c \in Callers, LockAndSpawn(c) PROVE Locking'
  <2>1. CASE ~multi
    BY <1>3, <2>1 DEF LockAndSpawn, startVars
  <2>2. CASE multi
    <3>1. /\ mutex = NoOne /\ mutex' = c /\ build' = build
          /\ caller' = [caller EXCEPT ![c] = "stopping"]
      BY <1>3, <2>2 DEF LockAndSpawn, startVars
    <3>2. \A d \in Callers, s \in Servers :
            stopper'[d][s] = IF d # c THEN stopper[d][s]
                             ELSE IF s \in build.servers THEN "spawned" ELSE "none"
      BY <1>3, <2>2 DEF LockAndSpawn
    <3> QED
      BY <3>1, <3>2, CallersAssumption
  <2> QED
    BY <2>1, <2>2
<1>4. ASSUME NEW c \in Callers, CallReturn(c) PROVE Locking'
  BY SMTT(30), <1>4, CallersAssumption DEF CallReturn, startVars
<1>5. ASSUME NEW c \in Callers, NEW s \in Servers, Stopper(c, s) PROVE Locking'
  BY SMTT(30), <1>5 DEF Stopper, StopSub, GracefulStopSub, Drained, DeadlineExceeded, StopperDone, startVars, guardVars
<1> QED
  BY <1>1, <1>2, <1>3, <1>4, <1>5, StepKinds DEF vars, startVars, guardVars

\* Every step keeps what stopped sub-servers and returned calls promise.
LEMMA NextClosing == StopInv /\ [Next]_vars => Closing'
<1> SUFFICES ASSUME StopInv, [Next]_vars PROVE Closing'
  OBVIOUS
<1> USE DEF StopInv, Closing, StopIsComplete, Found
<1>1. CASE UNCHANGED <<build, shut, callerVars>>
  BY <1>1 DEF callerVars
<1>2. ASSUME NEW c \in Callers, Call(c) PROVE Closing'
  BY <1>2 DEF Call, startVars, serverVars, TypeOK
<1>3. ASSUME NEW c \in Callers, LockAndSpawn(c) PROVE Closing'
  <2>1. build' = build /\ shut' = shut /\ callRes' = callRes /\ errQueue' = errQueue
    BY <1>3 DEF LockAndSpawn, startVars, serverVars
  <2>2. \A d \in Callers : d # c => caller'[d] = caller[d] /\ stopper'[d] = stopper[d]
    BY <1>3 DEF LockAndSpawn, TypeOK
  <2>3. \A s \in Servers : stopper'[c][s] # "done" /\ stopper[c][s] = "none"
    BY <1>3 DEF LockAndSpawn, TypeOK, Locking
  <2>4. caller'[c] = "returned" => stopper'[c] = stopper[c]
    BY <1>3 DEF LockAndSpawn, TypeOK
  <2> QED
    BY <2>1, <2>2, <2>3, <2>4
<1>4. ASSUME NEW c \in Callers, CallReturn(c) PROVE Closing'
  BY <1>4 DEF CallReturn, startVars, serverVars, TypeOK, Build
<1>5. ASSUME NEW c \in Callers, NEW s \in Servers, Stopper(c, s) PROVE Closing'
  <2>1. build' = build /\ caller' = caller /\ callRes' = callRes /\ caller[c] = "stopping"
    BY SMTT(30), <1>5 DEF Stopper, StopSub, GracefulStopSub, Drained, DeadlineExceeded, Locking, startVars
  <2>2. \A d \in Callers : d # c => errQueue'[d] = errQueue[d] /\ stopper'[d] = stopper[d]
    BY SMTT(30), <1>5 DEF Stopper, StopSub, GracefulStopSub, Drained, DeadlineExceeded, StopperDone, TypeOK
  <2>3. \A t \in Servers : t # s => stopper'[c][t] = stopper[c][t]
    BY <1>5 DEF Stopper, StopSub, GracefulStopSub, Drained, DeadlineExceeded, StopperDone, TypeOK
  <2>4. stopper'[c][s] = "done" => shut'[s] = "closed"
    BY <1>5 DEF Stopper, StopSub, GracefulStopSub, Drained, DeadlineExceeded, StopperDone, HardStop, TypeOK
  <2>5. \A t \in Servers : shut[t] = "closed" => shut'[t] = "closed"
    BY ClosedStays
  <2>6. build.servers \subseteq Servers
    BY DEF TypeOK, Build
  <2> QED
    BY <2>1, <2>2, <2>3, <2>4, <2>5, <2>6
<1> QED
  BY <1>1, <1>2, <1>3, <1>4, <1>5, StepKinds DEF vars, startVars, serverVars

\* The invariant of the stop calls holds from the start ...
LEMMA InitStopInv == Init => StopInv
<1> SUFFICES ASSUME Init PROVE StopInv
  OBVIOUS
<1>1. Locking
  BY CallersAssumption DEF Init, Locking
<1>2. Closing
  BY DEF Init, Closing, StopIsComplete
<1> QED
  BY InitType, <1>1, <1>2 DEF StopInv

\* ... and throughout.
LEMMA StopInvariance == Spec => []StopInv
<1>1. StopInv /\ [Next]_vars => StopInv'
  BY NextType, NextLocking, NextClosing DEF StopInv
<1> QED
  BY InitStopInv, <1>1, PTL DEF Spec

\* autogenServer.m serialises the stop calls: no two of them are ever at work on
\* sub-servers at the same time.
THEOREM SerialStops == Spec => []StopsAreSerial
<1>1. StopInv => StopsAreSerial
  BY DEF StopInv, Locking, StopsAreSerial
<1> QED
  BY StopInvariance, <1>1, PTL

\* A stop call that found a server has closed all of it, and reports every error, when
\* it returns.
THEOREM CompleteStop == Spec => []StopIsComplete
<1>1. StopInv => StopIsComplete
  BY DEF StopInv, Closing
<1> QED
  BY StopInvariance, <1>1, PTL

\* A stopped server never serves again: no runner that comes late starts its sub-server
\* and no request gets in.
THEOREM StaysStopped == Spec => StoppedStaysStopped
<1> DEFINE Stays ==
        \A c \in Callers, s \in build.servers : (caller[c] = "returned" /\ Found(c)) =>
            /\ runner'[s] = "serving" => runner[s] = "serving"
            /\ inflight'[s] <= inflight[s]
<1>1. StopInv /\ [Next]_vars => [Stays]_vars
  <2> SUFFICES ASSUME StopInv, Next, NEW c \in Callers, NEW s \in build.servers,
                      caller[c] = "returned", Found(c)
               PROVE  /\ runner'[s] = "serving" => runner[s] = "serving"
                      /\ inflight'[s] <= inflight[s]
    OBVIOUS
  <2>1. s \in Servers /\ shut[s] = "closed" /\ inflight[s] \in Nat
    BY InflightAssumption DEF StopInv, TypeOK, Build, Closing, StopIsComplete
  <2>2. TypeOK
    BY DEF StopInv
  <2>3. CASE Starter
    BY <2>1, <2>2, <2>3 DEF Starter, StartCall, newMultiStoppableServer, SetReady, SpawnRunners,
       StartReturn, runnerVars, serverVars
  <2>4. ASSUME NEW t \in Servers, Runner(t) \/ RequestArrives(t) \/ RequestDone(t) \/ ServeFails(t)
        PROVE  /\ runner'[s] = "serving" => runner[s] = "serving"
               /\ inflight'[s] <= inflight[s]
    BY <2>1, <2>2, <2>4 DEF Runner, SubStart, HttpStart, GrpcStart, StartFails, ServeEnds, SendResult,
       RequestArrives, RequestDone, ServeFails, Finish, runnerVars, serverVars, TypeOK
  <2>5. ASSUME NEW d \in Callers, Call(d) \/ LockAndSpawn(d) \/ CallReturn(d)
        PROVE  runner' = runner /\ inflight' = inflight
    BY <2>5 DEF Call, LockAndSpawn, CallReturn, runnerVars, serverVars
  <2>6. ASSUME NEW d \in Callers, NEW t \in Servers, Stopper(d, t)
        PROVE  runner' = runner /\ inflight'[s] <= inflight[s]
    <3>1. CASE StopSub(d, t) \/ DeadlineExceeded(d, t)
      <4>1. inflight' = [inflight EXCEPT ![t] = 0] /\ runner' = runner
        BY <3>1 DEF StopSub, DeadlineExceeded, HardStop, runnerVars
      <4> QED
        BY <2>1, <2>2, <4>1 DEF TypeOK
    <3>2. CASE GracefulStopSub(d, t) \/ Drained(d, t)
      BY <2>1, <3>2 DEF GracefulStopSub, Drained, runnerVars
    <3> QED
      BY <2>6, <3>1, <3>2 DEF Stopper
  <2> QED
    BY <2>1, <2>3, <2>4, <2>5, <2>6 DEF Next, Environment
<1> QED
  BY StopInvariance, <1>1, PTL DEF Spec, StoppedStaysStopped

-----------------------------------------------------------------------------
(* Start: what is published when, and why it comes back. *)

\* multiServer is published before the health server is told; only a sub-server that
\* was built has a runner or a result; a result is nil, and so is Start's, only when the
\* sub-server was shut down; and only a stopper that is past its spawn shuts one down.
Starting ==
    /\ starter \in {"setReady", "spawn", "waiting"} \/ ready => multi
    /\ \A s \in Servers :
          /\ runner[s] # "none" => s \in build.servers
          /\ runRes[s] = "nil" => s \in build.servers /\ shut[s] # "up"
          /\ shut[s] # "up" => \E c \in Callers : stopper[c][s] \in {"draining", "done"}
    /\ startRes = "nil" => \E s \in build.servers : shut[s] # "up"

\* A stopper that has begun never goes back: its call spawns stoppers once.
LEMMA StopperStays ==
    ASSUME StopInv, [Next]_vars, NEW c \in Callers, NEW s \in Servers,
           stopper[c][s] \in {"draining", "done"}
    PROVE  stopper'[c][s] \in {"draining", "done"}
<1> USE DEF StopInv, TypeOK, Locking
<1>1. ASSUME NEW d \in Callers, LockAndSpawn(d) PROVE stopper'[c][s] = stopper[c][s]
  <2>1. d # c
    BY Zenon, <1>1 DEF LockAndSpawn
  <2> QED
    BY <1>1, <2>1 DEF LockAndSpawn
<1>2. ASSUME NEW d \in Callers, Call(d) \/ CallReturn(d) PROVE stopper' = stopper
  BY <1>2 DEF Call, CallReturn
<1>3. ASSUME NEW d \in Callers, NEW t \in Servers, Stopper(d, t)
      PROVE  stopper'[c][s] \in {"draining", "done"}
  BY <1>3 DEF Stopper, StopSub, GracefulStopSub, Drained, DeadlineExceeded, StopperDone
<1> QED
  BY <1>1, <1>2, <1>3, StepKinds DEF vars, callerVars

\* A sub-server that is being shut down never comes up again, and one that comes down
\* does so by a stopper at work on it.
LEMMA ShutByStopper ==
    ASSUME StopInv, [Next]_vars, NEW s \in Servers
    PROVE  /\ shut[s] # "up" => shut'[s] # "up"
           /\ shut[s] = "up" /\ shut'[s] # "up" =>
                \E c \in Callers : stopper'[c][s] \in {"draining", "done"}
<1> USE DEF StopInv, TypeOK
<1>1. ASSUME NEW c \in Callers, Call(c) \/ LockAndSpawn(c) \/ CallReturn(c) PROVE shut' = shut
  BY <1>1 DEF Call, LockAndSpawn, CallReturn, serverVars
<1>2. ASSUME NEW c \in Callers, NEW t \in Servers, Stopper(c, t)
      PROVE  /\ shut[s] # "up" => shut'[s] # "up"
             /\ shut'[s] # shut[s] => stopper'[c][s] \in {"draining", "done"}
  BY <1>2 DEF Stopper, StopSub, GracefulStopSub, Drained, DeadlineExceeded, HardStop, StopperDone
<1> QED
  BY <1>1, <1>2, StepKinds DEF vars, serverVars

\* What holds of Start holds after every step.
LEMMA NextStarting == StopInv /\ Starting /\ [Next]_vars => Starting'
<1> SUFFICES ASSUME StopInv, Starting, [Next]_vars PROVE Starting'
  OBVIOUS
<1> USE DEF StopInv, TypeOK
<1>1. \A s \in Servers : shut[s] # "up" => shut'[s] # "up"
  BY SMTT(30), ShutByStopper
<1>2. \A s \in Servers : shut'[s] # "up" => \E c \in Callers : stopper'[c][s] \in {"draining", "done"}
  BY Zenon, ShutByStopper, StopperStays DEF Starting
<1>3. build' = build /\ build.servers \subseteq Servers
  BY ZenonT(30), StepKinds DEF vars, startVars, Build, Call, LockAndSpawn, CallReturn, Stopper, StopSub,
     GracefulStopSub, Drained, DeadlineExceeded
<1>4. ASSUME UNCHANGED <<starter, startRes, multi, ready, runner, runRes>> PROVE Starting'
  BY <1>1, <1>2, <1>3, <1>4 DEF Starting
<1>5. CASE StartCall
  BY <1>1, <1>2, <1>3, <1>5 DEF Starting, StartCall, guardVars, runnerVars
<1>6. CASE newMultiStoppableServer
  BY <1>1, <1>2, <1>3, <1>6 DEF Starting, newMultiStoppableServer, runnerVars
<1>7. CASE SetReady
  BY <1>1, <1>2, <1>3, <1>7 DEF Starting, SetReady, runnerVars
<1>8. CASE SpawnRunners
  BY <1>1, <1>2, <1>3, <1>8 DEF Starting, SpawnRunners, guardVars
<1>9. CASE StartReturn
  <2>1. Head(errChan) \in Servers
    BY <1>9 DEF StartReturn
  <2> QED
    BY <1>1, <1>2, <1>3, <1>9, <2>1 DEF Starting, StartReturn, guardVars
<1>10. ASSUME NEW s \in Servers, Runner(s) \/ ServeFails(s) PROVE Starting'
  <2>1. UNCHANGED <<starter, startRes, multi, ready>> /\ runner[s] # "none"
    BY <1>10 DEF Runner, SubStart, ServeEnds, SendResult, ServeFails, startVars, guardVars
  <2>2. \A t \in Servers : t # s => runner'[t] = runner[t] /\ runRes'[t] = runRes[t]
    BY <1>10 DEF Runner, SubStart, HttpStart, GrpcStart, StartFails, ServeEnds, SendResult,
       ServeFails, Finish
  <2>3. runRes'[s] = "nil" => runRes[s] = "nil" \/ shut[s] # "up"
    BY <1>10 DEF Runner, SubStart, HttpStart, GrpcStart, StartFails, ServeEnds, SendResult,
       ServeFails, Finish
  <2> QED
    BY <1>1, <1>2, <1>3, <2>1, <2>2, <2>3 DEF Starting
<1>11. ASSUME NEW s \in Servers, RequestArrives(s) \/ RequestDone(s) PROVE Starting'
  BY <1>4, <1>11 DEF RequestArrives, RequestDone, startVars, guardVars, runnerVars
<1>12. ASSUME NEW c \in Callers, Call(c) \/ LockAndSpawn(c) \/ CallReturn(c) PROVE Starting'
  BY <1>4, <1>12 DEF Call, LockAndSpawn, CallReturn, startVars, guardVars, runnerVars
<1>13. ASSUME NEW c \in Callers, NEW s \in Servers, Stopper(c, s) PROVE Starting'
  BY <1>4, <1>13 DEF Stopper, StopSub, GracefulStopSub, Drained, DeadlineExceeded, startVars,
     guardVars, runnerVars
<1>14. CASE UNCHANGED vars
  BY <1>4, <1>14 DEF vars, startVars, guardVars, runnerVars
<1> QED
  BY <1>5, <1>6, <1>7, <1>8, <1>9, <1>10, <1>11, <1>12, <1>13, <1>14
     DEF Next, Starter, Environment

\* Every step keeps the reasons for the requests that were cut off: a call keeps what it
\* asked for, and only Stop and an expired deadline cut.
LEMMA NextDrops == StopInv /\ DropsAreJustified /\ [Next]_vars => DropsAreJustified'
<1> SUFFICES ASSUME StopInv, DropsAreJustified, [Next]_vars, NEW s \in Servers, dropped'[s]
             PROVE  \E c \in Callers : late'[c][s] \/ (op'[c] = "Stop" /\ stopper'[c][s] = "done")
  BY DEF DropsAreJustified
<1>1. CASE ~dropped[s]
  <2>1. ASSUME NEW c \in Callers, NEW t \in Servers, Stopper(c, t)
        PROVE  late'[c][s] \/ (op'[c] = "Stop" /\ stopper'[c][s] = "done")
    <3>1. t = s /\ (StopSub(c, t) \/ DeadlineExceeded(c, t))
      BY <1>1, <2>1 DEF Stopper, StopSub, GracefulStopSub, Drained, DeadlineExceeded, HardStop,
         StopInv, TypeOK
    <3>2. CASE StopSub(c, t)
      BY <3>1, <3>2 DEF StopSub, StopperDone, StopInv, TypeOK
    <3>3. CASE DeadlineExceeded(c, t)
      <4>1. late'[c][s] = TRUE
        BY SMTT(30), <3>1, <3>3 DEF DeadlineExceeded, StopInv, TypeOK
      <4> QED
        BY <4>1
    <3> QED
      BY <3>1, <3>2, <3>3
  <2>2. ASSUME NEW c \in Callers, Call(c) \/ LockAndSpawn(c) \/ CallReturn(c) PROVE dropped' = dropped
    BY ZenonT(30), <2>2 DEF Call, LockAndSpawn, CallReturn, serverVars
  <2>3. CASE Starter \/ UNCHANGED vars
    <3>1. dropped' = dropped
      BY ZenonT(30), <2>3 DEF Starter, StartCall, newMultiStoppableServer, SetReady, SpawnRunners,
         StartReturn, serverVars, vars
    <3> QED
      BY <1>1, <3>1
  <2>4. ASSUME NEW t \in Servers,
               Runner(t) \/ RequestArrives(t) \/ RequestDone(t) \/ ServeFails(t)
        PROVE  dropped' = dropped
    BY ZenonT(30), <2>4 DEF Runner, SubStart, ServeEnds, SendResult, RequestArrives, RequestDone,
       ServeFails, serverVars
  <2> QED
    BY <1>1, <2>1, <2>2, <2>3, <2>4 DEF Next, Environment
<1>2. CASE dropped[s]
  <2>1. PICK c \in Callers : late[c][s] \/ (op[c] = "Stop" /\ stopper[c][s] = "done")
    BY <1>2 DEF DropsAreJustified
  <2>2. late[c][s] => late'[c][s]
    <3>1. CASE late' = late
      BY <3>1
    <3>2. ASSUME NEW d \in Callers, NEW t \in Servers, late' = [late EXCEPT ![d][t] = TRUE]
          PROVE  late[c][s] = TRUE => late'[c][s] = TRUE
      BY <3>2 DEF StopInv, TypeOK
    <3>3. late[c][s] \in BOOLEAN
      BY DEF StopInv, TypeOK
    <3>4. late' = late \/ \E d \in Callers, t \in Servers : late' = [late EXCEPT ![d][t] = TRUE]
      BY ZenonT(30), StepKinds DEF vars, callerVars, Call, LockAndSpawn, CallReturn, Stopper, StopSub,
         GracefulStopSub, Drained, DeadlineExceeded
    <3> QED
      BY Zenon, <3>1, <3>2, <3>3, <3>4
  <2>3. ASSUME op[c] = "Stop", stopper[c][s] = "done"
        PROVE  op'[c] = "Stop" /\ stopper'[c][s] = "done"
    <3>1. caller[c] \in {"stopping", "returned"}
      BY <2>3 DEF StopInv, Locking
    <3>2. ASSUME NEW d \in Callers, Call(d) \/ LockAndSpawn(d) \/ CallReturn(d)
          PROVE  op'[c] = op[c] /\ stopper'[c] = stopper[c]
      <4>1. CASE d = c
        BY SMTT(30), <3>1, <3>2, <4>1 DEF Call, LockAndSpawn, CallReturn
      <4>2. CASE d # c
        BY <3>2, <4>2 DEF Call, LockAndSpawn, CallReturn, StopInv, TypeOK
      <4> QED
        BY <4>1, <4>2
    <3>3. ASSUME NEW d \in Callers, NEW t \in Servers, Stopper(d, t)
          PROVE  op' = op /\ stopper'[c][s] = "done"
      <4>1. op' = op /\ stopper[d][t] # "done"
        BY <3>3 DEF Stopper, StopSub, GracefulStopSub, Drained, DeadlineExceeded
      <4>2. \E at \in {"draining", "done"} : stopper' = [stopper EXCEPT ![d][t] = at]
        BY <3>3 DEF Stopper, StopSub, GracefulStopSub, Drained, DeadlineExceeded, StopperDone
      <4> QED
        BY <2>3, <4>1, <4>2 DEF StopInv, TypeOK
    <3> QED
      BY <2>3, <3>2, <3>3, StepKinds DEF vars, callerVars
  <2> QED
    BY ZenonT(30), <2>1, <2>2, <2>3
<1> QED
  BY <1>1, <1>2

\* The invariant of Start and of what was cut off holds throughout.
LEMMA LifeInvariance == Spec => [](StopInv /\ Starting /\ DropsAreJustified)
<1>1. Init => Starting /\ DropsAreJustified
  <2> SUFFICES ASSUME Init PROVE Starting /\ DropsAreJustified
    OBVIOUS
  <2>1. Starting
    BY DEF Init, Starting, Nothing
  <2>2. DropsAreJustified
    BY DEF Init, DropsAreJustified
  <2> QED
    BY <2>1, <2>2
<1>2. StopInv /\ Starting /\ DropsAreJustified /\ [Next]_vars => (Starting /\ DropsAreJustified)'
  BY NextStarting, NextDrops
<1> QED
  BY StopInvariance, <1>1, <1>2, PTL DEF Spec

\* Start returns nil only when a stop call has shut down one of its sub-servers, for any
\* number of them: a listener that fails on its own is never reported as a clean stop.
THEOREM NilMeansStop == Spec => []StartNilMeansStop
<1>1. StopInv /\ Starting => StartNilMeansStop
  BY DEF StopInv, TypeOK, Build, Starting, StartNilMeansStop
<1> QED
  BY LifeInvariance, <1>1, PTL

\* No request is cut off by a graceful stop before the deadline of its sub-server.
THEOREM JustifiedDrops == Spec => []DropsAreJustified
  BY LifeInvariance, PTL

\* A stop call that comes after SetReady finds the multiServer.
THEOREM ReadyStops == Spec => ReadyIsStoppable
<1>1. StopInv /\ Starting /\ [Next]_vars =>
        [\A c \in Callers : (ready /\ caller[c] = "lock" /\ caller'[c] # "lock") => caller'[c] = "stopping"]_vars
  <2> SUFFICES ASSUME StopInv, Starting, Next, NEW c \in Callers, ready, caller[c] = "lock",
                      caller'[c] # "lock"
               PROVE  caller'[c] = "stopping"
    OBVIOUS
  <2>1. multi
    BY SMTT(30) DEF Starting
  <2> USE DEF StopInv, TypeOK
  <2>2. ASSUME NEW d \in Callers, Call(d) \/ LockAndSpawn(d) \/ CallReturn(d)
        PROVE  caller'[c] = "stopping"
    BY Zenon, <2>1, <2>2 DEF Call, LockAndSpawn, CallReturn
  <2>3. ASSUME NEW d \in Callers, NEW s \in Servers, Stopper(d, s) PROVE caller' = caller
    BY <2>3 DEF Stopper, StopSub, GracefulStopSub, Drained, DeadlineExceeded
  <2> QED
    BY <2>2, <2>3, StepKinds DEF callerVars
<1> QED
  BY LifeInvariance, <1>1, PTL DEF Spec, ReadyIsStoppable
==============================================================================
