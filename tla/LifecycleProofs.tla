-------------------------- MODULE LifecycleProofs --------------------------
(***************************************************************************)
(* Theorems about Lifecycle: the pool outlives the RPCs, no way out of the *)
(* process but the panic of a handler cuts them off, and the exit code     *)
(* tells the supervisor why the process ended.                             *)
(***************************************************************************)
EXTENDS Lifecycle, TLAPS

Before  == {"config", "log", "tracer", "new"}
Setup   == Before \cup {"notify"}
Unserved == Setup \cup {"listen booking", "listen public", "failed listen"}

Busy == {"serving", "goaway", "draining"}

\* How far main() is says what there is already.
ByMain ==
    /\ main \in Before <=> repo = "none"
    /\ main \in Setup => sig = "none"
    /\ main \in Unserved => \A s \in Servers : serve[s] = "none"
    /\ main \notin Unserved => \A s \in Servers : serve[s] # "none"
    /\ main = "return" => \A s \in Servers : serve[s] = "nil"

\* What the goroutines of the servers know of the servers.
ByServer ==
    \A s \in Servers :
       /\ flying[s] # {} => server[s] \in Busy
       /\ serve[s] \in {"none", "started"} => server[s] \in {"new", "stopped"}
       /\ serve[s] = "nil" => server[s] = "stopped"
       /\ serve[s] = "err" => AllStopped

\* What has been stopped stays so, and somebody had a reason to stop it.
ByStop ==
    /\ sig # "none" => (sig = "wait" <=> ~signalled)
    /\ sig = "none" => ~signalled
    /\ sig \in {"close", "metrics", "stopped"} => AllStopped
    /\ repo = "closed" => sig \in {"metrics", "stopped"}
    /\ \A s \in Servers : server[s] \notin {"new", "serving"} =>
          \/ signalled \/ main = "failed listen"
          \/ \E t \in Servers : serve[t] \in {"failed", "err"}
    /\ main \in Setup => \A s \in Servers : server[s] = "new"

\* Where main() was when the process ended.
ByExit ==
    /\ panic # "none" => exit = "2"
    /\ exit = "0" => main = "return"
    /\ exit = "1" => \/ main = "new"
                     \/ main = "failed listen" /\ AllStopped
                     \/ \E s \in Servers : serve[s] = "err"
    /\ exit = "2" => \/ panic = "setup" /\ main \in Setup
                     \/ panic = "handler"
                     \/ panic = "tracer" /\ main = "return" /\ tracer = "nil"
    /\ exit = "signal" => main \in Setup \cup {"return"}

IInv == TypeOK /\ ByMain /\ ByServer /\ ByStop /\ ByExit

-----------------------------------------------------------------------------
(* The invariant holds at the start, and every step keeps it.              *)

\* The process starts with nothing built and nobody at work.
LEMMA InitInv == Init => IInv
BY DEF Init, IInv, TypeOK, ByMain, ByServer, ByStop, ByExit, Before, Setup, Unserved,
       Servers, AllStopped

\* A step that changes nothing.
LEMMA StutterInv == ASSUME IInv, UNCHANGED vars PROVE IInv'
<1> USE DEF vars, goroutines, resources, ending
<1>1. TypeOK'
  <2>1. TypeOK
    BY DEF IInv
  <2>2. serve' = serve /\ server' = server /\ flying' = flying
    OBVIOUS
  <2>3. main' = main /\ sig' = sig /\ repo' = repo /\ metrics' = metrics /\ tracer' = tracer
    OBVIOUS
  <2>4. signalled' = signalled
    OBVIOUS
  <2>5. panic' = panic /\ exit' = exit
    OBVIOUS
  <2>6. QED BY <2>1, <2>2, <2>3, <2>4, <2>5 DEF TypeOK
<1>2. ByMain' /\ ByServer' /\ ByStop' /\ ByExit'
  BY DEF IInv, ByMain, ByServer, ByStop, ByExit, AllStopped
<1>3. QED BY <1>1, <1>2 DEF IInv

\* The end of the process, for a reason that ByExit knows, undoes nothing.
LEMMA EndInv ==
  ASSUME IInv, Alive, panic' \in {"none", "setup", "tracer", "handler"},
         exit' \in {"0", "1", "2", "signal"}, ByExit',
         UNCHANGED <<goroutines, server, flying, resources, signalled>>
  PROVE  IInv'
<1> USE DEF goroutines, resources
<1>1. TypeOK'
  <2>1. TypeOK
    BY DEF IInv
  <2>2. serve' = serve /\ server' = server /\ flying' = flying
    OBVIOUS
  <2>3. main' = main /\ sig' = sig /\ repo' = repo /\ metrics' = metrics /\ tracer' = tracer
    OBVIOUS
  <2>4. signalled' = signalled
    OBVIOUS
  <2>5. QED BY <2>1, <2>2, <2>3, <2>4 DEF TypeOK
<1>2. ByMain' /\ ByServer' /\ ByStop'
  BY DEF IInv, ByMain, ByServer, ByStop, AllStopped
<1>3. QED BY <1>1, <1>2 DEF IInv

\* Every way for main() to go on, before and after the servers run.
LEMMA MainInv == ASSUME IInv, Main PROVE IInv'
<1> USE DEF Before, Setup, Unserved, Servers, AllStopped, goroutines, resources, ending
<1>1. ASSUME Alive, main \in Setup, Panic("setup") PROVE IInv'
  BY <1>1, EndInv DEF Alive, Panic, IInv, ByExit
<1>2. ASSUME Alive, panic = "none", Exit("1"),
             \/ main = "new"
             \/ main = "failed listen" /\ AllStopped
             \/ \E s \in Servers : serve[s] = "err"
      PROVE  IInv'
  BY <1>2, EndInv DEF Alive, Exit, ByExit
<1>3. Alive => panic = "none"
  BY DEF IInv, ByExit, Alive
<1> USE DEF IInv, TypeOK, ByMain, ByServer, ByStop, ByExit, Busy, Alive
<1>4. ASSUME MustLoad PROVE IInv'
  <2>1. CASE MainStep("log") /\ UNCHANGED <<sig, resources>>
    BY <1>4, <2>1 DEF MustLoad, MainStep
  <2>2. CASE Panic("setup")
    BY <1>1, <1>4, <2>2 DEF MustLoad
  <2>3. QED BY <1>4, <2>1, <2>2 DEF MustLoad
<1>5. ASSUME OpenLog PROVE IInv'
  <2>1. CASE MainStep("tracer") /\ UNCHANGED <<sig, resources>>
    BY <1>5, <2>1 DEF OpenLog, MainStep
  <2>2. CASE Panic("setup")
    BY <1>1, <1>5, <2>2 DEF OpenLog
  <2>3. QED BY <1>5, <2>1, <2>2 DEF OpenLog
<1>6. ASSUME NewTracer PROVE IInv'
  <2>1. TypeOK'
    BY <1>6 DEF NewTracer, MainStep
  <2>2. ByMain' /\ ByServer'
    BY <1>6 DEF NewTracer, MainStep
  <2>3. ByStop' /\ ByExit'
    BY <1>6 DEF NewTracer, MainStep
  <2>4. QED BY <2>1, <2>2, <2>3
<1>7. ASSUME NewApp PROVE IInv'
  <2>1. CASE MainStep("notify") /\ repo' = "open" /\ UNCHANGED <<sig, metrics, tracer>>
    BY <1>7, <2>1 DEF NewApp, MainStep
  <2>2. CASE Exit("1")
    BY <1>2, <1>3, <1>7, <2>2 DEF NewApp
  <2>3. QED BY <1>7, <2>1, <2>2 DEF NewApp
<1>8. ASSUME Start PROVE IInv'
  <2>1. TypeOK'
    BY <1>8 DEF Start, MainStep
  <2>2. ByMain' /\ ByServer'
    BY <1>8 DEF Start, MainStep
  <2>3. ByStop' /\ ByExit'
    BY <1>8 DEF Start, MainStep
  <2>4. QED BY <2>1, <2>2, <2>3
<1>9. ASSUME Listen PROVE IInv'
  <2>1. TypeOK'
    BY <1>9 DEF Listen
  <2>2. ByMain' /\ ByServer'
    BY <1>9 DEF Listen
  <2>3. ByStop' /\ ByExit'
    BY <1>9 DEF Listen
  <2>4. QED BY <2>1, <2>2, <2>3
<1>10. ASSUME ListenFailed PROVE IInv'
  BY <1>2, <1>3, <1>10 DEF ListenFailed
<1>11. ASSUME RunReturns PROVE IInv'
  <2>1. CASE RunReturnsNil
    BY <1>11, <2>1 DEF RunReturns, RunReturnsNil, MainStep
  <2>2. CASE \E s \in Servers : serve[s] = "err" /\ Exit("1")
    BY <1>2, <1>3, <1>11, <2>2 DEF RunReturns
  <2>3. QED BY <1>11, <2>1, <2>2 DEF RunReturns
<1>12. ASSUME MainReturns PROVE IInv'
  BY <1>12 DEF MainReturns, Exit, Panic
<1>13. QED
  BY <1>4, <1>5, <1>6, <1>7, <1>8, <1>9, <1>10, <1>11, <1>12 DEF Main

\* The goroutine that serves s.
LEMMA ServeInv ==
  ASSUME IInv, NEW s \in Servers,
         Serve(s) \/ ServeFails(s) \/ ServeReturns(s) \/ FailedServeReturns(s)
  PROVE  IInv'
<1> USE DEF Before, Setup, Unserved, Busy, Servers, AllStopped, Alive, goroutines, resources,
            ending, IInv, TypeOK, ByMain, ByServer, ByStop, ByExit, ServeStep
<1>1. ASSUME Serve(s) PROVE IInv'
  <2>1. CASE server[s] = "new" /\ server' = [server EXCEPT ![s] = "serving"]
                               /\ ServeStep(s, "serving")
    <3>1. TypeOK' /\ ByMain' /\ ByServer'
      BY <1>1, <2>1 DEF Serve
    <3>2. ByStop' /\ ByExit'
      BY <1>1, <2>1 DEF Serve
    <3>3. QED BY <3>1, <3>2
  <2>2. CASE server[s] = "stopped" /\ ServeStep(s, "nil") /\ UNCHANGED server
    <3>1. TypeOK'
      BY <1>1, <2>2 DEF Serve
    <3>2. ByMain' /\ ByServer'
      BY <1>1, <2>2 DEF Serve
    <3>3. ByStop' /\ ByExit'
      BY <1>1, <2>2 DEF Serve
    <3>4. QED BY <3>1, <3>2, <3>3
  <2>3. QED BY <1>1, <2>1, <2>2 DEF Serve
<1>2. ASSUME ServeFails(s) PROVE IInv'
  <2>1. TypeOK'
    BY <1>2 DEF ServeFails
  <2>2. ByMain' /\ ByServer'
    BY <1>2 DEF ServeFails
  <2>3. ByStop' /\ ByExit'
    BY <1>2 DEF ServeFails
  <2>4. QED BY <2>1, <2>2, <2>3
<1>3. ASSUME ServeReturns(s) PROVE IInv'
  <2>1. TypeOK'
    BY <1>3 DEF ServeReturns
  <2>2. ByMain' /\ ByServer'
    BY <1>3 DEF ServeReturns
  <2>3. ByStop' /\ ByExit'
    BY <1>3 DEF ServeReturns
  <2>4. QED BY <2>1, <2>2, <2>3
<1>4. ASSUME FailedServeReturns(s) PROVE IInv'
  <2>1. TypeOK'
    BY <1>4 DEF FailedServeReturns
  <2>2. ByMain' /\ ByServer'
    BY <1>4 DEF FailedServeReturns
  <2>3. ByStop' /\ ByExit'
    BY <1>4 DEF FailedServeReturns
  <2>4. QED BY <2>1, <2>2, <2>3
<1>5. QED
  BY <1>1, <1>2, <1>3, <1>4

\* A server is stopped a step further, and all else stays.
LEMMA ServerStepType ==
  ASSUME TypeOK, NEW s \in Servers,
         NEW state \in {"new", "serving", "goaway", "draining", "stopped"},
         ServerStep(s, state)
  PROVE  /\ TypeOK'
         /\ \A t \in Servers : server'[t] = IF t = s THEN state ELSE server[t]
<1>1. server \in [Servers -> {"new", "serving", "goaway", "draining", "stopped"}]
  BY DEF TypeOK
<1>2. server' = [server EXCEPT ![s] = state]
  BY DEF ServerStep
<1>3. server' \in [Servers -> {"new", "serving", "goaway", "draining", "stopped"}]
  BY <1>1, <1>2
<1>4. \A t \in Servers : server'[t] = IF t = s THEN state ELSE server[t]
  BY <1>1, <1>2
<1>5. serve' = serve /\ flying' = flying
  BY DEF ServerStep, goroutines
<1>6. main' = main /\ sig' = sig /\ repo' = repo /\ metrics' = metrics /\ tracer' = tracer
  BY DEF ServerStep, goroutines, resources
<1>7. panic' = panic /\ exit' = exit
  BY DEF ServerStep, ending
<1>8. signalled' = signalled
  BY DEF ServerStep, ending
<1>9. TypeOK'
  <2>1. TypeOK
    OBVIOUS
  <2>2. /\ serve' \in [Servers -> {"none", "started", "serving", "failed", "nil", "err"}]
        /\ flying' \in [Servers -> SUBSET Calls]
    BY <2>1, <1>5 DEF TypeOK
  <2>3. /\ main' \in {"config", "log", "tracer", "new", "notify", "listen booking",
                      "listen public", "failed listen", "wait", "return"}
        /\ sig' \in {"none", "wait", "stop", "close", "metrics", "stopped"}
        /\ repo' \in {"none", "open", "closed"}
        /\ metrics' \in {"off", "starting", "serving", "failed", "closed"}
        /\ tracer' \in {"none", "built", "nil"}
    BY <2>1, <1>6 DEF TypeOK
  <2>4. signalled' \in BOOLEAN
    BY <2>1, <1>8 DEF TypeOK
  <2>5. /\ panic' \in {"none", "setup", "tracer", "handler"}
        /\ exit' \in {"no", "0", "1", "2", "signal"}
    BY <2>1, <1>7 DEF TypeOK
  <2>6. QED BY <1>3, <2>2, <2>3, <2>4, <2>5 DEF TypeOK
<1>10. QED
  BY <1>4, <1>9

\* Whoever stops server s, and gRPC meanwhile.
LEMMA GracefulStopInv ==
  ASSUME IInv, NEW s \in Servers, GracefulStop(s) \/ GoAwaySeen(s) \/ Drained(s)
  PROVE  IInv'
<1> USE DEF Before, Setup, Unserved, Busy, Servers, AllStopped, Alive, goroutines, resources,
            ending, IInv, ByMain, ByServer, ByStop, ByExit
<1>a. TypeOK
  OBVIOUS
<1>b. ServerStep(s, "stopped") =>
        TypeOK' /\ \A t \in Servers : server'[t] = IF t = s THEN "stopped" ELSE server[t]
  BY <1>a, ServerStepType
<1>c. ServerStep(s, "goaway") =>
        TypeOK' /\ \A t \in Servers : server'[t] = IF t = s THEN "goaway" ELSE server[t]
  BY <1>a, ServerStepType
<1> USE DEF ServerStep
<1>1. ASSUME GracefulStop(s) PROVE IInv'
  <2>1. signalled \/ main = "failed listen" \/ \E t \in Servers : serve[t] \in {"failed", "err"}
    BY <1>1 DEF GracefulStop, Stopping
  <2>2. main \notin Setup
    BY <1>1 DEF GracefulStop, Stopping
  <2>3. CASE server[s] = "new" /\ ServerStep(s, "stopped")
    <3>1. \A t \in Servers : server'[t] = IF t = s THEN "stopped" ELSE server[t]
      BY <1>b, <2>3
    <3>2. TypeOK'
      BY <1>b, <2>3
    <3>3. ByMain' /\ ByServer'
      BY <2>3, <3>1
    <3>4. ByStop'
      BY <2>1, <2>2, <2>3, <3>1
    <3>5. ByExit'
      BY <1>1, <2>3 DEF GracefulStop
    <3>6. QED BY <3>2, <3>3, <3>4, <3>5
  <2>4. CASE server[s] = "serving" /\ ServerStep(s, "goaway")
    <3>1. \A t \in Servers : server'[t] = IF t = s THEN "goaway" ELSE server[t]
      BY <1>c, <2>4
    <3>2. TypeOK'
      BY <1>c, <2>4
    <3>3. ByMain' /\ ByServer'
      BY <2>4, <3>1
    <3>4. ByStop'
      BY <2>1, <2>2, <2>4, <3>1
    <3>5. ByExit'
      BY <1>1, <2>4 DEF GracefulStop
    <3>6. QED BY <3>2, <3>3, <3>4, <3>5
  <2>5. QED BY <1>1, <2>3, <2>4 DEF GracefulStop
<1> USE DEF TypeOK
<1>2. ASSUME GoAwaySeen(s) PROVE IInv'
  <2>1. TypeOK'
    BY <1>2 DEF GoAwaySeen
  <2>2. ByMain' /\ ByServer'
    BY <1>2 DEF GoAwaySeen
  <2>3. ByStop' /\ ByExit'
    BY <1>2 DEF GoAwaySeen
  <2>4. QED BY <2>1, <2>2, <2>3
<1>3. ASSUME Drained(s) PROVE IInv'
  <2>1. TypeOK'
    BY <1>3 DEF Drained
  <2>2. ByMain' /\ ByServer'
    BY <1>3 DEF Drained
  <2>3. ByStop' /\ ByExit'
    BY <1>3 DEF Drained
  <2>4. QED BY <2>1, <2>2, <2>3
<1>4. QED
  BY <1>1, <1>2, <1>3

\* Signals, the goroutine that waits for one, ports that are taken, metrics.
LEMMA StopperInv ==
  ASSUME IInv, Stopper \/ ListenFails \/ RunMetrics \/ Signal \/ SignalKills
  PROVE  IInv'
<1> USE DEF Before, Setup, Unserved, Busy, Servers, AllStopped, Alive, goroutines, resources,
            ending, IInv, TypeOK, ByMain, ByServer, ByStop, ByExit
<1>1. ASSUME ListenFails PROVE IInv'
  <2>1. TypeOK'
    BY <1>1 DEF ListenFails, MainStep
  <2>2. ByMain' /\ ByServer'
    BY <1>1 DEF ListenFails, MainStep
  <2>3. ByStop' /\ ByExit'
    BY <1>1 DEF ListenFails, MainStep
  <2>4. QED BY <2>1, <2>2, <2>3
<1>2. ASSUME GrpcStopped PROVE IInv'
  <2>1. TypeOK'
    BY <1>2 DEF GrpcStopped, SigStep
  <2>2. ByMain' /\ ByServer'
    BY <1>2 DEF GrpcStopped, SigStep
  <2>3. ByStop' /\ ByExit'
    BY <1>2 DEF GrpcStopped, SigStep
  <2>4. QED BY <2>1, <2>2, <2>3
<1>3. ASSUME CloseRepository PROVE IInv'
  <2>1. TypeOK'
    BY <1>3 DEF CloseRepository, SigStep
  <2>2. ByMain' /\ ByServer'
    BY <1>3 DEF CloseRepository, SigStep
  <2>3. ByStop' /\ ByExit'
    BY <1>3 DEF CloseRepository, SigStep
  <2>4. QED BY <2>1, <2>2, <2>3
<1>4. ASSUME StopMetrics PROVE IInv'
  <2>1. TypeOK'
    BY <1>4 DEF StopMetrics, SigStep
  <2>2. ByMain' /\ ByServer'
    BY <1>4 DEF StopMetrics, SigStep
  <2>3. ByStop' /\ ByExit'
    BY <1>4 DEF StopMetrics, SigStep
  <2>4. QED BY <2>1, <2>2, <2>3
<1>5. ASSUME RunMetrics PROVE IInv'
  <2>1. TypeOK'
    BY <1>5 DEF RunMetrics
  <2>2. ByMain' /\ ByServer'
    BY <1>5 DEF RunMetrics
  <2>3. ByStop' /\ ByExit'
    BY <1>5 DEF RunMetrics
  <2>4. QED BY <2>1, <2>2, <2>3
<1>6. ASSUME Signal PROVE IInv'
  <2>1. TypeOK'
    BY <1>6 DEF Signal
  <2>2. ByMain' /\ ByServer'
    BY <1>6 DEF Signal
  <2>3. ByStop' /\ ByExit'
    BY <1>6 DEF Signal
  <2>4. QED BY <2>1, <2>2, <2>3
<1>7. ASSUME SignalKills PROVE IInv'
  BY <1>7 DEF SignalKills, Exit
<1>8. QED
  BY <1>1, <1>2, <1>3, <1>4, <1>5, <1>6, <1>7 DEF Stopper

\* RPCs come to servers that serve, and end.
LEMMA RpcInv ==
  ASSUME IInv, NEW s \in Servers, NEW c \in Calls,
         Arrives(s, c) \/ Ends(s, c) \/ HandlerPanics(s, c)
  PROVE  IInv'
<1> USE DEF Before, Setup, Unserved, Busy, Servers, AllStopped, Alive, goroutines, resources,
            ending, IInv, TypeOK, ByMain, ByServer, ByStop, ByExit
<1>1. ASSUME Arrives(s, c) PROVE IInv'
  BY <1>1 DEF Arrives
<1>2. ASSUME Ends(s, c) PROVE IInv'
  BY <1>2 DEF Ends
<1>3. ASSUME HandlerPanics(s, c) PROVE IInv'
  BY <1>3 DEF HandlerPanics, Panic
<1>4. QED
  BY <1>1, <1>2, <1>3

\* The invariant is inductive.
LEMMA StepInv == IInv /\ [Next]_vars => IInv'
<1> SUFFICES ASSUME IInv, [Next]_vars PROVE IInv'
  OBVIOUS
<1>1. ASSUME Background PROVE IInv'
  BY <1>1, MainInv, ServeInv, GracefulStopInv, StopperInv DEF Background, Goroutine
<1>2. ASSUME NEW s \in Servers, NEW c \in Calls,
             Arrives(s, c) \/ Ends(s, c) \/ HandlerPanics(s, c)
      PROVE  IInv'
  BY <1>2, RpcInv
<1>3. ASSUME UNCHANGED vars PROVE IInv'
  BY <1>3, StutterInv
<1>4. QED
  BY <1>1, <1>2, <1>3 DEF Next, Ended

-----------------------------------------------------------------------------
(* The theorems, for any number of RPCs in flight.                         *)

\* Where the goroutines are, what is stopped, and how the process can have
\* ended, determine each other as IInv says.
THEOREM InductiveInvariant == Spec => []IInv
BY InitInv, StepInv, PTL DEF Spec

\* Every goroutine of main.go and app.go is where its code can be, and Run
\* hands no error to main() that is not an exit code.
THEOREM TypeCorrect == Spec => []TypeOK
<1>1. IInv => TypeOK
  BY DEF IInv
<1>2. QED
  BY <1>1, InductiveInvariant, PTL

\* No handler finds the pool closed: with an RPC in flight its server is not
\* stopped, and the pool is closed after both servers are.
THEOREM PoolOutlivesCalls == Spec => []RepositoryOpenWhileServing
<1>1. IInv => RepositoryOpenWhileServing
  <2> SUFFICES ASSUME IInv, NEW s \in Servers, flying[s] # {} PROVE repo = "open"
    BY DEF RepositoryOpenWhileServing
  <2> USE DEF IInv
  <2>1. server[s] \in {"serving", "goaway", "draining"}
    BY DEF ByServer, Busy
  <2>2. repo # "closed"
    BY <2>1 DEF ByStop, AllStopped
  <2>3. repo # "none"
    BY <2>1 DEF ByMain, ByServer, Before, Setup, Unserved
  <2>4. QED
    BY <2>2, <2>3 DEF TypeOK
<1>2. QED
  BY <1>1, InductiveInvariant, PTL

\* Wherever main() and the servers end the process, they have waited for the
\* RPCs.
LEMMA FinishedCalls == IInv => NoCallCutShort
BY DEF NoCallCutShort, Alive, IInv, TypeOK, ByMain, ByServer, ByExit, AllStopped, Busy,
       Setup, Before, Unserved

\* Every way out of main(), but the panic of a handler, is taken while no RPC
\* is in flight.
THEOREM CallsAreFinished == Spec => []NoCallCutShort
BY FinishedCalls, InductiveInvariant, PTL

\* What the supervisor may conclude from the exit code.
THEOREM ExitCodeIsTrue == Spec => []ExitCodeTellsWhy
<1>1. IInv => ExitCodeTellsWhy
  BY DEF ExitCodeTellsWhy, IInv, TypeOK, ByMain, ByServer, ByStop, ByExit, Setup, Before,
         Unserved, Servers
<1>2. QED
  BY <1>1, InductiveInvariant, PTL
=============================================================================
