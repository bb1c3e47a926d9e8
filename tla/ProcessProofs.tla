--------------------------- MODULE ProcessProofs ---------------------------
(***************************************************************************)
(* Process, in which RPCs pass through the interceptors, is a Lifecycle:   *)
(* what holds of the life of every process holds of one with its RPCs. And *)
(* what Lifecycle calls in flight is what is on its way through the chain. *)
(***************************************************************************)
EXTENDS Process, LifecycleProofs

IP == INSTANCE InterceptorsProofs WITH alive <- Alive

\* Every step of a process with its RPCs is one of Lifecycle, or nothing that
\* Lifecycle sees.
LEMMA StepIsLife == [PNext]_allvars => [Next]_vars
<1> SUFFICES ASSUME [PNext]_allvars PROVE [Next]_vars
  OBVIOUS
<1>1. ASSUME NEW c \in Calls, Rpc(c) PROVE UNCHANGED vars
  BY <1>1 DEF Rpc
<1>2. ASSUME NEW s \in Servers, NEW c \in Calls,
             Accepted(s, c) \/ Answered(s, c) \/ ProcessPanics(s, c)
      PROVE  Next
  BY <1>2 DEF Accepted, Answered, ProcessPanics, Next
<1>3. ASSUME UNCHANGED allvars PROVE UNCHANGED vars
  BY <1>3 DEF allvars
<1>4. QED
  BY <1>1, <1>2, <1>3 DEF PNext, Next

\* A process with its RPCs implements Lifecycle: an RPC that is accepted,
\* answered or ends the process in a panic out of the chain is one that
\* arrives, ends or panics there.
THEOREM ProcessIsALife == PSpec => Spec
<1>1. PInit => Init
  BY DEF PInit
<1>2. QED
  BY <1>1, StepIsLife, PTL DEF PSpec, Spec

\* So the pool outlives the RPCs of app.go, only a panic out of the chain cuts
\* them off, and the exit code is true, for any number of RPCs and methods.
THEOREM ProcessIsSafe ==
  PSpec => [](RepositoryOpenWhileServing /\ NoCallCutShort /\ ExitCodeTellsWhy)
BY ProcessIsALife, PoolOutlivesCalls, CallsAreFinished, ExitCodeIsTrue, PTL

-----------------------------------------------------------------------------
(* The RPCs of the servers and those in the chains.                        *)

\* An RPC is in flight on one server, and has a method as long as it is.
Linked ==
    \A c \in Calls :
       /\ method[c] # NoMethod <=> \E s \in Servers : c \in flying[s]
       /\ \A s, t \in Servers : c \in flying[s] /\ c \in flying[t] => s = t

\* A panic of a handler that ended the process is still that of a stream.
StreamPanicked ==
    panic = "handler" => \E c \in Calls : method[c] \in Streams /\ outcome[c] = "panic"

PInv == IInv /\ IP!Counted /\ Linked /\ StreamPanicked

\* What happens outside of the RPCs happens while the process runs, moves no
\* RPC, and is no panic of a handler.
LEMMA BackgroundApart ==
  ASSUME Background
  PROVE  Alive /\ flying' = flying /\ (panic' = panic \/ panic' \in {"setup", "tracer"})
<1> USE DEF goroutines, resources, ending
<1>1. ASSUME Main
      PROVE  Alive /\ flying' = flying /\ (panic' = panic \/ panic' \in {"setup", "tracer"})
  <2>1. CASE MustLoad \/ OpenLog \/ NewTracer \/ NewApp \/ Start
    BY <2>1 DEF MustLoad, OpenLog, NewTracer, NewApp, Start, MainStep, Panic, Exit
  <2>2. CASE Listen \/ ListenFailed \/ RunReturns \/ MainReturns
    BY <2>2 DEF Listen, ListenFailed, RunReturns, RunReturnsNil, MainReturns, MainStep, Panic, Exit
  <2>3. QED BY <1>1, <2>1, <2>2 DEF Main
<1>2. ASSUME Stopper \/ ListenFails \/ RunMetrics \/ Signal \/ SignalKills
      PROVE  Alive /\ flying' = flying /\ panic' = panic
  BY <1>2 DEF Stopper, GrpcStopped, CloseRepository, StopMetrics, ListenFails, RunMetrics, Signal,
              SignalKills, SigStep, MainStep, Exit
<1>3. ASSUME NEW s \in Servers, Goroutine(s) \/ ServeFails(s)
      PROVE  Alive /\ flying' = flying /\ panic' = panic
  BY <1>3 DEF Goroutine, Serve, ServeReturns, FailedServeReturns, GracefulStop, GoAwaySeen, Drained,
              ServeFails, ServeStep, ServerStep
<1>4. QED
  BY <1>1, <1>2, <1>3 DEF Background

\* A step that moves no RPC keeps what is known of them.
LEMMA RestInv ==
  ASSUME PInv, UNCHANGED rpcs, flying' = flying,
         panic' = panic \/ panic' \in {"setup", "tracer"}
  PROVE  IP!Counted' /\ Linked' /\ StreamPanicked'
<1>1. IP!Counted'
  <2>1. IP!Counted /\ UNCHANGED <<method, at, outcome, gauge, open, logged>> /\ Alive' \in BOOLEAN
    BY DEF PInv, rpcs, Alive
  <2>2. QED BY <2>1, UnaryOrStreams, IP!RestCounted
<1>2. Linked' /\ StreamPanicked'
  BY DEF PInv, Linked, StreamPanicked, rpcs
<1>3. QED
  BY <1>1, <1>2

\* The steps of an RPC in Process are those that InterceptorsProofs is about.
LEMMA SameSteps ==
  ASSUME NEW c \in Calls
  PROVE  /\ I!Arrive(c) => IP!Arrive(c)
         /\ I!Pass(c) => IP!Pass(c)
         /\ I!Handle(c) => IP!Handle(c)
         /\ I!Answer(c) => IP!Answer(c)
<1>1. I!Layer(c) = IP!Layer(c)
  BY DEF I!Layer, IP!Layer, I!Chain, IP!Chain
<1>2. /\ I!Arrive(c) => IP!Arrive(c)
      /\ I!Answer(c) => IP!Answer(c)
  BY DEF I!Arrive, IP!Arrive, I!Answer, IP!Answer, I!Methods, IP!Methods
<1>3. I!Handle(c) => IP!Handle(c)
  BY <1>1 DEF I!Handle, IP!Handle
<1>4. ASSUME NEW layer, I!Inward(c, layer) PROVE IP!Inward(c, layer)
  BY <1>1, <1>4 DEF I!Inward, IP!Inward
<1>5. ASSUME NEW layer, I!Outward(c, layer) PROVE IP!Outward(c, layer)
  BY <1>1, <1>5 DEF I!Outward, IP!Outward
<1>6. I!EnterPrometheus(c) => IP!EnterPrometheus(c)
  BY <1>4 DEF I!EnterPrometheus, IP!EnterPrometheus, I!Count, IP!Count
<1>7. I!EnterInFlight(c) => IP!EnterInFlight(c)
  BY <1>4 DEF I!EnterInFlight, IP!EnterInFlight, I!Count, IP!Count
<1>8. I!EnterOthers(c) => IP!EnterOthers(c)
  BY <1>4 DEF I!EnterOthers, IP!EnterOthers
<1>9. I!LeaveRecovery(c) => IP!LeaveRecovery(c)
  BY <1>5 DEF I!LeaveRecovery, IP!LeaveRecovery
<1>10. I!LeaveLogging(c) => IP!LeaveLogging(c)
  BY <1>5 DEF I!LeaveLogging, IP!LeaveLogging
<1>11. I!LeaveInFlight(c) => IP!LeaveInFlight(c)
  BY <1>5 DEF I!LeaveInFlight, IP!LeaveInFlight, I!Count, IP!Count
<1>12. I!LeavePrometheus(c) => IP!LeavePrometheus(c)
  BY <1>5 DEF I!LeavePrometheus, IP!LeavePrometheus, I!Count, IP!Count
<1>13. I!Pass(c) => IP!Pass(c)
  BY <1>6, <1>7, <1>8, <1>9, <1>10, <1>11, <1>12 DEF I!Pass, IP!Pass
<1>14. QED
  BY <1>2, <1>3, <1>13

\* An RPC goes through its chain: it stays in flight, and if the process was
\* over before, it would not move.
LEMMA RpcGoesOn ==
  ASSUME PInv, NEW c \in Calls, Rpc(c)
  PROVE  IP!Counted' /\ Linked' /\ StreamPanicked'
<1>1. IP!Pass(c) \/ IP!Handle(c)
  BY SameSteps DEF Rpc
<1>2. IP!Counted'
  BY <1>1, UnaryOrStreams, IP!GoesOnCounted DEF PInv
<1>3. Alive /\ flying' = flying /\ panic' = panic /\ method' = method
  <2>1. Alive /\ method' = method
    BY <1>1 DEF IP!Handle, IP!Pass, IP!EnterPrometheus, IP!EnterInFlight, IP!EnterOthers, IP!LeaveRecovery,
                IP!LeaveLogging, IP!LeaveInFlight, IP!LeavePrometheus, IP!Inward, IP!Outward
  <2>2. UNCHANGED vars
    BY DEF Rpc
  <2>3. QED BY <2>1, <2>2 DEF vars, ending
<1>4. Linked'
  BY <1>3 DEF PInv, Linked
<1>5. StreamPanicked'
  BY <1>3 DEF PInv, IInv, ByExit, Alive, StreamPanicked
<1>6. QED
  BY <1>2, <1>4, <1>5

\* An RPC is in flight from its arrival to its answer, on its server alone.
LEMMA RpcComesAndGoes ==
  ASSUME PInv, NEW s \in Servers, NEW c \in Calls, Accepted(s, c) \/ Answered(s, c)
  PROVE  IP!Counted' /\ Linked' /\ StreamPanicked'
<1>1. IP!Arrive(c) \/ IP!Answer(c)
  BY SameSteps DEF Accepted, Answered
<1>2. IP!Counted'
  BY <1>1, UnaryOrStreams, IP!GoesOnCounted DEF PInv
<1>3. Alive /\ panic' = panic
  BY DEF Accepted, Answered, Arrives, Ends, ending
<1>4. StreamPanicked'
  BY <1>3 DEF PInv, IInv, ByExit, Alive, StreamPanicked
<1>5. /\ flying \in [Servers -> SUBSET Calls]
      /\ method \in [Calls -> IP!Methods \cup {NoMethod}]
      /\ Linked
  BY DEF PInv, IInv, TypeOK, IP!Counted, IP!TypeOK
<1>6. CASE Accepted(s, c)
  <2>1. /\ \A t \in Servers : c \notin flying[t]
        /\ flying' = [flying EXCEPT ![s] = flying[s] \cup {c}]
    BY <1>6 DEF Accepted, Arrives
  <2>2. PICK m \in IP!Methods : method' = [method EXCEPT ![c] = m]
    BY <1>6, SameSteps DEF Accepted, IP!Arrive
  <2>3. m # NoMethod
    BY UnaryOrStreams DEF IP!Methods
  <2>4. QED BY <1>2, <1>4, <1>5, <2>1, <2>2, <2>3 DEF Linked
<1>7. CASE Answered(s, c)
  <2>1. /\ c \in flying[s]
        /\ flying' = [flying EXCEPT ![s] = flying[s] \ {c}]
        /\ method' = [method EXCEPT ![c] = NoMethod]
    BY <1>7, SameSteps DEF Answered, Ends, IP!Answer
  <2>2. QED BY <1>2, <1>4, <1>5, <2>1 DEF Linked
<1>8. QED
  BY <1>6, <1>7

\* A panic out of the chain is that of a stream.
LEMMA PanicInv ==
  ASSUME PInv, NEW s \in Servers, NEW c \in Calls, ProcessPanics(s, c)
  PROVE  IP!Counted' /\ Linked' /\ StreamPanicked'
<1>1. /\ UNCHANGED rpcs /\ flying' = flying /\ Alive' \in BOOLEAN
      /\ at[c] = 0 /\ outcome[c] = "panic"
  BY DEF ProcessPanics, HandlerPanics, Panic, I!Unrecovered, rpcs, Alive
<1>2. IP!Counted'
  BY <1>1, UnaryOrStreams, IP!RestCounted DEF PInv, rpcs
<1>3. Linked'
  BY <1>1 DEF PInv, Linked, rpcs
<1>4. method[c] \in Streams
  BY <1>1, UnaryOrStreams, IP!PanicOutside DEF PInv, IP!Counted
<1>5. StreamPanicked'
  BY <1>1, <1>4 DEF StreamPanicked, rpcs
<1>6. QED
  BY <1>2, <1>3, <1>5

\* The invariant of the process with its RPCs.
LEMMA PStepInv == PInv /\ [PNext]_allvars => PInv'
<1> SUFFICES ASSUME PInv, [PNext]_allvars PROVE PInv'
  OBVIOUS
<1>1. IInv'
  BY StepIsLife, StepInv DEF PInv
<1>2. ASSUME Background, UNCHANGED rpcs
      PROVE  IP!Counted' /\ Linked' /\ StreamPanicked'
  BY <1>2, BackgroundApart, RestInv
<1>3. ASSUME UNCHANGED vars, UNCHANGED rpcs
      PROVE  IP!Counted' /\ Linked' /\ StreamPanicked'
  BY <1>3, RestInv DEF vars, ending
<1>4. IP!Counted' /\ Linked' /\ StreamPanicked'
  BY <1>2, <1>3, RpcGoesOn, RpcComesAndGoes, PanicInv DEF PNext, Ended, allvars
<1>5. QED
  BY <1>1, <1>4 DEF PInv

\* No RPC before the process serves.
LEMMA PInitInv == PInit => PInv
<1> SUFFICES ASSUME PInit PROVE PInv
  OBVIOUS
<1>1. IInv
  BY InitInv DEF PInit
<1>2. IP!Counted
  <2>1. IP!Init
    BY DEF PInit, I!Init, IP!Init, I!Methods, IP!Methods
  <2>2. QED BY <2>1, UnaryOrStreams, IP!Initially DEF IP!IInv
<1>3. Linked /\ StreamPanicked
  BY DEF PInit, Init, I!Init, Linked, StreamPanicked
<1>4. QED
  BY <1>1, <1>2, <1>3 DEF PInv

\* What Lifecycle and Interceptors each keep, and that they agree on the RPCs.
THEOREM PInductiveInvariant == PSpec => []PInv
BY PInitInv, PStepInv, PTL DEF PSpec

\* Whatever ends the process in order, or after a failure, with handlers that
\* panic at any moment, it leaves no RPC in the metrics.
THEOREM MetricsEndAtZero == PSpec => []NothingInFlightAtTheEnd
<1>1. PInv => NothingInFlightAtTheEnd
  <2> SUFFICES ASSUME PInv, exit \in {"0", "1"}, NEW m \in I!Methods
               PROVE  gauge[m] = 0 /\ open[m] = 0
    BY DEF NothingInFlightAtTheEnd
  <2>1. m \in IP!Methods /\ m # NoMethod
    BY UnaryOrStreams DEF I!Methods, IP!Methods
  <2>2. \A s \in Servers : flying[s] = {}
    BY FinishedCalls DEF PInv, IInv, ByExit, Alive, NoCallCutShort
  <2>3. IP!CallsOf(m) = {}
    BY <2>1, <2>2 DEF IP!CallsOf, PInv, Linked
  <2>4. QED BY <2>1, <2>3, UnaryOrStreams, IP!NoneLeft DEF PInv
<1>2. QED
  BY <1>1, PInductiveInvariant, PTL

\* An RPC is cut off only by the panic of a stream: every other end waits for
\* the RPCs, and the panics of unary handlers never come out of their chain.
THEOREM OnlyStreamsCut == PSpec => []OnlyStreamsCutCallsShort
<1>1. PInv => OnlyStreamsCutCallsShort
  BY FinishedCalls DEF PInv, StreamPanicked, NoCallCutShort, OnlyStreamsCutCallsShort
<1>2. QED
  BY <1>1, PInductiveInvariant, PTL
=============================================================================
