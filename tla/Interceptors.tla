---------------------------- MODULE Interceptors ----------------------------
(***************************************************************************)
(* The interceptors that grpcapp.New chains around every handler, the same *)
(* on both servers: what is measured, logged and recovered while an RPC    *)
(* goes in through them, reaches its handler, and comes out again with a   *)
(* response, an error or a panic. Each RPC has a goroutine of its own.     *)
(***************************************************************************)
EXTENDS Integers, Sequences, FiniteSets

CONSTANTS
    Calls,      \* slots for RPCs in flight
    Unary,      \* full names of unary methods
    Streams,    \* full names of streaming methods: those of reflection
    NoMethod    \* no RPC

ASSUME MethodsAssumption == Unary \cap Streams = {} /\ NoMethod \notin Unary \cup Streams

Methods == Unary \cup Streams

VARIABLES
    method,    \* method[c]: the method called
    at,        \* at[c]: the interceptor where c is, 0 outside of all
    outcome,   \* outcome[c]: how its handler ended, "none" on the way in
    gauge,     \* grpc_requests_in_flight, per method
    open,      \* grpc_server_started_total minus grpc_server_handled_total
    logged,    \* logged[c]: "grpc request failed" was logged for c
    alive      \* the process runs

vars == <<method, at, outcome, gauge, open, logged, alive>>

TypeOK ==
    /\ method  \in [Calls -> Methods \cup {NoMethod}]
    /\ at      \in [Calls -> 0..5]
    /\ outcome \in [Calls -> {"none", "ok", "err", "panic"}]
    /\ gauge   \in [Methods -> Int]
    /\ open    \in [Methods -> Int]
    /\ logged  \in [Calls -> BOOLEAN]
    /\ alive   \in BOOLEAN

Init ==
    /\ method  = [c \in Calls |-> NoMethod]
    /\ at      = [c \in Calls |-> 0]
    /\ outcome = [c \in Calls |-> "none"]
    /\ gauge   = [m \in Methods |-> 0]
    /\ open    = [m \in Methods |-> 0]
    /\ logged  = [c \in Calls |-> FALSE]
    /\ alive   = TRUE

\* Mutants: no recovery; recovery around the others; recovery around the
\* logging. (A mutant is the definition after them with a plausible bug in
\* it; no specification uses one.)
ChainUnrecovered(m) == <<"prometheus", "in flight", "logging", "handler">>
ChainRecoveredLast(m) == <<"recovery", "prometheus", "in flight", "logging", "handler">>
ChainLoggedFirst(m) == <<"prometheus", "in flight", "recovery", "logging", "handler">>

\* ChainUnaryInterceptor and ChainStreamInterceptor, the first outermost.
Chain(m) ==
    IF m \in Unary
    THEN <<"prometheus", "in flight", "logging", "recovery", "handler">>
    ELSE <<"prometheus", "in flight", "handler">>

Layer(c) == Chain(method[c])[at[c]]

Inward(c, layer) ==
    /\ alive /\ at[c] > 0 /\ outcome[c] = "none"
    /\ Layer(c) = layer
    /\ at' = [at EXCEPT ![c] = @ + 1]
    /\ UNCHANGED <<method, outcome, logged, alive>>

\* The call that an interceptor made of the next one is over.
Outward(c, layer) ==
    /\ alive /\ at[c] > 0 /\ outcome[c] # "none"
    /\ Layer(c) = layer
    /\ at' = [at EXCEPT ![c] = @ - 1]
    /\ UNCHANGED <<method, alive>>

Count(metric, c, n) == metric' = [metric EXCEPT ![method[c]] = @ + n]

Arrive(c) ==
    /\ alive /\ method[c] = NoMethod
    /\ \E m \in Methods : method' = [method EXCEPT ![c] = m]
    /\ at' = [at EXCEPT ![c] = 1]
    /\ UNCHANGED <<outcome, gauge, open, logged, alive>>

EnterPrometheus(c) ==
    /\ Inward(c, "prometheus")
    /\ Count(open, c, 1)
    /\ UNCHANGED gauge

\* Inc, in inFlightUnaryInterceptor and inFlightStreamInterceptor.
EnterInFlight(c) ==
    /\ Inward(c, "in flight")
    /\ Count(gauge, c, 1)
    /\ UNCHANGED open

\* Logging and recovery do nothing on the way in.
EnterOthers(c) ==
    /\ \E layer \in {"logging", "recovery"} : Inward(c, layer)
    /\ UNCHANGED <<gauge, open>>

\* The handler returns a response, returns an error, or panics.
Handle(c) ==
    /\ alive /\ at[c] > 0 /\ outcome[c] = "none"
    /\ Layer(c) = "handler"
    /\ \E o \in {"ok", "err", "panic"} : outcome' = [outcome EXCEPT ![c] = o]
    /\ at' = [at EXCEPT ![c] = @ - 1]
    /\ UNCHANGED <<method, gauge, open, logged, alive>>

\* Mutant: err is not a named result, so the recovered call returns nil, nil.
LeaveRecoveryUnnamed(c) ==
    /\ Outward(c, "recovery")
    /\ outcome' = [outcome EXCEPT ![c] = IF @ = "panic" THEN "nil" ELSE @]
    /\ UNCHANGED <<gauge, open, logged>>

\* The deferred recover() makes an Internal error of a panic.
LeaveRecovery(c) ==
    /\ Outward(c, "recovery")
    /\ outcome' = [outcome EXCEPT ![c] = IF @ = "panic" THEN "err" ELSE @]
    /\ UNCHANGED <<gauge, open, logged>>

\* Nothing is deferred here: a panic passes by without a log line.
LeaveLogging(c) ==
    /\ Outward(c, "logging")
    /\ logged' = [logged EXCEPT ![c] = @ \/ outcome[c] = "err"]
    /\ UNCHANGED <<outcome, gauge, open>>

\* Mutant: an error returns before Dec.
LeaveInFlightOnSuccess(c) ==
    /\ Outward(c, "in flight")
    /\ Count(gauge, c, IF outcome[c] = "ok" THEN -1 ELSE 0)
    /\ UNCHANGED <<outcome, open, logged>>

\* Dec is deferred.
LeaveInFlight(c) ==
    /\ Outward(c, "in flight")
    /\ Count(gauge, c, -1)
    /\ UNCHANGED <<outcome, open, logged>>

\* A panic is not counted as handled.
LeavePrometheus(c) ==
    /\ Outward(c, "prometheus")
    /\ IF outcome[c] = "panic" THEN UNCHANGED open ELSE Count(open, c, -1)
    /\ UNCHANGED <<outcome, gauge, logged>>

\* gRPC sends the status and the goroutine ends.
Answer(c) ==
    /\ alive /\ at[c] = 0 /\ outcome[c] \in {"ok", "err"}
    /\ method'  = [method EXCEPT ![c] = NoMethod]
    /\ outcome' = [outcome EXCEPT ![c] = "none"]
    /\ logged'  = [logged EXCEPT ![c] = FALSE]
    /\ UNCHANGED <<at, gauge, open, alive>>

\* A panic that leaves the goroutine of an RPC ends the process.
Unrecovered(c) ==
    /\ alive /\ at[c] = 0 /\ outcome[c] = "panic"
    /\ alive' = FALSE
    /\ UNCHANGED <<method, at, outcome, gauge, open, logged>>

\* What the goroutine of c does until its handler is called, and after.
Pass(c) ==
    \/ EnterPrometheus(c) \/ EnterInFlight(c) \/ EnterOthers(c)
    \/ LeaveRecovery(c) \/ LeaveLogging(c) \/ LeaveInFlight(c) \/ LeavePrometheus(c)

Next ==
    \/ \E c \in Calls : Arrive(c) \/ Pass(c) \/ Handle(c) \/ Answer(c) \/ Unrecovered(c)
    \/ ~alive /\ UNCHANGED vars

Spec == Init /\ [][Next]_vars

-----------------------------------------------------------------------------
(* Properties.                                                             *)

CallsOf(m) == {c \in Calls : method[c] = m}

InHandler(c) == at[c] > 0 /\ outcome[c] = "none" /\ Layer(c) = "handler"

\* The in-flight gauge counts every call that is in its handler and none
\* that is over, however calls overlap and end.
GaugeCountsCalls ==
    \A m \in Methods :
       /\ Cardinality({c \in CallsOf(m) : InHandler(c)}) <= gauge[m]
       /\ gauge[m] <= Cardinality(CallsOf(m))

\* What prometheus counts as started it counts as handled too, even if the
\* handler panicked: when no call of a method is left, neither is any open.
EveryCallIsCounted ==
    alive => \A m \in Methods : CallsOf(m) = {} => open[m] = 0

\* No panic of a unary handler ends the process; a stream has no recovery.
OnlyStreamsEndTheProcess ==
    ~alive => \E c \in Calls : method[c] \in Streams /\ outcome[c] = "panic"

\* A unary call that failed, by a panic too, is in the log when its client
\* gets the error.
EveryFailureIsLogged ==
    \A c \in Calls : method[c] \in Unary /\ at[c] = 0 /\ outcome[c] = "err" => logged[c]
=============================================================================
