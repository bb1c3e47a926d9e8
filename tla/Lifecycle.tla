----------------------------- MODULE Lifecycle -----------------------------
(***************************************************************************)
(* The life of one process: main starts two gRPC servers, a metrics server *)
(* and a goroutine that waits for a signal; a signal, or the failure of a  *)
(* server, makes it stop. The goroutines of cmd/resource/main.go,          *)
(* internal/app, internal/app/grpc and internal/app/metrics interleave.    *)
(*                                                                         *)
(* gRPC-go is modelled from what the code relies on: GracefulStop closes   *)
(* the listener, tells the clients, waits for the RPCs in flight, and only *)
(* then lets Serve return nil; Serve on a stopped server returns at once.  *)
(***************************************************************************)
EXTENDS Domain

CONSTANT Calls    \* RPCs that clients may have in flight

Servers == {"booking", "public"}

VARIABLES
    main,       \* where main() is
    sig,        \* where the goroutine is that waits for SIGINT or SIGTERM
    serve,      \* serve[s]: where the errgroup goroutine of server s is
    server,     \* server[s]: the state of the grpc.Server
    flying,     \* flying[s]: the RPCs that server s is handling
    repo,       \* the pool of database connections
    metrics,    \* the metrics HTTP server
    tracer,     \* the tracer provider, "nil" if it could not be built
    signalled,  \* a signal has cancelled stopCtx
    panic,      \* history: who panicked
    exit        \* the exit code, once the process has ended

goroutines == <<main, sig, serve>>
resources == <<repo, metrics, tracer>>
ending == <<panic, exit>>
vars == <<goroutines, server, flying, resources, signalled, ending>>

TypeOK ==
    /\ main      \in {"config", "log", "tracer", "new", "notify", "listen booking",
                      "listen public", "failed listen", "wait", "return"}
    /\ sig       \in {"none", "wait", "stop", "close", "metrics", "stopped"}
    /\ serve     \in [Servers -> {"none", "started", "serving", "failed", "nil", "err"}]
    /\ server    \in [Servers -> {"new", "serving", "goaway", "draining", "stopped"}]
    /\ flying    \in [Servers -> SUBSET Calls]
    /\ repo      \in {"none", "open", "closed"}
    /\ metrics   \in {"off", "starting", "serving", "failed", "closed"}
    /\ tracer    \in {"none", "built", "nil"}
    /\ signalled \in BOOLEAN
    /\ panic     \in {"none", "setup", "tracer", "handler"}
    /\ exit      \in {"no", "0", "1", "2", "signal"}

Init ==
    /\ main = "config"
    /\ sig = "none"
    /\ serve  = [s \in Servers |-> "none"]
    /\ server = [s \in Servers |-> "new"]
    /\ flying = [s \in Servers |-> {}]
    /\ repo = "none"
    /\ metrics = "off"
    /\ tracer = "none"
    /\ signalled = FALSE
    /\ panic = "none"
    /\ exit = "no"

Alive == exit = "no"

\* os.Exit, or the end of main(): whatever the other goroutines are doing,
\* they stop doing it.
Exit(code) ==
    /\ exit' = code
    /\ UNCHANGED <<goroutines, server, flying, resources, signalled, panic>>

\* A panic that nobody recovers ends the process with code 2.
Panic(who) ==
    /\ panic' = who
    /\ exit' = "2"
    /\ UNCHANGED <<goroutines, server, flying, resources, signalled>>

-----------------------------------------------------------------------------
(* main() and app.Run.                                                     *)

MainStep(label) ==
    /\ main' = label
    /\ UNCHANGED <<serve, server, flying, signalled, ending>>

\* config.MustLoad: no path, no file, or one that cannot be read.
MustLoad ==
    /\ Alive /\ main = "config"
    /\ \/ MainStep("log") /\ UNCHANGED <<sig, resources>>
       \/ Panic("setup")

\* The directory logs and the file in it.
OpenLog ==
    /\ Alive /\ main = "log"
    /\ \/ MainStep("tracer") /\ UNCHANGED <<sig, resources>>
       \/ Panic("setup")

\* The failure of tracer.New is logged, and main() goes on with what it got.
NewTracer ==
    /\ Alive /\ main = "tracer"
    /\ MainStep("new")
    /\ tracer' \in {"built", "nil"}
    /\ UNCHANGED <<sig, repo, metrics>>

\* postgres.New: a pool that does not answer its Ping is closed again.
Connect == repo' \in {"open", "none"}

\* app.New; if it fails, os.Exit skips what main() has deferred.
NewApp ==
    /\ Alive /\ main = "new"
    /\ Connect
    /\ \/ /\ repo' = "open"
          /\ MainStep("notify")
          /\ UNCHANGED <<sig, metrics, tracer>>
       \/ /\ repo' = "none"
          /\ Exit("1")

\* Signals are caught from here on; App.Run starts the metrics server before
\* it runs the gRPC servers.
Start ==
    /\ Alive /\ main = "notify"
    /\ MainStep("listen booking")
    /\ sig' = "wait"
    /\ metrics' = "starting"
    /\ UNCHANGED <<repo, tracer>>

\* net.Listen for booking, then for public; after both the servers are
\* served in goroutines of their own.
Listen ==
    /\ Alive
    /\ \/ /\ main = "listen booking"
          /\ main' = "listen public"
          /\ UNCHANGED serve
       \/ /\ main = "listen public"
          /\ main' = "wait"
          /\ serve' = [s \in Servers |-> "started"]
    /\ UNCHANGED <<sig, server, flying, resources, signalled, ending>>

\* The port is taken: Run stops both servers and returns the error.
ListenFails ==
    /\ Alive /\ main \in {"listen booking", "listen public"}
    /\ MainStep("failed listen")
    /\ UNCHANGED <<sig, resources>>

AllStopped == \A s \in Servers : server[s] = "stopped"

ListenFailed ==
    /\ Alive /\ main = "failed listen"
    /\ AllStopped
    /\ Exit("1")

AllServed == \A s \in Servers : serve[s] \in {"nil", "err"}

RunReturnsNil ==
    /\ \A s \in Servers : serve[s] = "nil"
    /\ MainStep("return")
    /\ UNCHANGED <<sig, resources>>

\* Mutants: main() makes the error its exit code; it calls MustRun, which
\* panics.
RunReturnsItsError ==
    /\ Alive /\ main = "wait" /\ AllServed
    /\ RunReturnsNil \/ \E s \in Servers : serve[s] = "err" /\ Exit(serve[s])

RunReturnsPanicking ==
    /\ Alive /\ main = "wait" /\ AllServed
    /\ RunReturnsNil \/ \E s \in Servers : serve[s] = "err" /\ Exit("2")

\* group.Wait returns when both goroutines have: with the first error, which
\* main() answers with os.Exit(1), or with nil.
RunReturns ==
    /\ Alive /\ main = "wait" /\ AllServed
    /\ RunReturnsNil \/ \E s \in Servers : serve[s] = "err" /\ Exit("1")

\* The deferred calls of main(): the provider of the tracer is shut down
\* without a look at it. What that does with the result of a failed New is
\* up to the library: it may panic.
MainReturns ==
    /\ Alive /\ main = "return"
    /\ Exit("0") \/ (tracer = "nil" /\ Panic("tracer"))

-----------------------------------------------------------------------------
(* The goroutines that serve (grpcapp.Run). A mutant is the definition      *)
(* after it with a plausible bug in it; no specification uses one.         *)

ServeStep(s, label) ==
    /\ serve' = [serve EXCEPT ![s] = label]
    /\ UNCHANGED <<main, sig, flying, resources, signalled, ending>>

\* Serve on a server that was stopped first returns ErrServerStopped.
Serve(s) ==
    /\ Alive /\ serve[s] = "started"
    /\ \/ /\ server[s] = "new"
          /\ server' = [server EXCEPT ![s] = "serving"]
          /\ ServeStep(s, "serving")
       \/ /\ server[s] = "stopped"
          /\ ServeStep(s, "nil")
          /\ UNCHANGED server

\* Accept fails for good. The connections that are open stay open.
ServeFails(s) ==
    /\ Alive /\ serve[s] = "serving" /\ server[s] = "serving"
    /\ ServeStep(s, "failed")
    /\ UNCHANGED server

\* After a graceful stop Serve returns nil, but not before the stop is over.
ServeReturns(s) ==
    /\ Alive /\ serve[s] = "serving" /\ server[s] = "stopped"
    /\ ServeStep(s, "nil")
    /\ UNCHANGED server

\* Mutants: the error is swallowed; nobody calls Stop.
FailedServeSwallowed(s) ==
    /\ Alive /\ serve[s] = "failed"
    /\ AllStopped
    /\ ServeStep(s, "nil")
    /\ UNCHANGED server

FailedServeReturnsAtOnce(s) ==
    /\ Alive /\ serve[s] = "failed"
    /\ ServeStep(s, "err")
    /\ UNCHANGED server

\* stopOnce.Do(a.Stop) is over, for the goroutine that runs it and for one
\* that finds it running.
FailedServeReturns(s) ==
    /\ Alive /\ serve[s] = "failed"
    /\ AllStopped
    /\ ServeStep(s, "err")
    /\ UNCHANGED server

-----------------------------------------------------------------------------
(* Stopping.                                                               *)

\* SIGINT or SIGTERM. Later ones find the context cancelled already.
Signal ==
    /\ Alive /\ sig = "wait"
    /\ signalled' = TRUE
    /\ sig' = "stop"
    /\ UNCHANGED <<main, serve, server, flying, resources, ending>>

\* Before NotifyContext, and after the deferred stop(), a signal kills.
SignalKills ==
    /\ Alive /\ main \in {"config", "log", "tracer", "new", "notify", "return"}
    /\ Exit("signal")

\* Whoever is inside grpcapp.App.Stop.
Stopping ==
    \/ sig = "stop"
    \/ main = "failed listen"
    \/ \E s \in Servers : serve[s] = "failed"

ServerStep(s, state) ==
    /\ server' = [server EXCEPT ![s] = state]
    /\ UNCHANGED <<goroutines, flying, resources, signalled, ending>>

\* Stop calls GracefulStop of each server in a goroutine of its own: no new
\* connection, and GOAWAY on those there are.
GracefulStop(s) ==
    /\ Alive /\ Stopping
    /\ \/ /\ server[s] = "new"
          /\ ServerStep(s, "stopped")
       \/ /\ server[s] = "serving"
          /\ ServerStep(s, "goaway")

\* The clients have seen the GOAWAY: no RPC arrives any more.
GoAwaySeen(s) ==
    /\ Alive /\ server[s] = "goaway"
    /\ ServerStep(s, "draining")

\* Mutant: Stop in the place of GracefulStop, which waits for nobody.
DrainedByForce(s) ==
    /\ Alive /\ server[s] = "draining"
    /\ ServerStep(s, "stopped")

\* The last RPC is over.
Drained(s) ==
    /\ Alive /\ server[s] = "draining"
    /\ flying[s] = {}
    /\ ServerStep(s, "stopped")

SigStep(label) ==
    /\ sig' = label
    /\ UNCHANGED <<main, serve, server, flying, tracer, signalled, ending>>

\* Mutant: wg.Wait is forgotten.
GrpcStoppedEarly ==
    /\ Alive /\ sig = "stop"
    /\ SigStep("close")
    /\ UNCHANGED <<repo, metrics>>

\* App.Stop: grpcapp.Stop has waited for both servers.
GrpcStopped ==
    /\ Alive /\ sig = "stop"
    /\ AllStopped
    /\ SigStep("close")
    /\ UNCHANGED <<repo, metrics>>

\* A failure of Close is an error of Stop, which leaves the metrics running.
CloseRepository ==
    /\ Alive /\ sig = "close"
    /\ repo' = "closed"
    /\ \/ SigStep("metrics")
       \/ SigStep("stopped")
    /\ UNCHANGED metrics

\* Shutdown gets the context that the signal has cancelled: it closes the
\* listener and waits for no request.
StopMetrics ==
    /\ Alive /\ sig = "metrics"
    /\ metrics' = "closed"
    /\ SigStep("stopped")
    /\ UNCHANGED repo

\* metricsapp.Run. Its failure is logged and stops nothing else; a server
\* that was shut down first does not start.
RunMetrics ==
    /\ Alive /\ metrics = "starting"
    /\ metrics' \in {"serving", "failed"}
    /\ UNCHANGED <<goroutines, server, flying, repo, tracer, signalled, ending>>

-----------------------------------------------------------------------------
(* RPCs.                                                                   *)

Arrives(s, c) ==
    /\ Alive /\ server[s] \in {"serving", "goaway"}
    /\ c \notin UNION {flying[t] : t \in Servers}
    /\ flying' = [flying EXCEPT ![s] = @ \cup {c}]
    /\ UNCHANGED <<goroutines, server, resources, signalled, ending>>

\* The handler returns, or panics and recoveryUnaryInterceptor answers.
Ends(s, c) ==
    /\ Alive /\ c \in flying[s]
    /\ flying' = [flying EXCEPT ![s] = @ \ {c}]
    /\ UNCHANGED <<goroutines, server, resources, signalled, ending>>

\* A panic in a handler that no interceptor recovers.
HandlerPanics(s, c) ==
    /\ Alive /\ c \in flying[s]
    /\ Panic("handler")

-----------------------------------------------------------------------------

Goroutine(s) ==
    \/ Serve(s) \/ ServeReturns(s) \/ FailedServeReturns(s)
    \/ GracefulStop(s) \/ GoAwaySeen(s) \/ Drained(s)

Main ==
    \/ MustLoad \/ OpenLog \/ NewTracer \/ NewApp \/ Start
    \/ Listen \/ ListenFailed \/ RunReturns \/ MainReturns

Stopper == GrpcStopped \/ CloseRepository \/ StopMetrics

\* All that happens outside the RPCs.
Background ==
    \/ Main \/ ListenFails \/ Stopper \/ RunMetrics \/ Signal \/ SignalKills
    \/ \E s \in Servers : Goroutine(s) \/ ServeFails(s)

Ended == ~Alive /\ UNCHANGED vars

Next ==
    \/ Background
    \/ \E s \in Servers, c \in Calls : Arrives(s, c) \/ Ends(s, c) \/ HandlerPanics(s, c)
    \/ Ended

Spec == Init /\ [][Next]_vars

-----------------------------------------------------------------------------
(* Properties.                                                             *)

\* No handler ever finds the database closed: App.Stop closes the pool only
\* after both servers have finished their RPCs, whoever stopped them.
RepositoryOpenWhileServing ==
    \A s \in Servers : flying[s] # {} => repo = "open"

\* The process never ends in the middle of an RPC, on any of its ways out: a
\* signal, a port that is taken, a server that fails, a tracer that could
\* not be built. Only the panic of a handler cuts off the other RPCs.
NoCallCutShort ==
    ~Alive /\ panic # "handler" => \A s \in Servers : flying[s] = {}

\* The exit code tells the supervisor what happened: 0 after a signal only,
\* 1 after a failure of the database, of a port or of a server, 2 after a
\* panic, and death by a signal never once there is something to stop.
ExitCodeTellsWhy ==
    /\ exit = "0" => signalled
    /\ exit = "1" => \/ main \in {"new", "failed listen"}
                     \/ \E s \in Servers : serve[s] = "err"
    /\ exit = "2" => \/ panic \in {"setup", "handler"}
                     \/ panic = "tracer" /\ signalled /\ tracer = "nil"
    /\ exit = "signal" => \A s \in Servers : server[s] \in {"new", "stopped"}

\* What main.go logs at the end of a shutdown, "application stopped": the
\* repository and the metrics server are stopped before the process ends.
StopCompletesBeforeExit == exit = "0" => sig = "stopped"
=============================================================================
