------------------------------ MODULE Process ------------------------------
(***************************************************************************)
(* One process with its RPCs: Lifecycle, where an RPC in flight is a call  *)
(* on its way through Interceptors. What a panic of a handler, or a client *)
(* that keeps a stream open, means for the end of the process.             *)
(***************************************************************************)
EXTENDS Lifecycle

CONSTANTS Unary, Streams, NoMethod

ASSUME UnaryOrStreams == Unary \cap Streams = {} /\ NoMethod \notin Unary \cup Streams

VARIABLES method, at, outcome, gauge, open, logged

I == INSTANCE Interceptors WITH alive <- Alive

rpcs == <<method, at, outcome, gauge, open, logged>>
allvars == <<vars, rpcs>>

PInit == Init /\ I!Init

\* The goroutine of an RPC, apart from its beginning and end.
Rpc(c) == UNCHANGED vars /\ (I!Pass(c) \/ I!Handle(c))

\* gRPC calls the chain, and sends what it answers.
Accepted(s, c) == Arrives(s, c) /\ I!Arrive(c)
Answered(s, c) == Ends(s, c) /\ I!Answer(c)

\* A panic comes out of the chain.
ProcessPanics(s, c) == HandlerPanics(s, c) /\ I!Unrecovered(c)

PNext ==
    \/ Background /\ UNCHANGED rpcs
    \/ \E c \in Calls : Rpc(c)
    \/ \E s \in Servers, c \in Calls : Accepted(s, c) \/ Answered(s, c) \/ ProcessPanics(s, c)
    \/ Ended /\ UNCHANGED rpcs

PSpec == PInit /\ [][PNext]_allvars

\* Every goroutine that can run is scheduled, and unary handlers end
\* (EveryCallEnds of ResourceStore). Whether a stream ends is up to its client.
PFairness ==
    /\ WF_allvars(Main /\ UNCHANGED rpcs) /\ WF_allvars(Stopper /\ UNCHANGED rpcs)
    /\ \A s \in Servers :
          /\ WF_allvars(Serve(s) /\ UNCHANGED rpcs)
          /\ WF_allvars(ServeReturns(s) /\ UNCHANGED rpcs)
          /\ WF_allvars(FailedServeReturns(s) /\ UNCHANGED rpcs)
          /\ WF_allvars(GracefulStop(s) /\ UNCHANGED rpcs)
          /\ WF_allvars(GoAwaySeen(s) /\ UNCHANGED rpcs)
          /\ WF_allvars(Drained(s) /\ UNCHANGED rpcs)
          /\ \A c \in Calls : WF_allvars(Answered(s, c)) /\ WF_allvars(ProcessPanics(s, c))
    /\ \A c \in Calls : /\ WF_allvars(UNCHANGED vars /\ I!Pass(c))
                        /\ WF_allvars(UNCHANGED vars /\ method[c] \in Unary /\ I!Handle(c))

PFairSpec == PSpec /\ PFairness

-----------------------------------------------------------------------------
(* Properties.                                                             *)

\* At the end of every orderly run, and of one that failed to listen or to
\* serve, the metrics that are scraped last show no RPC in flight and none
\* that was started and not handled.
NothingInFlightAtTheEnd ==
    exit \in {"0", "1"} =>
       \A m \in I!Methods : gauge[m] = 0 /\ open[m] = 0

\* RPCs are cut off by nothing but the panic of a stream's handler: every
\* other end of the process, with unary handlers that panic at any moment of
\* its shutdown, leaves no RPC without its answer.
OnlyStreamsCutCallsShort ==
    ~Alive /\ (\E s \in Servers : flying[s] # {}) =>
       \E c \in Calls : method[c] \in Streams /\ outcome[c] = "panic"

StreamOpen == \E c \in Calls : method[c] \in Streams /\ I!InHandler(c)

\* Told to stop, or after the failure of a server, the process ends, whatever
\* its unary handlers do, unless a client keeps a reflection stream open:
\* GracefulStop waits for it without a limit.
StopsUnlessStreamStays ==
    (signalled \/ \E s \in Servers : serve[s] = "failed")
       ~> (~Alive \/ []StreamOpen)
=============================================================================
