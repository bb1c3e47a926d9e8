------------------------- MODULE InterceptorsProofs -------------------------
(***************************************************************************)
(* What is measured, logged and recovered is right for any number of RPCs  *)
(* and methods. The strengthening says where in its chain each RPC can be  *)
(* (Path), and of which RPCs the two metrics are the number (Sums): of     *)
(* those between Inc and the deferred Dec, and of those between the count  *)
(* of the start and that of the end. No bound on the RPCs is assumed: each *)
(* of these sets is finite because it grows by one RPC at a time.          *)
(***************************************************************************)
EXTENDS Interceptors, FiniteSetTheorems, TLAPS

Depth(m) == IF m \in Unary THEN 5 ELSE 3

\* How far an RPC is, and what it has been through.
Path(c) ==
    /\ method[c] = NoMethod => at[c] = 0 /\ outcome[c] = "none" /\ ~logged[c]
    /\ method[c] # NoMethod /\ outcome[c] = "none" => at[c] \in 1..Depth(method[c])
    /\ outcome[c] # "none" => at[c] \in 0..(Depth(method[c]) - 1)
    /\ method[c] \in Unary /\ outcome[c] = "panic" => at[c] = 4
    /\ method[c] \in Unary /\ outcome[c] = "err" /\ at[c] <= 2 => logged[c]

\* Between Inc and Dec; between started and handled, which a panic never is.
Measured(c, m) == method[c] = m /\ at[c] >= (IF outcome[c] = "none" THEN 3 ELSE 2)
Started(c, m) ==
    /\ method[c] = m
    /\ \/ at[c] >= (IF outcome[c] = "none" THEN 2 ELSE 1)
       \/ outcome[c] = "panic"

AllMeasured(m) == {c \in Calls : Measured(c, m)}
AllStarted(m)  == {c \in Calls : Started(c, m)}

Sums ==
    \A m \in Methods :
       /\ IsFiniteSet(CallsOf(m))
       /\ gauge[m] = Cardinality(AllMeasured(m))
       /\ open[m] = Cardinality(AllStarted(m))

\* What holds of the RPCs whatever else may end the process.
Counted == TypeOK /\ (\A c \in Calls : Path(c)) /\ Sums

IInv == Counted /\ OnlyStreamsEndTheProcess

-----------------------------------------------------------------------------
(* Lemmas.                                                                 *)

\* Where the interceptors are in the chains.
LEMMA Layers ==
  ASSUME NEW m \in Methods, NEW i \in 1..Depth(m)
  PROVE  /\ Chain(m)[i] = "prometheus" <=> i = 1
         /\ Chain(m)[i] = "in flight" <=> i = 2
         /\ Chain(m)[i] = "logging" <=> i = 3 /\ m \in Unary
         /\ Chain(m)[i] = "recovery" <=> i = 4 /\ m \in Unary
         /\ Chain(m)[i] = "handler" <=> i = Depth(m)
<1>1. CASE m \in Unary
  <2> DEFINE chain == <<"prometheus", "in flight", "logging", "recovery", "handler">>
  <2>1. Chain(m) = chain /\ Depth(m) = 5
    BY <1>1 DEF Chain, Depth
  <2>2. /\ chain[1] = "prometheus" /\ chain[2] = "in flight" /\ chain[3] = "logging"
        /\ chain[4] = "recovery" /\ chain[5] = "handler"
    OBVIOUS
  <2> HIDE DEF chain
  <2>3. i \in {1, 2, 3, 4, 5}
    BY <2>1
  <2>4. QED BY <1>1, <2>1, <2>2, <2>3
<1>2. CASE m \notin Unary
  <2> DEFINE chain == <<"prometheus", "in flight", "handler">>
  <2>1. Chain(m) = chain /\ Depth(m) = 3
    BY <1>2 DEF Chain, Depth
  <2>2. chain[1] = "prometheus" /\ chain[2] = "in flight" /\ chain[3] = "handler"
    OBVIOUS
  <2> HIDE DEF chain
  <2>3. i \in {1, 2, 3}
    BY <2>1
  <2>4. QED BY <1>2, <2>1, <2>2, <2>3
<1>3. QED
  BY <1>1, <1>2

\* When one element enters or leaves a set.
LEMMA OneMoves ==
  ASSUME NEW S, NEW T, IsFiniteSet(S), NEW c, \A d : d # c => (d \in S <=> d \in T)
  PROVE  /\ IsFiniteSet(T)
         /\ Cardinality(T) = Cardinality(S) + (IF c \in T THEN 1 ELSE 0) - (IF c \in S THEN 1 ELSE 0)
<1>1. Cardinality(S) \in Nat
  BY FS_CardinalityType
<1>2. CASE c \in T
  <2>1. T = S \cup {c}
    BY <1>2
  <2>2. QED BY <1>1, <1>2, <2>1, FS_AddElement
<1>3. CASE c \notin T
  <2>1. T = S \ {c}
    BY <1>3
  <2>2. QED BY <1>1, <1>3, <2>1, FS_RemoveElement
<1>4. QED
  BY <1>2, <1>3

\* What a step of an RPC makes of it, and adds to the metrics.
Change(c) ==
    /\ TypeOK' /\ Path(c)'
    /\ \A d \in Calls \ {c} : /\ method'[d] = method[d] /\ at'[d] = at[d]
                              /\ outcome'[d] = outcome[d] /\ logged'[d] = logged[d]
    /\ \A m \in Methods :
          /\ gauge'[m] = gauge[m] + (IF Measured(c, m)' THEN 1 ELSE 0)
                                  - (IF Measured(c, m) THEN 1 ELSE 0)
          /\ open'[m] = open[m] + (IF Started(c, m)' THEN 1 ELSE 0)
                                - (IF Started(c, m) THEN 1 ELSE 0)

\* An RPC that is at an interceptor.
LEMMA AtLayer ==
  ASSUME TypeOK, NEW c \in Calls, Path(c), at[c] > 0
  PROVE  /\ method[c] \in Methods /\ at[c] \in 1..Depth(method[c])
         /\ Layer(c) = "prometheus" <=> at[c] = 1
         /\ Layer(c) = "in flight" <=> at[c] = 2
         /\ Layer(c) = "logging" <=> at[c] = 3 /\ method[c] \in Unary
         /\ Layer(c) = "recovery" <=> at[c] = 4 /\ method[c] \in Unary
         /\ Layer(c) = "handler" <=> at[c] = Depth(method[c])
<1>1. method[c] \in Methods \cup {NoMethod} /\ at[c] \in 0..5
  BY DEF TypeOK
<1>2. method[c] \in Methods
  BY <1>1 DEF Path
<1>3. at[c] \in 1..Depth(method[c])
  BY <1>1, <1>2, MethodsAssumption DEF Path, Depth, Methods
<1>4. QED
  BY <1>2, <1>3, Layers DEF Layer

\* On the way in.
LEMMA InwardChange ==
  ASSUME TypeOK, alive' \in BOOLEAN, NEW c \in Calls, Path(c),
         EnterPrometheus(c) \/ EnterInFlight(c) \/ EnterOthers(c)
  PROVE  Change(c)
<1> DEFINE mc == method[c]
<1>1. /\ at[c] > 0 /\ outcome[c] = "none" /\ Layer(c) \in {"prometheus", "in flight", "logging", "recovery"}
      /\ at' = [at EXCEPT ![c] = @ + 1]
      /\ method' = method /\ outcome' = outcome /\ logged' = logged
  BY DEF EnterPrometheus, EnterInFlight, EnterOthers, Inward
<1>2. /\ at \in [Calls -> 0..5] /\ method \in [Calls -> Methods \cup {NoMethod}]
      /\ gauge \in [Methods -> Int] /\ open \in [Methods -> Int]
  BY DEF TypeOK
<1>3. /\ mc \in Methods /\ at[c] \in 1..Depth(mc) /\ at[c] # Depth(mc)
      /\ Layer(c) = "prometheus" <=> at[c] = 1
      /\ Layer(c) = "in flight" <=> at[c] = 2
  BY <1>1, AtLayer
<1>4. /\ at' \in [Calls -> 0..5] /\ at'[c] = at[c] + 1 /\ at'[c] \in 1..Depth(mc)
  <2>1. Depth(mc) \in {3, 5}
    BY DEF Depth
  <2>2. at[c] \in 1..Depth(mc) /\ at[c] # Depth(mc)
    BY <1>3
  <2>3. at[c] + 1 \in 0..5 /\ at[c] + 1 \in 1..Depth(mc)
    BY <2>1, <2>2
  <2>4. QED BY <1>1, <1>2, <2>3
<1>5. Path(c)'
  BY <1>1, <1>3, <1>4, MethodsAssumption DEF Path, Methods
<1>6. ASSUME NEW m \in Methods
      PROVE  /\ gauge'[m] = gauge[m] + (IF m = mc /\ at[c] = 2 THEN 1 ELSE 0)
             /\ open'[m] = open[m] + (IF m = mc /\ at[c] = 1 THEN 1 ELSE 0)
  <2>0. gauge[m] \in Int /\ open[m] \in Int
    BY <1>2
  <2>1. CASE EnterPrometheus(c)
    <3>1. at[c] = 1 /\ gauge' = gauge /\ open' = [open EXCEPT ![mc] = @ + 1]
      BY <1>3, <2>1 DEF EnterPrometheus, Inward, Count
    <3>2. open'[m] = IF m = mc THEN open[mc] + 1 ELSE open[m]
      BY <1>2, <3>1
    <3>3. QED BY <2>0, <3>1, <3>2
  <2>2. CASE EnterInFlight(c)
    <3>1. at[c] = 2 /\ open' = open /\ gauge' = [gauge EXCEPT ![mc] = @ + 1]
      BY <1>3, <2>2 DEF EnterInFlight, Inward, Count
    <3>2. gauge'[m] = IF m = mc THEN gauge[mc] + 1 ELSE gauge[m]
      BY <1>2, <3>1
    <3>3. QED BY <2>0, <3>1, <3>2
  <2>3. CASE EnterOthers(c)
    <3>1. at[c] \notin {1, 2} /\ open' = open /\ gauge' = gauge
      BY <1>3, <2>3 DEF EnterOthers, Inward
    <3>2. QED BY <2>0, <3>1
  <2>4. QED BY <2>1, <2>2, <2>3
<1>7. gauge' \in [Methods -> Int] /\ open' \in [Methods -> Int]
  <2>1. gauge' = gauge \/ gauge' = [gauge EXCEPT ![mc] = @ + 1]
    BY DEF EnterPrometheus, EnterInFlight, EnterOthers, Count
  <2>2. open' = open \/ open' = [open EXCEPT ![mc] = @ + 1]
    BY DEF EnterPrometheus, EnterInFlight, EnterOthers, Count
  <2>3. gauge[mc] \in Int /\ open[mc] \in Int
    BY <1>2, <1>3
  <2>4. gauge[mc] + 1 \in Int /\ open[mc] + 1 \in Int
    BY <2>3
  <2>5. QED BY <1>2, <2>1, <2>2, <2>4
<1>8. TypeOK'
  BY <1>1, <1>4, <1>7 DEF TypeOK
<1>9. ASSUME NEW m \in Methods
      PROVE  /\ gauge'[m] = gauge[m] + (IF Measured(c, m)' THEN 1 ELSE 0)
                                  - (IF Measured(c, m) THEN 1 ELSE 0)
             /\ open'[m] = open[m] + (IF Started(c, m)' THEN 1 ELSE 0)
                                - (IF Started(c, m) THEN 1 ELSE 0)
  <2>1. gauge[m] \in Int /\ open[m] \in Int /\ at[c] \in Int
    BY <1>2
  <2>2. /\ Measured(c, m)' <=> m = mc /\ at[c] + 1 >= 3
        /\ Measured(c, m) <=> m = mc /\ at[c] >= 3
        /\ Started(c, m)' <=> m = mc /\ at[c] + 1 >= 2
        /\ Started(c, m) <=> m = mc /\ at[c] >= 2
    BY <1>1, <1>4 DEF Measured, Started
  <2>3. QED BY <1>6, <2>1, <2>2
<1>10. QED
  BY <1>1, <1>2, <1>5, <1>8, <1>9 DEF Change

\* On the way out.
LEMMA OutwardChange ==
  ASSUME TypeOK, alive' \in BOOLEAN, NEW c \in Calls, Path(c),
         LeaveRecovery(c) \/ LeaveLogging(c) \/ LeaveInFlight(c) \/ LeavePrometheus(c)
  PROVE  Change(c)
<1> DEFINE mc == method[c]
<1>1. /\ at[c] > 0 /\ outcome[c] # "none" /\ at' = [at EXCEPT ![c] = @ - 1] /\ method' = method
  BY DEF LeaveRecovery, LeaveLogging, LeaveInFlight, LeavePrometheus, Outward
<1>2. /\ at \in [Calls -> 0..5] /\ method \in [Calls -> Methods \cup {NoMethod}]
      /\ gauge \in [Methods -> Int] /\ open \in [Methods -> Int]
      /\ outcome \in [Calls -> {"none", "ok", "err", "panic"}] /\ logged \in [Calls -> BOOLEAN]
  BY DEF TypeOK
<1>3. /\ mc \in Methods /\ at[c] \in 1..Depth(mc)
      /\ Layer(c) = "prometheus" <=> at[c] = 1
      /\ Layer(c) = "in flight" <=> at[c] = 2
      /\ Layer(c) = "logging" <=> at[c] = 3 /\ mc \in Unary
      /\ Layer(c) = "recovery" <=> at[c] = 4 /\ mc \in Unary
  BY <1>1, AtLayer
<1>4. at' \in [Calls -> 0..5] /\ at'[c] = at[c] - 1 /\ at'[c] \in 0..(Depth(mc) - 1)
  <2>1. Depth(mc) \in {3, 5}
    BY DEF Depth
  <2>2. at[c] \in 1..Depth(mc)
    BY <1>3
  <2>3. at[c] - 1 \in 0..5 /\ at[c] - 1 \in 0..(Depth(mc) - 1)
    BY <2>1, <2>2
  <2>4. QED BY <1>1, <1>2, <2>3
<1>5. /\ outcome' \in [Calls -> {"none", "ok", "err", "panic"}]
      /\ \A d \in Calls \ {c} : outcome'[d] = outcome[d]
      /\ outcome'[c] # "none"
      /\ at[c] # 4 \/ mc \notin Unary => outcome'[c] = outcome[c]
      /\ at[c] = 4 /\ mc \in Unary => outcome'[c] # "panic"
  <2>1. CASE LeaveRecovery(c)
    <3>1. /\ outcome' = [outcome EXCEPT ![c] = IF @ = "panic" THEN "err" ELSE @]
          /\ at[c] = 4 /\ mc \in Unary
      BY <1>3, <2>1 DEF LeaveRecovery, Outward
    <3>2. QED BY <1>1, <1>2, <3>1
  <2>2. CASE ~LeaveRecovery(c)
    <3>1. outcome' = outcome
      BY <2>2 DEF LeaveLogging, LeaveInFlight, LeavePrometheus
    <3>2. Layer(c) \in {"logging", "in flight", "prometheus"}
      BY <2>2 DEF LeaveLogging, LeaveInFlight, LeavePrometheus, Outward
    <3>3. at[c] \in {1, 2, 3}
      BY <1>3, <3>2
    <3>4. QED BY <1>1, <1>2, <3>1, <3>3
  <2>3. QED BY <2>1, <2>2
<1>6. /\ logged' \in [Calls -> BOOLEAN]
      /\ \A d \in Calls \ {c} : logged'[d] = logged[d]
      /\ logged[c] => logged'[c]
      /\ at[c] = 3 /\ outcome[c] = "err" /\ mc \in Unary => logged'[c]
  <2>1. CASE LeaveLogging(c)
    <3>1. logged' = [logged EXCEPT ![c] = @ \/ outcome[c] = "err"]
      BY <2>1 DEF LeaveLogging
    <3>2. QED BY <1>2, <3>1
  <2>2. CASE ~LeaveLogging(c)
    <3>1. logged' = logged /\ ~(at[c] = 3 /\ mc \in Unary)
      BY <1>3, <2>2 DEF LeaveRecovery, LeaveInFlight, LeavePrometheus, Outward
    <3>2. QED BY <1>2, <3>1
  <2>3. QED BY <2>1, <2>2
<1>7. Path(c)'
  <2>1. method'[c] = mc /\ mc # NoMethod
    BY <1>1, <1>3, MethodsAssumption DEF Methods
  <2>2. outcome'[c] # "none" /\ at'[c] \in 0..(Depth(method'[c]) - 1)
    BY <1>4, <1>5, <2>1
  <2>3. method'[c] \in Unary => outcome'[c] # "panic"
    BY <1>5, <2>1 DEF Path
  <2>4. method'[c] \in Unary /\ outcome'[c] = "err" /\ at'[c] <= 2 => logged'[c]
    <3> SUFFICES ASSUME mc \in Unary, outcome'[c] = "err", at[c] - 1 <= 2 PROVE logged'[c]
      BY <1>4, <2>1
    <3>0. at[c] \in Nat /\ at[c] >= 1
      <4>1. at[c] \in 1..5
        BY <1>3 DEF Depth
      <4>2. QED BY <4>1
    <3>1. at[c] \in {1, 2, 3}
      BY <3>0
    <3>2. outcome[c] = "err"
      BY <1>5, <3>1
    <3>3. CASE at[c] = 3
      BY <1>6, <3>2, <3>3
    <3>4. CASE at[c] <= 2
      BY <1>6, <3>2, <3>4 DEF Path
    <3>5. QED BY <3>1, <3>3, <3>4
  <2>5. QED BY <2>1, <2>2, <2>3, <2>4 DEF Path
<1>8. gauge' \in [Methods -> Int] /\ open' \in [Methods -> Int]
  <2>1. gauge' = gauge \/ gauge' = [gauge EXCEPT ![mc] = @ + -1]
    BY DEF LeaveRecovery, LeaveLogging, LeaveInFlight, LeavePrometheus, Count
  <2>2. open' = open \/ open' = [open EXCEPT ![mc] = @ + -1]
    BY DEF LeaveRecovery, LeaveLogging, LeaveInFlight, LeavePrometheus, Count
  <2>3. gauge[mc] \in Int /\ open[mc] \in Int
    BY <1>2, <1>3
  <2>4. gauge[mc] + -1 \in Int /\ open[mc] + -1 \in Int
    BY <2>3
  <2>5. QED BY <1>2, <2>1, <2>2, <2>4
<1>9. TypeOK'
  BY <1>1, <1>2, <1>4, <1>5, <1>6, <1>8 DEF TypeOK
<1>10. ASSUME NEW m \in Methods
       PROVE  /\ gauge'[m] = gauge[m] - (IF m = mc /\ at[c] = 2 THEN 1 ELSE 0)
              /\ open'[m] = open[m] - (IF m = mc /\ at[c] = 1 /\ outcome[c] # "panic" THEN 1 ELSE 0)
  <2>0. gauge[m] \in Int /\ open[m] \in Int
    BY <1>2
  <2>1. CASE LeavePrometheus(c) /\ outcome[c] # "panic"
    <3>1. at[c] = 1 /\ gauge' = gauge /\ open' = [open EXCEPT ![mc] = @ + -1]
      BY <1>3, <2>1 DEF LeavePrometheus, Outward, Count
    <3>2. open'[m] = IF m = mc THEN open[mc] + -1 ELSE open[m]
      BY <1>2, <3>1
    <3>3. QED BY <2>0, <2>1, <3>1, <3>2
  <2>2. CASE LeavePrometheus(c) /\ outcome[c] = "panic"
    <3>1. at[c] = 1 /\ gauge' = gauge /\ open' = open
      BY <1>3, <2>2 DEF LeavePrometheus, Outward
    <3>2. QED BY <2>0, <2>2, <3>1
  <2>3. CASE LeaveInFlight(c)
    <3>1. at[c] = 2 /\ open' = open /\ gauge' = [gauge EXCEPT ![mc] = @ + -1]
      BY <1>3, <2>3 DEF LeaveInFlight, Outward, Count
    <3>2. gauge'[m] = IF m = mc THEN gauge[mc] + -1 ELSE gauge[m]
      BY <1>2, <3>1
    <3>3. QED BY <2>0, <3>1, <3>2
  <2>4. CASE LeaveRecovery(c) \/ LeaveLogging(c)
    <3>1. at[c] \notin {1, 2} /\ open' = open /\ gauge' = gauge
      BY <1>3, <2>4 DEF LeaveRecovery, LeaveLogging, Outward
    <3>2. QED BY <2>0, <3>1
  <2>5. QED BY <2>1, <2>2, <2>3, <2>4
<1>11. ASSUME NEW m \in Methods
      PROVE  /\ gauge'[m] = gauge[m] + (IF Measured(c, m)' THEN 1 ELSE 0)
                                  - (IF Measured(c, m) THEN 1 ELSE 0)
             /\ open'[m] = open[m] + (IF Started(c, m)' THEN 1 ELSE 0)
                                - (IF Started(c, m) THEN 1 ELSE 0)
  <2>1. gauge[m] \in Int /\ open[m] \in Int
    BY <1>2
  <2>2. at[c] \in Int /\ at[c] >= 1 /\ (at[c] = 1 => outcome'[c] = outcome[c])
    <3>1. at[c] \in 1..5
      <4>1. Depth(mc) \in {3, 5}
        BY DEF Depth
      <4>2. at[c] \in 1..Depth(mc)
        BY <1>3
      <4>3. QED BY <4>1, <4>2
    <3>2. at[c] = 1 => outcome'[c] = outcome[c]
      BY <1>5
    <3>3. QED BY <3>1, <3>2
  <2>3. /\ Measured(c, m)' <=> m = mc /\ at[c] - 1 >= 2
        /\ Measured(c, m) <=> m = mc /\ at[c] >= 2
        /\ Started(c, m)' <=> m = mc /\ (at[c] - 1 >= 1 \/ outcome'[c] = "panic")
        /\ Started(c, m) <=> m = mc
    <3>1. method'[c] = mc /\ at'[c] = at[c] - 1 /\ outcome'[c] # "none" /\ outcome[c] # "none"
      BY <1>1, <1>4, <1>5
    <3>2. Measured(c, m) <=> m = mc /\ at[c] >= 2
      BY <3>1 DEF Measured
    <3>3. Measured(c, m)' <=> m = mc /\ at[c] - 1 >= 2
      BY <3>1 DEF Measured
    <3>4. Started(c, m) <=> m = mc
      BY <2>2, <3>1 DEF Started
    <3>5. Started(c, m)' <=> m = mc /\ (at[c] - 1 >= 1 \/ outcome'[c] = "panic")
      BY <3>1 DEF Started
    <3>6. QED BY <3>2, <3>3, <3>4, <3>5
  <2>4. QED BY <1>10, <2>1, <2>2, <2>3
<1>12. QED
  BY <1>1, <1>2, <1>5, <1>6, <1>4, <1>7, <1>9, <1>11 DEF Change

\* A step that leaves the metrics alone, and c on the same side of them.
LEMMA UnmeasuredChange ==
  ASSUME TypeOK, TypeOK', NEW c \in Calls, Path(c)', UNCHANGED <<gauge, open>>,
         \A d \in Calls \ {c} : /\ method'[d] = method[d] /\ at'[d] = at[d]
                                /\ outcome'[d] = outcome[d] /\ logged'[d] = logged[d],
         \A m \in Methods : /\ Measured(c, m)' <=> Measured(c, m)
                            /\ Started(c, m)' <=> Started(c, m)
  PROVE  Change(c)
<1>1. ASSUME NEW m \in Methods
      PROVE  /\ gauge'[m] = gauge[m] + (IF Measured(c, m)' THEN 1 ELSE 0)
                                  - (IF Measured(c, m) THEN 1 ELSE 0)
             /\ open'[m] = open[m] + (IF Started(c, m)' THEN 1 ELSE 0)
                                - (IF Started(c, m) THEN 1 ELSE 0)
  <2>1. gauge[m] \in Int /\ open[m] \in Int
    BY DEF TypeOK
  <2>2. gauge'[m] = gauge[m] /\ open'[m] = open[m]
    OBVIOUS
  <2>3. (Measured(c, m)' <=> Measured(c, m)) /\ (Started(c, m)' <=> Started(c, m))
    OBVIOUS
  <2>4. QED BY <2>1, <2>2, <2>3
<1>2. QED
  BY <1>1 DEF Change

\* The beginning and the end of an RPC, and its handler.
LEMMA EndsChange ==
  ASSUME TypeOK, alive' \in BOOLEAN, NEW c \in Calls, Path(c), Arrive(c) \/ Handle(c) \/ Answer(c)
  PROVE  Change(c)
<1>1. /\ at \in [Calls -> 0..5] /\ method \in [Calls -> Methods \cup {NoMethod}]
      /\ outcome \in [Calls -> {"none", "ok", "err", "panic"}] /\ logged \in [Calls -> BOOLEAN]
      /\ UNCHANGED <<gauge, open>>
  BY DEF TypeOK, Arrive, Handle, Answer
<1>2. NoMethod \notin Methods
  BY MethodsAssumption DEF Methods
<1>3. CASE Arrive(c)
  <2>1. PICK mc \in Methods : method' = [method EXCEPT ![c] = mc]
    BY <1>3 DEF Arrive
  <2>2. /\ at' = [at EXCEPT ![c] = 1] /\ outcome' = outcome /\ logged' = logged
        /\ method[c] = NoMethod
    BY <1>3 DEF Arrive
  <2>3. /\ method'[c] = mc /\ at'[c] = 1 /\ outcome'[c] = "none" /\ ~logged'[c] /\ at[c] = 0
    BY <1>1, <2>1, <2>2 DEF Path
  <2>4. TypeOK'
    BY <1>1, <2>1, <2>2 DEF TypeOK
  <2>5. Path(c)'
    BY <1>2, <2>1, <2>3 DEF Path, Depth
  <2>6. \A m \in Methods : /\ ~Measured(c, m)' /\ ~Measured(c, m)
                           /\ ~Started(c, m)' /\ ~Started(c, m)
    BY <1>2, <2>2, <2>3 DEF Measured, Started
  <2>7. QED BY <1>1, <2>1, <2>2, <2>4, <2>5, <2>6, UnmeasuredChange
<1>4. CASE Handle(c)
  <2>1. PICK o \in {"ok", "err", "panic"} : outcome' = [outcome EXCEPT ![c] = o]
    BY <1>4 DEF Handle
  <2>2. /\ at[c] > 0 /\ outcome[c] = "none" /\ Layer(c) = "handler"
        /\ at' = [at EXCEPT ![c] = @ - 1] /\ method' = method /\ logged' = logged
    BY <1>4 DEF Handle
  <2>3. method[c] \in Methods /\ at[c] = Depth(method[c])
    BY <2>2, AtLayer
  <2>4. at[c] = IF method[c] \in Unary THEN 5 ELSE 3
    BY <2>3 DEF Depth
  <2>5. /\ at'[c] = IF method[c] \in Unary THEN 4 ELSE 2
        /\ at' \in [Calls -> 0..5]
    BY <1>1, <2>2, <2>4
  <2>6. outcome'[c] = o /\ method'[c] = method[c]
    BY <1>1, <2>1, <2>2
  <2>7. TypeOK'
    BY <1>1, <2>1, <2>2, <2>5 DEF TypeOK
  <2>8. Path(c)'
    BY <1>2, <2>3, <2>5, <2>6 DEF Path, Depth
  <2>9. \A m \in Methods : /\ Measured(c, m)' <=> Measured(c, m)
                           /\ Started(c, m)' <=> Started(c, m)
    BY <2>2, <2>4, <2>5, <2>6 DEF Measured, Started
  <2>10. QED BY <1>1, <2>1, <2>2, <2>7, <2>8, <2>9, UnmeasuredChange
<1>5. CASE Answer(c)
  <2>1. /\ at[c] = 0 /\ outcome[c] \in {"ok", "err"} /\ at' = at
        /\ method'  = [method EXCEPT ![c] = NoMethod]
        /\ outcome' = [outcome EXCEPT ![c] = "none"]
        /\ logged'  = [logged EXCEPT ![c] = FALSE]
    BY <1>5 DEF Answer
  <2>2. method'[c] = NoMethod /\ outcome'[c] = "none" /\ ~logged'[c] /\ at'[c] = 0
    BY <1>1, <2>1
  <2>3. TypeOK'
    BY <1>1, <2>1 DEF TypeOK
  <2>4. Path(c)'
    BY <2>2, MethodsAssumption DEF Path
  <2>5. \A m \in Methods : /\ ~Measured(c, m)' /\ ~Measured(c, m)
                           /\ ~Started(c, m)' /\ ~Started(c, m)
    BY <2>1, <2>2 DEF Measured, Started
  <2>6. QED BY <1>1, <2>1, <2>3, <2>4, <2>5, UnmeasuredChange
<1>6. QED
  BY <1>3, <1>4, <1>5

\* A change of one RPC keeps the metrics true.
LEMMA SumsChange ==
  ASSUME TypeOK, Sums, NEW c \in Calls, Change(c)
  PROVE  Sums'
<1> SUFFICES ASSUME NEW m \in Methods
             PROVE  /\ IsFiniteSet(CallsOf(m)')
                    /\ gauge'[m] = Cardinality(AllMeasured(m)')
                    /\ open'[m] = Cardinality(AllStarted(m)')
  BY DEF Sums
<1>1. /\ IsFiniteSet(CallsOf(m)) /\ gauge[m] = Cardinality(AllMeasured(m))
      /\ open[m] = Cardinality(AllStarted(m))
  BY DEF Sums
<1>2. IsFiniteSet(AllMeasured(m)) /\ IsFiniteSet(AllStarted(m))
  BY <1>1, FS_Subset DEF AllMeasured, AllStarted, Measured, Started, CallsOf
<1>3. \A d : d # c => /\ d \in CallsOf(m) <=> d \in CallsOf(m)'
                      /\ d \in AllMeasured(m) <=> d \in AllMeasured(m)'
                      /\ d \in AllStarted(m) <=> d \in AllStarted(m)'
  BY DEF Change, CallsOf, AllMeasured, AllStarted, Measured, Started
<1>4. IsFiniteSet(CallsOf(m)')
  BY <1>1, <1>3, OneMoves
<1>5. Cardinality(AllMeasured(m)') =
         Cardinality(AllMeasured(m)) + (IF c \in AllMeasured(m)' THEN 1 ELSE 0)
                                     - (IF c \in AllMeasured(m) THEN 1 ELSE 0)
  BY <1>2, <1>3, OneMoves
<1>6. Cardinality(AllStarted(m)') =
         Cardinality(AllStarted(m)) + (IF c \in AllStarted(m)' THEN 1 ELSE 0)
                                    - (IF c \in AllStarted(m) THEN 1 ELSE 0)
  BY <1>2, <1>3, OneMoves
<1>7. /\ c \in AllMeasured(m) <=> Measured(c, m)
      /\ c \in AllMeasured(m)' <=> Measured(c, m)'
      /\ c \in AllStarted(m) <=> Started(c, m)
      /\ c \in AllStarted(m)' <=> Started(c, m)'
  BY DEF AllMeasured, AllStarted
<1>8. /\ gauge'[m] = gauge[m] + (IF Measured(c, m)' THEN 1 ELSE 0) - (IF Measured(c, m) THEN 1 ELSE 0)
      /\ open'[m] = open[m] + (IF Started(c, m)' THEN 1 ELSE 0) - (IF Started(c, m) THEN 1 ELSE 0)
  BY DEF Change
<1>9. gauge'[m] = Cardinality(AllMeasured(m)')
  BY <1>1, <1>5, <1>7, <1>8
<1>10. open'[m] = Cardinality(AllStarted(m)')
  BY <1>1, <1>6, <1>7, <1>8
<1>11. QED
  BY <1>4, <1>9, <1>10

\* A change of one RPC keeps the others where they are.
LEMMA PathsChange ==
  ASSUME NEW c \in Calls, Change(c), \A d \in Calls : Path(d)
  PROVE  \A d \in Calls : Path(d)'
<1> SUFFICES ASSUME NEW d \in Calls PROVE Path(d)'
  OBVIOUS
<1>1. CASE d = c
  BY <1>1 DEF Change
<1>2. CASE d # c
  BY <1>2 DEF Change, Path
<1>3. QED
  BY <1>1, <1>2

\* A panic that has come out of its chain is a stream's.
LEMMA PanicOutside ==
  ASSUME TypeOK, NEW c \in Calls, Path(c), at[c] = 0, outcome[c] = "panic"
  PROVE  method[c] \in Streams
BY DEF TypeOK, Path, Methods

\* Only a stream's panic leaves its goroutine, and nothing moves after that.
LEMMA OnlyStreamsKept ==
  ASSUME TypeOK, \A c \in Calls : Path(c), OnlyStreamsEndTheProcess, [Next]_vars
  PROVE  OnlyStreamsEndTheProcess'
<1>1. CASE UNCHANGED vars
  BY <1>1 DEF OnlyStreamsEndTheProcess, vars
<1>2. CASE alive' = alive /\ alive
  BY <1>2 DEF OnlyStreamsEndTheProcess
<1>3. ASSUME NEW c \in Calls, Unrecovered(c)
      PROVE  OnlyStreamsEndTheProcess'
  <2>1. /\ at[c] = 0 /\ outcome[c] = "panic"
        /\ method' = method /\ outcome' = outcome
    BY <1>3 DEF Unrecovered
  <2>2. method[c] \in Streams
    BY <2>1, PanicOutside
  <2>3. QED BY <2>1, <2>2 DEF OnlyStreamsEndTheProcess
<1>4. ASSUME NEW c \in Calls, Arrive(c) \/ Pass(c) \/ Handle(c) \/ Answer(c)
      PROVE  alive' = alive /\ alive
  BY <1>4 DEF Arrive, Pass, Handle, Answer, EnterPrometheus, EnterInFlight, EnterOthers, LeaveRecovery,
              LeaveLogging, LeaveInFlight, LeavePrometheus, Inward, Outward
<1>5. QED
  BY <1>1, <1>2, <1>3, <1>4 DEF Next

\* Every step of an RPC that goes on is a change of it.
LEMMA GoesOn ==
  ASSUME TypeOK, NEW c \in Calls, Path(c), Arrive(c) \/ Pass(c) \/ Handle(c) \/ Answer(c)
  PROVE  Change(c)
<1>1. alive' \in BOOLEAN
  BY DEF TypeOK, Arrive, Pass, Handle, Answer, EnterPrometheus, EnterInFlight, EnterOthers,
         LeaveRecovery, LeaveLogging, LeaveInFlight, LeavePrometheus, Inward, Outward
<1>2. CASE Arrive(c) \/ Handle(c) \/ Answer(c)
  BY <1>1, <1>2, EndsChange
<1>3. CASE EnterPrometheus(c) \/ EnterInFlight(c) \/ EnterOthers(c)
  BY <1>1, <1>3, InwardChange
<1>4. CASE LeaveRecovery(c) \/ LeaveLogging(c) \/ LeaveInFlight(c) \/ LeavePrometheus(c)
  BY <1>1, <1>4, OutwardChange
<1>5. QED
  BY <1>2, <1>3, <1>4 DEF Pass

\* The counts stay right when an RPC goes on.
LEMMA GoesOnCounted ==
  ASSUME Counted, NEW c \in Calls, Arrive(c) \/ Pass(c) \/ Handle(c) \/ Answer(c)
  PROVE  Counted'
<1>1. TypeOK /\ (\A d \in Calls : Path(d)) /\ Sums
  BY DEF Counted
<1>2. Change(c)
  BY <1>1, GoesOn
<1>3. TypeOK'
  BY <1>2 DEF Change
<1>4. \A d \in Calls : Path(d)'
  BY <1>1, <1>2, PathsChange
<1>5. Sums'
  BY <1>1, <1>2, SumsChange
<1>6. QED
  BY <1>3, <1>4, <1>5 DEF Counted

\* And when none does, whether the process goes on or not.
LEMMA RestCounted ==
  ASSUME Counted, UNCHANGED <<method, at, outcome, gauge, open, logged>>, alive' \in BOOLEAN
  PROVE  Counted'
<1>1. TypeOK'
  BY DEF Counted, TypeOK
<1>2. \A d \in Calls : Path(d)'
  BY DEF Counted, Path
<1>3. Sums'
  BY DEF Counted, Sums, CallsOf, AllMeasured, AllStarted, Measured, Started
<1>4. QED
  BY <1>1, <1>2, <1>3 DEF Counted

\* The strengthening is inductive.
LEMMA Inductive == IInv /\ [Next]_vars => IInv'
<1> SUFFICES ASSUME IInv, [Next]_vars PROVE IInv'
  OBVIOUS
<1>1. OnlyStreamsEndTheProcess'
  BY OnlyStreamsKept DEF IInv, Counted
<1>2. ASSUME NEW c \in Calls, Arrive(c) \/ Pass(c) \/ Handle(c) \/ Answer(c)
      PROVE  Counted'
  BY <1>2, GoesOnCounted DEF IInv
<1>3. ASSUME NEW c \in Calls, Unrecovered(c)
      PROVE  Counted'
  BY <1>3, RestCounted DEF IInv, Unrecovered
<1>4. CASE UNCHANGED vars
  <2>1. alive' \in BOOLEAN
    BY <1>4 DEF IInv, Counted, TypeOK, vars
  <2>2. UNCHANGED <<method, at, outcome, gauge, open, logged>>
    BY <1>4 DEF vars
  <2>3. Counted'
    BY <2>1, <2>2, RestCounted DEF IInv
  <2>4. QED BY <2>3, <1>1 DEF IInv
<1>5. QED
  BY <1>1, <1>2, <1>3, <1>4 DEF IInv, Next

\* Without RPCs of a method its metrics are zero.
LEMMA NoneLeft ==
  ASSUME Counted, NEW m \in Methods, CallsOf(m) = {}
  PROVE  gauge[m] = 0 /\ open[m] = 0
<1>1. AllMeasured(m) = {} /\ AllStarted(m) = {}
  BY DEF AllMeasured, Measured, AllStarted, Started, CallsOf
<1>2. gauge[m] = Cardinality(AllMeasured(m)) /\ open[m] = Cardinality(AllStarted(m))
  BY DEF Counted, Sums
<1>3. QED
  BY <1>1, <1>2, FS_EmptySet

\* Before the first RPC every set is empty and every metric zero.
LEMMA Initially == Init => IInv
<1> SUFFICES ASSUME Init PROVE IInv
  OBVIOUS
<1>1. TypeOK
  BY DEF Init, TypeOK
<1>2. ASSUME NEW c \in Calls PROVE method[c] = NoMethod /\ at[c] = 0 /\ outcome[c] = "none" /\ ~logged[c]
  BY DEF Init
<1>3. \A c \in Calls : Path(c)
  BY <1>2, MethodsAssumption DEF Path
<1>4. Sums
  <2> SUFFICES ASSUME NEW m \in Methods
               PROVE  /\ IsFiniteSet(CallsOf(m))
                      /\ gauge[m] = Cardinality(AllMeasured(m))
                      /\ open[m] = Cardinality(AllStarted(m))
    BY DEF Sums
  <2>1. m # NoMethod
    BY MethodsAssumption DEF Methods
  <2>2. CallsOf(m) = {} /\ AllMeasured(m) = {} /\ AllStarted(m) = {}
    BY <1>2, <2>1 DEF CallsOf, AllMeasured, AllStarted, Measured, Started
  <2>3. gauge[m] = 0 /\ open[m] = 0
    BY DEF Init
  <2>4. QED BY <2>2, <2>3, FS_EmptySet
<1>5. OnlyStreamsEndTheProcess
  BY DEF Init, OnlyStreamsEndTheProcess
<1>6. QED
  BY <1>1, <1>3, <1>4, <1>5 DEF IInv, Counted

-----------------------------------------------------------------------------
(* Theorems.                                                               *)

\* The strengthening always holds.
THEOREM Invariance == Spec => []IInv
<1>1. Init => IInv
  BY Initially
<1>2. QED
  BY <1>1, Inductive, PTL DEF Spec

\* The chains never run an RPC past their ends, for any methods and RPCs.
THEOREM TypeCorrectness == Spec => []TypeOK
<1>1. IInv => TypeOK
  BY DEF IInv, Counted
<1>2. QED
  BY <1>1, Invariance, PTL

\* The deferred Dec and the order of the interceptors make the gauge right:
\* it is at least the calls in their handlers and at most those in flight.
THEOREM GaugeIsRight == Spec => []GaugeCountsCalls
<1>1. IInv => GaugeCountsCalls
  <2> SUFFICES ASSUME IInv, NEW m \in Methods
               PROVE  /\ Cardinality({c \in CallsOf(m) : InHandler(c)}) <= gauge[m]
                      /\ gauge[m] <= Cardinality(CallsOf(m))
    BY DEF GaugeCountsCalls
  <2>1. IsFiniteSet(CallsOf(m)) /\ gauge[m] = Cardinality(AllMeasured(m))
    BY DEF IInv, Counted, Sums
  <2>2. AllMeasured(m) \subseteq CallsOf(m)
    BY DEF AllMeasured, Measured, CallsOf
  <2>3. {c \in CallsOf(m) : InHandler(c)} \subseteq AllMeasured(m)
    <3> SUFFICES ASSUME NEW c \in Calls, method[c] = m, InHandler(c)
                 PROVE  Measured(c, m)
      BY DEF AllMeasured, CallsOf
    <3>1. at[c] > 0 /\ outcome[c] = "none" /\ Layer(c) = "handler"
      BY DEF InHandler
    <3>2. at[c] = Depth(m)
      BY <3>1, AtLayer DEF IInv, Counted
    <3>3. at[c] >= 3
      BY <3>2 DEF Depth
    <3>4. QED BY <3>1, <3>3 DEF Measured
  <2>4. IsFiniteSet(AllMeasured(m))
    BY <2>1, <2>2, FS_Subset
  <2>5. Cardinality(AllMeasured(m)) <= Cardinality(CallsOf(m))
    BY <2>1, <2>2, FS_Subset
  <2>6. Cardinality({c \in CallsOf(m) : InHandler(c)}) <= Cardinality(AllMeasured(m))
    BY <2>3, <2>4, FS_Subset
  <2>7. QED BY <2>1, <2>5, <2>6
<1>2. QED
  BY <1>1, Invariance, PTL

\* Whatever panicked, grpc_server_started_total and grpc_server_handled_total
\* meet whenever no call of a method is left and the process runs.
THEOREM CountersMeet == Spec => []EveryCallIsCounted
<1>1. IInv => EveryCallIsCounted
  BY NoneLeft DEF IInv, EveryCallIsCounted
<1>2. QED
  BY <1>1, Invariance, PTL

\* Recovery stands inside of everything else in a unary chain, so the panic
\* that ends the process is a stream's.
THEOREM UnaryPanicsAreRecovered == Spec => []OnlyStreamsEndTheProcess
<1>1. IInv => OnlyStreamsEndTheProcess
  BY DEF IInv
<1>2. QED
  BY <1>1, Invariance, PTL

\* Logging stands outside of recovery, so it logs the errors made of panics.
THEOREM FailuresAreLogged == Spec => []EveryFailureIsLogged
<1>1. IInv => EveryFailureIsLogged
  BY DEF IInv, Counted, EveryFailureIsLogged, Path
<1>2. QED
  BY <1>1, Invariance, PTL
=============================================================================
