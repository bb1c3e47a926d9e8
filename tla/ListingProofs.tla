---------------------------- MODULE ListingProofs ----------------------------
(***************************************************************************)
(* Theorems about Listing: a list that is answered OK is a snapshot, and   *)
(* what stamps and the order of lists tell a client is true, for any number*)
(* of writers, readers, resources and writes. The strengthening says what  *)
(* the stamps that a call has seen, and its own, have to do with those of  *)
(* the rows (Timeline), and that the rows which a reader has and those that*)
(* it still gets are together the list as its SELECT saw it (Right).       *)
(***************************************************************************)
EXTENDS Listing, FiniteSetTheorems, SequenceTheorems, TLAPS

\* Resources are records, and those that live have a type.
Shaped ==
    /\ store = [id \in Ids |-> store[id]]
    /\ \A id \in Ids :
          /\ DOMAIN store[id] = {"life", "type", "cols", "details"}
          /\ store[id].life = "live" => store[id].type \in ResourceTypes

\* A row was stamped before its COMMIT moved the clock.
Stamped(id) == created[id] <= updated[id] /\ created[id] < clock /\ updated[id] < clock

\* What c saw was there before c began, and created before.
Saw(c, id) ==
    saw[c][id] # -1 =>
       /\ id \in Born /\ saw[c][id] <= clock
       /\ began[c] # -1 => created[id] < began[c] /\ saw[c][id] <= began[c]

Timeline ==
    /\ \A id \in Born : Stamped(id)
    /\ \A c \in Calls : began[c] <= clock /\ (job[c] = NoJob => began[c] = -1)
    /\ \A c \in Calls, id \in Ids : Saw(c, id)
    /\ \A c \in Calls : job[c] # NoJob /\ job[c].op # "create" =>
          job[c].id \in Ids /\ saw[c][job[c].id] # -1
    /\ \A i, j \in Ids : i \in older[j] => i \in Born /\ j \in Born /\ created[i] < created[j]

\* s is a list as one SELECT may return it.
Complete(s, seen) ==
    /\ s \in Seq(Ids) /\ IsInjective(s) /\ ToSet(s) \in seen
    /\ \A i \in DOMAIN s : s[i] \in Born
    /\ \A i, j \in DOMAIN s : i < j => s[i] \notin older[s[j]]

\* What a reader has got, and will get, is what its SELECT saw.
Right(l) ==
    /\ l.at = "select" =>
          l.got = <<>> /\ {id \in Ids : Asks(l.filter, store[id])} \in l.seen
    /\ l.at = "rows" => Complete(l.got \o l.left, l.seen)
    /\ l.at = "done" /\ l.code = "OK" => Complete(l.got, l.seen)

IInv == TypeOK /\ Shaped /\ Timeline /\ \A r \in Readers : Right(list[r])

\* TypeOK without the lists.
WritersTyped ==
    /\ job     \in [Calls -> Requests \cup {NoJob}]
    /\ clock   \in 0..MaxTime
    /\ began   \in [Calls -> -1..MaxTime]
    /\ created \in [Ids -> 0..MaxTime]
    /\ updated \in [Ids -> 0..MaxTime]
    /\ older   \in [Ids -> SUBSET Ids]
    /\ saw     \in [Calls -> [Ids -> -1..MaxTime]]

Writers == WritersTyped /\ Shaped /\ Timeline

-----------------------------------------------------------------------------
(* Writers.                                                                *)

\* The clock, the stamps and those that were seen are numbers.
LEMMA Numbers ==
  ASSUME WritersTyped
  PROVE  /\ clock \in Int /\ clock >= 0 /\ clock <= MaxTime
         /\ \A c \in Calls : began[c] \in Int /\ began[c] >= -1
         /\ \A id \in Ids : /\ created[id] \in Int /\ created[id] >= 0
                            /\ updated[id] \in Int /\ updated[id] >= 0
         /\ \A c \in Calls, id \in Ids : saw[c][id] \in Int
<1>1. MaxTime \in Nat
  BY TimeAssumption
<1>2. clock \in 0..MaxTime
  BY DEF WritersTyped
<1>3. \A c \in Calls : began[c] \in -1..MaxTime
  BY DEF WritersTyped
<1>4. \A id \in Ids : created[id] \in 0..MaxTime /\ updated[id] \in 0..MaxTime
  BY DEF WritersTyped
<1>5. \A c \in Calls, id \in Ids : saw[c][id] \in -1..MaxTime
  BY DEF WritersTyped
<1>6. QED
  BY <1>1, <1>2, <1>3, <1>4, <1>5

\* A client asks: it has seen the stamps of the rows that are there.
LEMMA AskWriters ==
  ASSUME Writers, NEW c \in Calls, Ask(c)
  PROVE  Writers'
<1>1. /\ UNCHANGED <<store, clock, began, created, updated, older>>
      /\ saw' = [saw EXCEPT ![c] = [id \in Ids |-> IF id \in Born THEN updated[id] ELSE -1]]
      /\ job'[c].op # "create" => job'[c].id \in Born
  BY DEF Ask, S!Ask
<1>2. PICK r \in Requests : job' = [job EXCEPT ![c] = r]
  BY DEF Ask, S!Ask
<1>3. WritersTyped
  BY DEF Writers
<1>4. /\ job' \in [Calls -> Requests \cup {NoJob}]
      /\ \A d \in Calls \ {c} : job'[d] = job[d]
  BY <1>2, <1>3 DEF WritersTyped
<1>5. began[c] \in -1..MaxTime /\ MaxTime \in Nat
  BY <1>3, TimeAssumption DEF WritersTyped
<1>6. \A id \in Ids : (IF id \in Born THEN updated[id] ELSE -1) \in -1..MaxTime
  <2>1. \A id \in Ids : updated[id] \in 0..MaxTime
    BY <1>3 DEF WritersTyped
  <2>2. QED BY <2>1, <1>5
<1>7. /\ saw' \in [Calls -> [Ids -> -1..MaxTime]]
      /\ \A d \in Calls \ {c} : saw'[d] = saw[d]
      /\ \A id \in Ids : saw'[c][id] = IF id \in Born THEN updated[id] ELSE -1
  BY <1>1, <1>3, <1>6 DEF WritersTyped
<1>8. WritersTyped'
  BY <1>1, <1>3, <1>4, <1>7 DEF WritersTyped
<1>9. Shaped' /\ Born' = Born
  BY <1>1 DEF Writers, Shaped, Born
<1>10. Timeline'
  <2>1. \A id \in Born' : Stamped(id)'
    BY <1>1, <1>9 DEF Writers, Timeline, Stamped
  <2>2. \A d \in Calls : began'[d] <= clock' /\ (job'[d] = NoJob => began'[d] = -1)
    BY <1>1, <1>4 DEF Writers, Timeline, Ask, S!Ask
  <2>3. ASSUME NEW d \in Calls, NEW id \in Ids PROVE Saw(d, id)'
    <3>1. CASE d # c
      BY <1>1, <1>7, <1>9, <3>1 DEF Writers, Timeline, Saw
    <3>2. CASE d = c
      <4>1. began'[c] = -1
        BY <1>1 DEF Ask, S!Ask, Writers, Timeline
      <4>2. clock' = clock /\ Born' = Born /\ saw'[c][id] = IF id \in Born THEN updated[id] ELSE -1
        BY <1>1, <1>7, <1>9
      <4>3. id \in Born => updated[id] < clock /\ updated[id] \in Int /\ clock \in Int
        BY <1>3, Numbers DEF Writers, Timeline, Stamped
      <4>4. QED BY <3>2, <4>1, <4>2, <4>3 DEF Saw
    <3>3. QED BY <3>1, <3>2
  <2>4. ASSUME NEW d \in Calls, job'[d] # NoJob, job'[d].op # "create"
        PROVE  job'[d].id \in Ids /\ saw'[d][job'[d].id] # -1
    <3>1. CASE d # c
      BY <1>4, <1>7, <2>4, <3>1 DEF Writers, Timeline
    <3>2. CASE d = c
      <4>1. job'[c].id \in Ids /\ job'[c].id \in Born
        BY <1>1, <2>4, <3>2 DEF Born
      <4>2. updated[job'[c].id] >= 0 /\ updated[job'[c].id] \in Int
        BY <1>3, <4>1, Numbers
      <4>3. QED BY <1>7, <3>2, <4>1, <4>2
    <3>3. QED BY <3>1, <3>2
  <2>5. \A i, j \in Ids : i \in older'[j] => i \in Born' /\ j \in Born' /\ created'[i] < created'[j]
    BY <1>1, <1>9 DEF Writers, Timeline
  <2>6. QED BY <2>1, <2>2, <2>3, <2>4, <2>5 DEF Timeline
<1>11. QED
  BY <1>8, <1>9, <1>10 DEF Writers

\* The transaction of c begins: now() is behind all that c has seen.
LEMMA BeginWriters ==
  ASSUME Writers, NEW c \in Calls, Begin(c)
  PROVE  Writers'
<1>1. /\ UNCHANGED <<store, job, clock, created, updated, saw, older>>
      /\ job[c] # NoJob /\ began[c] = -1
      /\ began' = [began EXCEPT ![c] = clock]
  BY DEF Begin
<1>2. WritersTyped
  BY DEF Writers
<1>3. /\ began' \in [Calls -> -1..MaxTime]
      /\ began'[c] = clock
      /\ \A d \in Calls \ {c} : began'[d] = began[d]
  <2>1. clock \in -1..MaxTime
    BY <1>2, TimeAssumption DEF WritersTyped
  <2>2. QED BY <1>1, <1>2, <2>1 DEF WritersTyped
<1>4. WritersTyped'
  BY <1>1, <1>2, <1>3 DEF WritersTyped
<1>5. Shaped' /\ Born' = Born
  BY <1>1 DEF Writers, Shaped, Born
<1>6. Timeline'
  <2>1. \A id \in Born' : Stamped(id)'
    BY <1>1, <1>5 DEF Writers, Timeline, Stamped
  <2>2. \A d \in Calls : began'[d] <= clock' /\ (job'[d] = NoJob => began'[d] = -1)
    BY <1>1, <1>2, <1>3, Numbers DEF Writers, Timeline
  <2>3. ASSUME NEW d \in Calls, NEW id \in Ids PROVE Saw(d, id)'
    <3>1. CASE d # c
      BY <1>1, <1>3, <1>5, <3>1 DEF Writers, Timeline, Saw
    <3>2. CASE d = c
      <4>1. saw'[c] = saw[c] /\ clock' = clock /\ created' = created /\ began'[c] = clock
        BY <1>1, <1>3
      <4>2. saw[c][id] # -1 => id \in Born /\ saw[c][id] <= clock /\ created[id] < clock
        BY DEF Writers, Timeline, Saw, Stamped
      <4>3. QED BY <1>5, <3>2, <4>1, <4>2 DEF Saw
    <3>3. QED BY <3>1, <3>2
  <2>4. \A d \in Calls : job'[d] # NoJob /\ job'[d].op # "create" =>
           job'[d].id \in Ids /\ saw'[d][job'[d].id] # -1
    BY <1>1 DEF Writers, Timeline
  <2>5. \A i, j \in Ids : i \in older'[j] => i \in Born' /\ j \in Born' /\ created'[i] < created'[j]
    BY <1>1, <1>5 DEF Writers, Timeline
  <2>6. QED BY <2>1, <2>2, <2>3, <2>4, <2>5 DEF Timeline
<1>7. QED
  BY <1>4, <1>5, <1>6 DEF Writers

\* Nothing is left of a call that is over.
LEMMA Forgotten ==
  ASSUME Writers, NEW c \in Calls,
         job'   = [job EXCEPT ![c] = NoJob],
         began' = [began EXCEPT ![c] = -1],
         saw'   = [saw EXCEPT ![c] = Nothing]
  PROVE  /\ job' \in [Calls -> Requests \cup {NoJob}]
         /\ began' \in [Calls -> -1..MaxTime]
         /\ saw' \in [Calls -> [Ids -> -1..MaxTime]]
         /\ job'[c] = NoJob /\ began'[c] = -1
         /\ \A id \in Ids : saw'[c][id] = -1
         /\ \A d \in Calls \ {c} : job'[d] = job[d] /\ began'[d] = began[d] /\ saw'[d] = saw[d]
<1>1. -1 \in -1..MaxTime
  BY TimeAssumption
<1>2. Nothing \in [Ids -> -1..MaxTime] /\ \A id \in Ids : Nothing[id] = -1
  BY <1>1 DEF Nothing
<1>3. QED
  BY <1>1, <1>2 DEF Writers, WritersTyped

\* A call is refused.
LEMMA DropWriters ==
  ASSUME Writers, NEW c \in Calls, Drop(c)
  PROVE  Writers'
<1>1. /\ UNCHANGED <<store, clock, created, updated, older>>
      /\ job'   = [job EXCEPT ![c] = NoJob]
      /\ began' = [began EXCEPT ![c] = -1]
      /\ saw'   = [saw EXCEPT ![c] = Nothing]
  BY DEF Drop
<1>2. /\ job' \in [Calls -> Requests \cup {NoJob}]
      /\ began' \in [Calls -> -1..MaxTime]
      /\ saw' \in [Calls -> [Ids -> -1..MaxTime]]
      /\ job'[c] = NoJob /\ began'[c] = -1
      /\ \A id \in Ids : saw'[c][id] = -1
      /\ \A d \in Calls \ {c} : job'[d] = job[d] /\ began'[d] = began[d] /\ saw'[d] = saw[d]
  BY <1>1, Forgotten
<1>3. WritersTyped'
  BY <1>1, <1>2 DEF Writers, WritersTyped
<1>4. Shaped' /\ Born' = Born
  BY <1>1 DEF Writers, Shaped, Born
<1>5. Timeline'
  <2>1. \A id \in Born' : Stamped(id)'
    BY <1>1, <1>4 DEF Writers, Timeline, Stamped
  <2>2. \A d \in Calls : began'[d] <= clock' /\ (job'[d] = NoJob => began'[d] = -1)
    BY <1>1, <1>2, Numbers DEF Writers, Timeline
  <2>3. \A d \in Calls, id \in Ids : Saw(d, id)'
    BY <1>1, <1>2, <1>4 DEF Writers, Timeline, Saw
  <2>4. \A d \in Calls : job'[d] # NoJob /\ job'[d].op # "create" =>
           job'[d].id \in Ids /\ saw'[d][job'[d].id] # -1
    BY <1>2 DEF Writers, Timeline
  <2>5. \A i, j \in Ids : i \in older'[j] => i \in Born' /\ j \in Born' /\ created'[i] < created'[j]
    BY <1>1, <1>4 DEF Writers, Timeline
  <2>6. QED BY <2>1, <2>2, <2>3, <2>4, <2>5 DEF Timeline
<1>6. QED
  BY <1>3, <1>4, <1>5 DEF Writers

\* What the store makes of one resource.
Resource(res) ==
    /\ DOMAIN res = {"life", "type", "cols", "details"}
    /\ res.life = "live" => res.type \in ResourceTypes

\* A COMMIT writes one resource, which was there before unless it is created.
LEMMA StoreEffect ==
  ASSUME Writers, NEW c \in Calls, S!Apply(c), NEW id \in Ids, Target(c, id)
  PROVE  /\ store' = [i \in Ids |-> store'[i]]
         /\ \A i \in Ids \ {id} : store'[i] = store[i]
         /\ Resource(store'[id]) /\ store'[id].life # "unborn"
         /\ job[c].op = "create" <=> store[id].life = "unborn"
         /\ job[c].op # "create" => id = job[c].id
<1> DEFINE r == job[c]
<1>1. /\ store = [i \in Ids |-> store[i]]
      /\ Resource(store[id])
  BY DEF Writers, Shaped, Resource
<1>2. r # NoJob /\ r \in Requests
  BY DEF S!Apply, Writers, WritersTyped
<1>3. CASE r.op = "create"
  <2>1. store[id].life = "unborn" /\ store'[id].life = "live"
    BY <1>3 DEF Target
  <2>2. PICK new \in Ids : store' = [store EXCEPT ![new] = S!Created(r)]
    BY <1>3 DEF S!Apply
  <2>3. id = new
    BY <1>1, <2>1, <2>2
  <2>4. Resource(S!Created(r))
    BY <1>2, <1>3, TypesAssumption DEF Resource, S!Created
  <2>5. QED BY <1>1, <1>3, <2>1, <2>2, <2>3, <2>4
<1>4. CASE r.op # "create"
  <2>1. id = r.id
    BY <1>4 DEF Target
  <2>2. store[id].life = "live"
    BY <1>4, <2>1 DEF S!Apply, S!Live
  <2>3. \E res : store' = [store EXCEPT ![id] = res] /\ Resource(res) /\ res.life # "unborn"
    <3>1. CASE r.op = "update"
      <4>1. store' = [store EXCEPT ![id] = S!Updated(store[id], r)]
        BY <2>1, <3>1 DEF S!Apply
      <4>2. PICK cols, details :
               S!Updated(store[id], r) = [[store[id] EXCEPT !.cols = cols] EXCEPT !.details = details]
        BY DEF S!Updated
      <4>3. Resource([store[id] EXCEPT !.cols = cols]) /\ [store[id] EXCEPT !.cols = cols].life = "live"
        BY <1>1, <2>2 DEF Resource
      <4>4. Resource(S!Updated(store[id], r)) /\ S!Updated(store[id], r).life = "live"
        BY <4>2, <4>3 DEF Resource
      <4>5. QED BY <4>1, <4>4
    <3>2. CASE r.op = "change"
      <4>1. PICK cols : store' = [store EXCEPT ![id] = [store[id] EXCEPT !.cols = cols]]
        BY <2>1, <3>2 DEF S!Apply
      <4>2. Resource([store[id] EXCEPT !.cols = cols]) /\ [store[id] EXCEPT !.cols = cols].life = "live"
        BY <1>1, <2>2 DEF Resource
      <4>3. QED BY <4>1, <4>2
    <3>3. CASE r.op = "delete"
      <4>1. store' = [store EXCEPT ![id] = S!Absent("gone")]
        BY <2>1, <3>3 DEF S!Apply
      <4>2. Resource(S!Absent("gone")) /\ S!Absent("gone").life # "unborn"
        BY DEF Resource, S!Absent
      <4>3. QED BY <4>1, <4>2
    <3>4. QED BY <1>4, <3>1, <3>2, <3>3 DEF S!Apply
  <2>4. QED BY <1>1, <1>4, <2>1, <2>2, <2>3
<1>5. QED
  BY <1>3, <1>4

\* The stamps of a row that c writes are those of a transaction which began
\* after all that c has seen.
LEMMA StampEffect ==
  ASSUME Writers, NEW c \in Calls, Apply(c), NEW id \in Ids, Target(c, id), Stamp(c, id)
  PROVE  /\ began[c] \in 0..MaxTime
         /\ \A i \in Ids \ {id} : created'[i] = created[i] /\ updated'[i] = updated[i]
         /\ created'[id] = IF job[c].op = "create" THEN began[c] ELSE created[id]
         /\ updated'[id] = IF Touches(job[c]) THEN began[c] ELSE updated[id]
         /\ created' \in [Ids -> 0..MaxTime] /\ updated' \in [Ids -> 0..MaxTime]
         /\ job[c].op # "create" => created[id] < began[c]
         /\ saw[c][id] <= began[c]
<1>1. WritersTyped /\ began[c] # -1 /\ S!Apply(c)
  BY DEF Writers, Apply
<1>2. began[c] \in 0..MaxTime
  <2>1. began[c] \in -1..MaxTime /\ MaxTime \in Nat
    BY <1>1, TimeAssumption DEF WritersTyped
  <2>2. QED BY <1>1, <2>1
<1>3. created \in [Ids -> 0..MaxTime] /\ updated \in [Ids -> 0..MaxTime]
  BY <1>1 DEF WritersTyped
<1>4. /\ created' \in [Ids -> 0..MaxTime]
      /\ \A i \in Ids \ {id} : created'[i] = created[i]
      /\ created'[id] = IF job[c].op = "create" THEN began[c] ELSE created[id]
  BY <1>2, <1>3 DEF Stamp
<1>5. /\ updated' \in [Ids -> 0..MaxTime]
      /\ \A i \in Ids \ {id} : updated'[i] = updated[i]
      /\ updated'[id] = IF Touches(job[c]) THEN began[c] ELSE updated[id]
  BY <1>2, <1>3 DEF Stamp
<1>6. saw[c][id] # -1 => created[id] < began[c] /\ saw[c][id] <= began[c]
  BY <1>1 DEF Writers, Timeline, Saw
<1>7. job[c].op # "create" => saw[c][id] # -1
  BY <1>1 DEF Writers, Timeline, Target, S!Apply
<1>8. saw[c][id] <= began[c]
  <2>1. began[c] >= 0 /\ began[c] \in Int
    BY <1>2
  <2>2. QED BY <1>6, <2>1
<1>9. QED
  BY <1>2, <1>4, <1>5, <1>6, <1>7, <1>8

\* A COMMIT moves the clock and leaves the stamps behind it.
LEMMA ApplyWriters ==
  ASSUME Writers, NEW c \in Calls, Apply(c)
  PROVE  Writers'
<1>1. PICK me \in Ids :
         /\ Target(c, me) /\ Stamp(c, me)
         /\ older' = [older EXCEPT ![me] = IF job[c].op # "create" THEN older[me]
                                          ELSE {i \in Ids : saw[c][i] # -1}]
  BY DEF Apply
<1>2. /\ store' = [i \in Ids |-> store'[i]]
      /\ \A i \in Ids \ {me} : store'[i] = store[i]
      /\ Resource(store'[me]) /\ store'[me].life # "unborn"
      /\ job[c].op = "create" <=> store[me].life = "unborn"
      /\ job[c].op # "create" => me = job[c].id
  BY <1>1, StoreEffect DEF Apply
<1>3. /\ began[c] \in 0..MaxTime
      /\ \A i \in Ids \ {me} : created'[i] = created[i] /\ updated'[i] = updated[i]
      /\ created'[me] = IF job[c].op = "create" THEN began[c] ELSE created[me]
      /\ updated'[me] = IF Touches(job[c]) THEN began[c] ELSE updated[me]
      /\ created' \in [Ids -> 0..MaxTime] /\ updated' \in [Ids -> 0..MaxTime]
      /\ job[c].op # "create" => created[me] < began[c]
  BY <1>1, StampEffect
<1>4. /\ job' \in [Calls -> Requests \cup {NoJob}]
      /\ began' \in [Calls -> -1..MaxTime]
      /\ saw' \in [Calls -> [Ids -> -1..MaxTime]]
      /\ job'[c] = NoJob /\ began'[c] = -1
      /\ \A id \in Ids : saw'[c][id] = -1
      /\ \A d \in Calls \ {c} : job'[d] = job[d] /\ began'[d] = began[d] /\ saw'[d] = saw[d]
  <2>1. /\ job'   = [job EXCEPT ![c] = NoJob]
        /\ began' = [began EXCEPT ![c] = -1]
        /\ saw'   = [saw EXCEPT ![c] = Nothing]
    BY DEF Apply, S!Apply
  <2>2. QED BY <2>1, Forgotten
<1>5. clock' = clock + 1 /\ clock' \in 0..MaxTime
  <2>1. clock' = clock + 1 /\ clock < MaxTime
    BY DEF Apply
  <2>2. clock \in 0..MaxTime /\ MaxTime \in Nat
    BY TimeAssumption DEF Writers, WritersTyped
  <2>3. QED BY <2>1, <2>2
<1>6. /\ older' \in [Ids -> SUBSET Ids]
      /\ \A i \in Ids \ {me} : older'[i] = older[i]
      /\ older'[me] = IF job[c].op # "create" THEN older[me] ELSE {i \in Ids : saw[c][i] # -1}
  BY <1>1 DEF Writers, WritersTyped
<1>7. WritersTyped'
  BY <1>3, <1>4, <1>5, <1>6 DEF WritersTyped
<1>8. Shaped'
  BY <1>2 DEF Writers, Shaped, Resource
<1>9. /\ Born' = Born \cup {me}
      /\ job[c].op = "create" <=> me \notin Born
  BY <1>2 DEF Born
<1>10. WritersTyped
  BY DEF Writers
<1>11. \A i \in Born : created'[i] = created[i]
  BY <1>3, <1>9 DEF Born
<1>12. Timeline'
  <2>1. ASSUME NEW id \in Born' PROVE Stamped(id)'
    <3>1. CASE id # me
      <4>1. id \in Born /\ created'[id] = created[id] /\ updated'[id] = updated[id]
        BY <1>3, <1>9, <3>1 DEF Born
      <4>2. Stamped(id)
        BY <4>1 DEF Writers, Timeline
      <4>3. clock \in Int /\ created[id] \in Int /\ updated[id] \in Int
        BY <1>10, <4>1, Numbers DEF Born
      <4>4. QED BY <1>5, <4>1, <4>2, <4>3 DEF Stamped
    <3>2. CASE id = me
      <4>1. began[c] <= clock /\ began[c] \in Int /\ clock \in Int /\ created[me] \in Int /\ updated[me] \in Int
        BY <1>10, Numbers DEF Writers, Timeline
      <4>2. CASE job[c].op = "create"
        <5>1. Touches(job[c])
          BY <4>2 DEF Touches
        <5>2. QED BY <1>3, <1>5, <3>2, <4>1, <4>2, <5>1 DEF Stamped
      <4>3. CASE job[c].op # "create"
        <5>1. Stamped(me)
          BY <1>9, <4>3 DEF Writers, Timeline
        <5>2. QED BY <1>3, <1>5, <3>2, <4>1, <4>3, <5>1 DEF Stamped
      <4>4. QED BY <4>2, <4>3
    <3>3. QED BY <3>1, <3>2
  <2>2. ASSUME NEW d \in Calls PROVE began'[d] <= clock' /\ (job'[d] = NoJob => began'[d] = -1)
    <3>1. clock \in Int /\ clock >= 0 /\ began[d] \in Int /\ began[d] <= clock /\ (job[d] = NoJob => began[d] = -1)
      BY <1>10, Numbers DEF Writers, Timeline
    <3>2. QED BY <1>4, <1>5, <3>1
  <2>3. ASSUME NEW d \in Calls, NEW id \in Ids PROVE Saw(d, id)'
    <3>1. CASE d = c
      BY <1>4, <3>1 DEF Saw
    <3>2. CASE d # c
      <4>1. saw'[d] = saw[d] /\ began'[d] = began[d]
        BY <1>4, <3>2
      <4>2. Saw(d, id) /\ clock \in Int /\ saw[d][id] \in Int
        BY <1>10, Numbers DEF Writers, Timeline
      <4>3. QED BY <1>5, <1>9, <1>11, <4>1, <4>2 DEF Saw
    <3>3. QED BY <3>1, <3>2
  <2>4. \A d \in Calls : job'[d] # NoJob /\ job'[d].op # "create" =>
           job'[d].id \in Ids /\ saw'[d][job'[d].id] # -1
    BY <1>4 DEF Writers, Timeline
  <2>5. ASSUME NEW i \in Ids, NEW j \in Ids, i \in older'[j]
        PROVE  i \in Born' /\ j \in Born' /\ created'[i] < created'[j]
    <3>1. CASE j = me /\ job[c].op = "create"
      <4>1. saw[c][i] # -1
        BY <1>6, <2>5, <3>1
      <4>2. began[c] # -1
        BY DEF Apply
      <4>3. i \in Born /\ created[i] < began[c]
        BY <4>1, <4>2 DEF Writers, Timeline, Saw
      <4>4. QED BY <1>3, <1>9, <1>11, <3>1, <4>3
    <3>2. CASE ~(j = me /\ job[c].op = "create")
      <4>1. i \in older[j]
        BY <1>6, <2>5, <3>2
      <4>2. i \in Born /\ j \in Born /\ created[i] < created[j]
        BY <4>1 DEF Writers, Timeline
      <4>3. QED BY <1>9, <1>11, <4>2
    <3>3. QED BY <3>1, <3>2
  <2>6. QED BY <2>1, <2>2, <2>3, <2>4, <2>5 DEF Timeline
<1>13. QED
  BY <1>7, <1>8, <1>12 DEF Writers

-----------------------------------------------------------------------------
(* Readers.                                                                *)

\* The sequences of at most n elements.
LEMMA Bounded ==
  ASSUME NEW T, NEW n \in Nat, NEW s
  PROVE  s \in BoundedSeq(T, n) <=> s \in Seq(T) /\ Len(s) <= n
<1>1. ASSUME s \in BoundedSeq(T, n) PROVE s \in Seq(T) /\ Len(s) <= n
  <2>1. PICK m \in 0..n : s \in [1..m -> T]
    BY <1>1 DEF BoundedSeq, SeqOf
  <2>2. m \in Nat /\ m <= n
    BY <2>1
  <2>3. s \in Seq(T) /\ Len(s) = m
    BY <2>1, <2>2
  <2>4. QED BY <2>2, <2>3
<1>2. ASSUME s \in Seq(T), Len(s) <= n PROVE s \in BoundedSeq(T, n)
  <2>1. Len(s) \in 0..n /\ s \in [1..Len(s) -> T]
    BY <1>2, LenProperties
  <2>2. QED BY <2>1 DEF BoundedSeq, SeqOf
<1>3. QED
  BY <1>1, <1>2

\* A sequence without repetitions is no longer than its elements are many.
LEMMA NoLonger ==
  ASSUME NEW s \in Seq(Ids), IsInjective(s)
  PROVE  Len(s) <= Cardinality(Ids)
<1>1. Len(s) \in Nat /\ s \in [1..Len(s) -> Ids]
  BY LenProperties
<1>2. s \in Injection(1..Len(s), Ids)
  BY <1>1 DEF Injection, IsInjective
<1>3. Cardinality(1..Len(s)) <= Cardinality(Ids)
  BY <1>2, IdsAssumption, FS_Injection
<1>4. Cardinality(1..Len(s)) = Len(s)
  BY <1>1, FS_Interval
<1>5. QED
  BY <1>3, <1>4

\* SetToSeqs puts every element of a set into one place.
LEMMA Enumerates ==
  ASSUME NEW T \in SUBSET Ids, NEW s \in SetToSeqs(T)
  PROVE  s \in Seq(Ids) /\ IsInjective(s) /\ ToSet(s) = T
<1>1. IsFiniteSet(T) /\ Cardinality(T) \in Nat
  BY IdsAssumption, FS_Subset, FS_CardinalityType
<1>2. s \in [1..Cardinality(T) -> T] /\ \A i, j \in 1..Cardinality(T) : i # j => s[i] # s[j]
  BY DEF SetToSeqs
<1>3. s \in Injection(1..Cardinality(T), T)
  BY <1>2 DEF Injection, IsInjective
<1>4. Cardinality(1..Cardinality(T)) = Cardinality(T)
  BY <1>1, FS_Interval
<1>5. s \in Surjection(1..Cardinality(T), T)
  BY <1>1, <1>3, <1>4, FS_Injection
<1>6. ToSet(s) = T
  BY <1>2, <1>5 DEF ToSet, Surjection
<1>7. s \in Seq(T) /\ s \in Seq(Ids)
  BY <1>1, <1>2
<1>8. QED
  BY <1>2, <1>3, <1>6, <1>7 DEF Injection

\* The next row moves from those that are left to those that are there.
LEMMA Shifts ==
  ASSUME NEW T, NEW got \in Seq(T), NEW left \in Seq(T), left # <<>>
  PROVE  /\ Append(got, Head(left)) \in Seq(T) /\ Tail(left) \in Seq(T)
         /\ Append(got, Head(left)) \o Tail(left) = got \o left
<1> DEFINE more == Append(got, Head(left))  rest == Tail(left)
<1>1. /\ Head(left) \in T /\ rest \in Seq(T) /\ Len(rest) = Len(left) - 1
      /\ \A i \in 1..Len(rest) : rest[i] = left[i + 1]
      /\ Head(left) = left[1]
  BY HeadTailProperties
<1>2. /\ more \in Seq(T) /\ Len(more) = Len(got) + 1
      /\ \A i \in 1..Len(more) : more[i] = IF i <= Len(got) THEN got[i] ELSE Head(left)
  BY <1>1, AppendProperties
<1>3. Len(got) \in Nat /\ Len(left) \in Nat /\ Len(rest) \in Nat
  BY <1>1, LenProperties
<1>4. /\ got \o left \in Seq(T) /\ Len(got \o left) = Len(got) + Len(left)
      /\ \A i \in 1..(Len(got) + Len(left)) :
            (got \o left)[i] = IF i <= Len(got) THEN got[i] ELSE left[i - Len(got)]
  BY ConcatProperties
<1>5. /\ more \o rest \in Seq(T) /\ Len(more \o rest) = Len(more) + Len(rest)
      /\ \A i \in 1..(Len(more) + Len(rest)) :
            (more \o rest)[i] = IF i <= Len(more) THEN more[i] ELSE rest[i - Len(more)]
  BY <1>1, <1>2, ConcatProperties
<1> HIDE DEF more, rest
<1>6. Len(more \o rest) = Len(got \o left)
  BY <1>1, <1>2, <1>3, <1>4, <1>5
<1>7. ASSUME NEW i \in 1..Len(more \o rest)
      PROVE  (more \o rest)[i] = (got \o left)[i]
  <2>1. i \in Int /\ i >= 1 /\ i <= Len(got) + Len(left)
    BY <1>3, <1>4, <1>6
  <2>2. CASE i <= Len(got)
    BY <1>1, <1>2, <1>3, <1>4, <1>5, <2>1, <2>2
  <2>3. CASE i = Len(got) + 1
    BY <1>1, <1>2, <1>3, <1>4, <1>5, <2>1, <2>3
  <2>4. CASE i > Len(got) + 1
    <3>1. i - Len(more) \in 1..Len(rest) /\ i - Len(more) + 1 = i - Len(got)
      BY <1>1, <1>2, <1>3, <2>1, <2>4
    <3>2. rest[i - Len(more)] = left[i - Len(got)]
      BY <1>1, <3>1
    <3>3. (more \o rest)[i] = rest[i - Len(more)]
      BY <1>1, <1>2, <1>3, <1>5, <2>1, <2>4
    <3>4. (got \o left)[i] = left[i - Len(got)]
      BY <1>3, <1>4, <2>1, <2>4
    <3>5. QED BY <3>2, <3>3, <3>4
  <2>5. QED BY <1>3, <2>1, <2>2, <2>3, <2>4
<1>8. more \o rest = got \o left
  BY <1>4, <1>5, <1>6, <1>7, SeqEqual
<1>9. QED
  BY <1>1, <1>2, <1>8 DEF more, rest

\* The WHERE clause selects what the client asks for.
LEMMA MatchesAsks ==
  ASSUME NEW f, NEW res, Resource(res)
  PROVE  Matches(f, res) <=> Asks(f, res)
<1>1. ASSUME NEW t \in ResourceTypes
      PROVE  TypeMatches(f.types, t) <=> f.types = {} \/ ServiceTypeToProto(t) \in f.types
  BY DEF TypeMatches, ProtoTypeToService, ServiceTypeToProto, ResourceTypes
<1>2. QED
  BY <1>1 DEF Matches, Asks, Resource

\* TypeOK of the lists.
ListsTyped == list \in [Readers -> Lists \cup {NoList}]

\* The fields of a list in flight.
LEMMA ListFields ==
  ASSUME NEW l \in Lists
  PROVE  /\ l.at \in {"select", "rows", "done"} /\ l.filter \in Filters
         /\ l.left \in BoundedSeq(Ids, Cardinality(Ids))
         /\ l.got \in BoundedSeq(Ids, Cardinality(Ids))
         /\ l.code \in Codes \cup {"none"} /\ l.seen \in SUBSET SUBSET Ids
         /\ l = [at |-> l.at, filter |-> l.filter, left |-> l.left, got |-> l.got,
                 code |-> l.code, seen |-> l.seen]
BY DEF Lists

\* Two fields are set one after the other: as a list ends,
LEMMA EndFields ==
  ASSUME NEW l \in Lists, NEW x, NEW y
  PROVE  [l EXCEPT !.at = x, !.code = y] =
            [at |-> x, filter |-> l.filter, left |-> l.left, got |-> l.got, code |-> y, seen |-> l.seen]
<1>1. l = [at |-> l.at, filter |-> l.filter, left |-> l.left, got |-> l.got, code |-> l.code, seen |-> l.seen]
  BY ListFields
<1>2. PICK k : k = [l EXCEPT !.at = x]
  OBVIOUS
<1>3. k = [at |-> x, filter |-> l.filter, left |-> l.left, got |-> l.got, code |-> l.code, seen |-> l.seen]
  BY <1>1, <1>2
<1>4. [k EXCEPT !.code = y] = [at |-> x, filter |-> l.filter, left |-> l.left, got |-> l.got, code |-> y, seen |-> l.seen]
  BY <1>3
<1>5. [l EXCEPT !.at = x, !.code = y] = [k EXCEPT !.code = y]
  BY <1>2
<1>6. QED
  BY <1>4, <1>5

\* as its SELECT returns,
LEMMA RowsFields ==
  ASSUME NEW l \in Lists, NEW x, NEW y
  PROVE  [l EXCEPT !.at = x, !.left = y] =
            [at |-> x, filter |-> l.filter, left |-> y, got |-> l.got, code |-> l.code, seen |-> l.seen]
<1>1. l = [at |-> l.at, filter |-> l.filter, left |-> l.left, got |-> l.got, code |-> l.code, seen |-> l.seen]
  BY ListFields
<1>2. PICK k : k = [l EXCEPT !.at = x]
  OBVIOUS
<1>3. k = [at |-> x, filter |-> l.filter, left |-> l.left, got |-> l.got, code |-> l.code, seen |-> l.seen]
  BY <1>1, <1>2
<1>4. [k EXCEPT !.left = y] = [at |-> x, filter |-> l.filter, left |-> y, got |-> l.got, code |-> l.code, seen |-> l.seen]
  BY <1>3
<1>5. [l EXCEPT !.at = x, !.left = y] = [k EXCEPT !.left = y]
  BY <1>2
<1>6. QED
  BY <1>4, <1>5

\* and as a row arrives.
LEMMA NextFields ==
  ASSUME NEW l \in Lists, NEW x, NEW y
  PROVE  [l EXCEPT !.left = x, !.got = y] =
            [at |-> l.at, filter |-> l.filter, left |-> x, got |-> y, code |-> l.code, seen |-> l.seen]
<1>1. l = [at |-> l.at, filter |-> l.filter, left |-> l.left, got |-> l.got, code |-> l.code, seen |-> l.seen]
  BY ListFields
<1>2. PICK k : k = [l EXCEPT !.left = x]
  OBVIOUS
<1>3. k = [at |-> l.at, filter |-> l.filter, left |-> x, got |-> l.got, code |-> l.code, seen |-> l.seen]
  BY <1>1, <1>2
<1>4. [k EXCEPT !.got = y] = [at |-> l.at, filter |-> l.filter, left |-> x, got |-> y, code |-> l.code, seen |-> l.seen]
  BY <1>3
<1>5. [l EXCEPT !.left = x, !.got = y] = [k EXCEPT !.got = y]
  BY <1>2
<1>6. QED
  BY <1>4, <1>5

\* One reader makes a step, and nobody else.
LEMMA ReaderMoves ==
  ASSUME IInv, NEW r \in Readers, NEW next \in Lists \cup {NoList},
         ReaderStep(r, next), Right(next)
  PROVE  IInv'
<1>1. /\ list' = [list EXCEPT ![r] = next]
      /\ UNCHANGED <<store, job, clock, began, created, updated, saw, older>>
  BY DEF ReaderStep, stamps
<1>2. TypeOK'
  BY <1>1 DEF IInv, TypeOK
<1>3. Shaped' /\ Timeline' /\ Born' = Born
  BY <1>1 DEF IInv, Shaped, Timeline, Stamped, Saw, Born
<1>4. ASSUME NEW l, Right(l) PROVE Right(l)'
  BY <1>1, <1>3, <1>4 DEF Right, Complete
<1>5. ASSUME NEW q \in Readers PROVE Right(list[q])'
  <2>1. CASE q = r
    <3>1. list'[q] = next
      BY <1>1, <2>1 DEF IInv, TypeOK
    <3>2. Right(next)'
      BY <1>4
    <3>3. QED BY <3>1, <3>2 DEF Right
  <2>2. CASE q # r
    <3>1. PICK l : l = list[q]
      OBVIOUS
    <3>2. list'[q] = l
      BY <1>1, <2>2, <3>1 DEF IInv, TypeOK
    <3>3. Right(l)'
      BY <1>4, <3>1 DEF IInv
    <3>4. QED BY <3>2, <3>3 DEF Right
  <2>3. QED BY <2>1, <2>2
<1>6. QED
  BY <1>2, <1>3, <1>5 DEF IInv

\* A reader asks: what matches now is one of the answers that are right.
LEMMA ListInv == ASSUME IInv, NEW r \in Readers, List(r) PROVE IInv'
<1>1. PICK f \in Filters :
         LET new == [at |-> "select", filter |-> f, left |-> <<>>, got |-> <<>>, code |-> "none",
                     seen |-> {{id \in Ids : Asks(f, store[id])}}]
         IN ReaderStep(r, IF Known(f.types) THEN new
                          ELSE [new EXCEPT !.at = "done", !.code = "InvalidArgument"])
  BY DEF List
<1>2. PICK T : T = {id \in Ids : Asks(f, store[id])}
  OBVIOUS
<1> DEFINE new == [at |-> "select", filter |-> f, left |-> <<>>, got |-> <<>>, code |-> "none", seen |-> {T}]
           refused == [at |-> "done", filter |-> f, left |-> <<>>, got |-> <<>>,
                       code |-> "InvalidArgument", seen |-> {T}]
<1>3. new \in Lists /\ refused \in Lists
  <2>1. <<>> \in BoundedSeq(Ids, Cardinality(Ids))
    <3>1. <<>> \in Seq(Ids) /\ Len(<<>>) = 0 /\ Cardinality(Ids) \in Nat
      BY EmptySeq, IdsAssumption, FS_CardinalityType
    <3>2. Len(<<>>) <= Cardinality(Ids)
      BY <3>1
    <3>3. QED BY <3>1, <3>2, Bounded
  <2>2. {T} \in SUBSET SUBSET Ids
    BY <1>2
  <2>3. QED BY <2>1, <2>2 DEF Lists, Codes
<1>4. ReaderStep(r, new) \/ ReaderStep(r, refused)
  <2>1. PICK l : l = new
    OBVIOUS
  <2>2. l \in Lists
    BY <1>3, <2>1
  <2>3. [l EXCEPT !.at = "done", !.code = "InvalidArgument"] =
           [at |-> "done", filter |-> l.filter, left |-> l.left, got |-> l.got,
            code |-> "InvalidArgument", seen |-> l.seen]
    BY <2>2, EndFields
  <2>4. [new EXCEPT !.at = "done", !.code = "InvalidArgument"] = refused
    BY <2>1, <2>3
  <2>5. QED BY <1>1, <1>2, <2>4
<1>5. Right(new) /\ Right(refused)
  BY <1>2 DEF Right
<1> HIDE DEF new, refused
<1>6. QED
  BY <1>3, <1>4, <1>5, ReaderMoves

\* A reader has its answer; of one that is answered OK the list is complete.
LEMMA AnswerInv ==
  ASSUME IInv, NEW r \in Readers, list[r].at \in {"select", "rows"}, NEW code \in Codes, Answer(r, code),
         code = "OK" => list[r].at = "rows" /\ list[r].left = <<>>
  PROVE  IInv'
<1>1. PICK l : l = list[r]
  OBVIOUS
<1>2. l \in Lists
  BY <1>1 DEF IInv, TypeOK, NoList
<1> DEFINE next == [at |-> "done", filter |-> l.filter, left |-> l.left, got |-> l.got,
                    code |-> code, seen |-> l.seen]
<1>3. [l EXCEPT !.at = "done", !.code = code] = next
  BY <1>2, EndFields
<1>4. ReaderStep(r, next)
  BY <1>1, <1>3 DEF Answer
<1>5. next \in Lists
  BY <1>2, ListFields DEF Lists
<1>6. ASSUME code = "OK" PROVE Complete(l.got, l.seen)
  <2>1. Complete(l.got \o l.left, l.seen) /\ l.left = <<>>
    BY <1>1, <1>6 DEF IInv, Right
  <2>2. l.got \in Seq(Ids)
    <3>1. Cardinality(Ids) \in Nat /\ l.got \in BoundedSeq(Ids, Cardinality(Ids))
      BY <1>2, ListFields, IdsAssumption, FS_CardinalityType
    <3>2. QED BY <3>1, Bounded
  <2>3. QED BY <2>1, <2>2, ConcatEmptySeq
<1>7. Right(next)
  BY <1>6 DEF Right
<1> HIDE DEF next
<1>8. QED
  BY <1>4, <1>5, <1>7, ReaderMoves

\* The SELECT returns each row that matches once, the youngest first.
LEMMA SelectInv == ASSUME IInv, NEW r \in Readers, Select(r) PROVE IInv'
<1>1. PICK l : l = list[r]
  OBVIOUS
<1>2. l \in Lists /\ l.at = "select"
  BY <1>1 DEF IInv, TypeOK, NoList, Select
<1>3. PICK T : T = {id \in Ids : Matches(l.filter, store[id])}
  OBVIOUS
<1>4. PICK s \in SetToSeqs(T) : NewestFirst(s) /\ ReaderStep(r, [l EXCEPT !.at = "rows", !.left = s])
  BY <1>1, <1>3 DEF Select
<1> DEFINE next == [at |-> "rows", filter |-> l.filter, left |-> s, got |-> l.got,
                    code |-> l.code, seen |-> l.seen]
<1>5. [l EXCEPT !.at = "rows", !.left = s] = next
  BY <1>2, RowsFields
<1>6. s \in Seq(Ids) /\ IsInjective(s) /\ ToSet(s) = T
  BY <1>3, Enumerates
<1>7. next \in Lists
  <2>1. Cardinality(Ids) \in Nat
    BY IdsAssumption, FS_CardinalityType
  <2>2. s \in BoundedSeq(Ids, Cardinality(Ids))
    BY <1>6, <2>1, Bounded, NoLonger
  <2>3. QED BY <1>2, <2>2, ListFields DEF Lists
<1>8. T \in l.seen /\ l.got = <<>>
  <2>1. \A id \in Ids : Matches(l.filter, store[id]) <=> Asks(l.filter, store[id])
    BY MatchesAsks DEF IInv, Shaped, Resource
  <2>2. T = {id \in Ids : Asks(l.filter, store[id])}
    BY <1>3, <2>1
  <2>3. QED BY <1>1, <1>2, <2>2 DEF IInv, Right
<1>9. ASSUME NEW i \in DOMAIN s PROVE s[i] \in Born
  <2>1. s[i] \in T
    BY <1>6, <1>9 DEF ToSet
  <2>2. QED BY <1>3, <2>1 DEF Matches, Born
<1>10. ASSUME NEW i \in DOMAIN s, NEW j \in DOMAIN s, i < j PROVE s[i] \notin older[s[j]]
  <2>1. created[s[i]] >= created[s[j]]
    BY <1>4, <1>10 DEF NewestFirst
  <2>2. s[i] \in Ids /\ s[j] \in Ids
    BY <1>9 DEF Born
  <2>3. created[s[i]] \in Int /\ created[s[j]] \in Int
    BY <2>2, Numbers DEF IInv, TypeOK, WritersTyped
  <2>4. s[i] \in older[s[j]] => created[s[i]] < created[s[j]]
    BY <2>2 DEF IInv, Timeline
  <2>5. QED BY <2>1, <2>3, <2>4
<1>11. Complete(s, l.seen)
  BY <1>6, <1>8, <1>9, <1>10 DEF Complete
<1>12. Right(next)
  <2>1. <<>> \o s = s
    BY <1>6, ConcatEmptySeq
  <2>2. QED BY <1>8, <1>11, <2>1 DEF Right
<1> HIDE DEF next
<1>13. ReaderStep(r, next)
  BY <1>4, <1>5
<1>14. QED
  BY <1>7, <1>12, <1>13, ReaderMoves

\* A row arrives.
LEMMA NextRowInv == ASSUME IInv, NEW r \in Readers, NextRow(r) PROVE IInv'
<1>1. PICK l : l = list[r]
  OBVIOUS
<1>2. l \in Lists /\ l.at = "rows" /\ l.left # <<>>
  BY <1>1 DEF IInv, TypeOK, NoList, NextRow
<1> DEFINE more == Append(l.got, Head(l.left))
           next == [at |-> l.at, filter |-> l.filter, left |-> Tail(l.left), got |-> more,
                    code |-> l.code, seen |-> l.seen]
<1>3. [l EXCEPT !.left = Tail(@), !.got = Append(@, Head(l.left))] = next
  <2>1. PICK rest, all : rest = Tail(l.left) /\ all = more
    OBVIOUS
  <2>2. [l EXCEPT !.left = rest, !.got = all] =
           [at |-> l.at, filter |-> l.filter, left |-> rest, got |-> all, code |-> l.code, seen |-> l.seen]
    BY <1>2, NextFields
  <2>3. QED BY <2>1, <2>2
<1>4. ReaderStep(r, next)
  BY <1>1, <1>3 DEF NextRow
<1>5. Cardinality(Ids) \in Nat /\ l.got \in Seq(Ids) /\ l.left \in Seq(Ids)
  <2>1. Cardinality(Ids) \in Nat
    BY IdsAssumption, FS_CardinalityType
  <2>2. l.got \in BoundedSeq(Ids, Cardinality(Ids)) /\ l.left \in BoundedSeq(Ids, Cardinality(Ids))
    BY <1>2, ListFields
  <2>3. QED BY <2>1, <2>2, Bounded
<1>6. /\ more \in Seq(Ids) /\ Tail(l.left) \in Seq(Ids)
      /\ more \o Tail(l.left) = l.got \o l.left
  BY <1>2, <1>5, Shifts
<1>7. Complete(l.got \o l.left, l.seen)
  BY <1>1, <1>2 DEF IInv, Right
<1>8. Len(more) + Len(Tail(l.left)) <= Cardinality(Ids)
  <2>1. Len(l.got \o l.left) <= Cardinality(Ids)
    BY <1>7, NoLonger DEF Complete
  <2>2. Len(more \o Tail(l.left)) = Len(more) + Len(Tail(l.left))
    BY <1>6, ConcatProperties
  <2>3. QED BY <1>6, <2>1, <2>2
<1>9. next \in Lists
  <2>1. Len(more) \in Nat /\ Len(Tail(l.left)) \in Nat
    BY <1>6, LenProperties
  <2>2. Len(more) <= Cardinality(Ids) /\ Len(Tail(l.left)) <= Cardinality(Ids)
    <3> HIDE DEF more, next
    <3>1. QED BY <1>5, <1>8, <2>1
  <2>3. more \in BoundedSeq(Ids, Cardinality(Ids)) /\ Tail(l.left) \in BoundedSeq(Ids, Cardinality(Ids))
    BY <1>5, <1>6, <2>2, Bounded
  <2>4. QED BY <1>2, <2>3, ListFields DEF Lists
<1>10. Right(next)
  BY <1>2, <1>6, <1>7 DEF Right
<1> HIDE DEF next
<1>11. QED
  BY <1>4, <1>9, <1>10, ReaderMoves

\* Every step of a reader.
LEMMA ReaderInv ==
  ASSUME IInv, NEW r \in Readers,
         \/ List(r) \/ Select(r) \/ NextRow(r) \/ NoMoreRows(r)
         \/ RowsBreak(r) \/ SelectFails(r) \/ Return(r)
  PROVE  IInv'
<1>1. CASE NoMoreRows(r) \/ RowsBreak(r) \/ SelectFails(r)
  BY <1>1, AnswerInv DEF NoMoreRows, RowsBreak, SelectFails, Codes
<1>2. CASE Return(r)
  <2>1. NoList \in Lists \cup {NoList} /\ Right(NoList)
    BY DEF NoList, Right
  <2>2. QED BY <1>2, <2>1, ReaderMoves DEF Return
<1>3. QED
  BY <1>1, <1>2, ListInv, SelectInv, NextRowInv

-----------------------------------------------------------------------------
(* The inductive invariant.                                                *)

\* TypeOK is about the writers and about the lists.
LEMMA WritersAndLists == (TypeOK <=> WritersTyped /\ ListsTyped) /\ (IInv => Writers)
BY DEF TypeOK, WritersTyped, ListsTyped, IInv, Writers

\* A COMMIT neither ends the life of an id nor changes who is older than it.
LEMMA ApplyKeepsAges ==
  ASSUME Writers, NEW c \in Calls, Apply(c)
  PROVE  /\ Born \subseteq Born'
         /\ \A id \in Born : older'[id] = older[id]
<1>1. PICK me \in Ids :
         /\ Target(c, me)
         /\ older' = [older EXCEPT ![me] = IF job[c].op # "create" THEN older[me]
                                          ELSE {i \in Ids : saw[c][i] # -1}]
  BY DEF Apply
<1>2. /\ \A i \in Ids \ {me} : store'[i] = store[i]
      /\ store'[me].life # "unborn"
      /\ job[c].op = "create" <=> store[me].life = "unborn"
  BY <1>1, StoreEffect DEF Apply
<1>3. Born \subseteq Born'
  BY <1>2 DEF Born
<1>4. \A id \in Born : id \in Ids /\ (id = me => job[c].op # "create")
  BY <1>2 DEF Born
<1>5. QED
  BY <1>1, <1>3, <1>4 DEF Writers, WritersTyped

\* A list whose rows are complete stays so, whatever is committed.
LEMMA StaysComplete ==
  ASSUME NEW s, NEW seen, Complete(s, seen), Born \subseteq Born',
         \A id \in Born : older'[id] = older[id]
  PROVE  Complete(s, seen)'
BY DEF Complete

\* The store and the list of a reader after a COMMIT.
LEMMA ApplyLists ==
  ASSUME IInv, NEW c \in Calls, Apply(c), NEW r \in Readers
  PROVE  list'[r] \in Lists \cup {NoList} /\ Right(list[r])'
<1>1. PICK l : l = list[r]
  OBVIOUS
<1>2. PICK X : X = {id \in Ids : Asks(l.filter, store'[id])}
  OBVIOUS
<1>3. list'[r] = IF l.at = "select" THEN [l EXCEPT !.seen = @ \cup {X}] ELSE l
  BY <1>1, <1>2 DEF Apply, Watch
<1>4. l \in Lists \cup {NoList} /\ Right(l)
  BY <1>1 DEF IInv, TypeOK
<1>5. CASE l.at = "select"
  <2>1. l \in Lists
    BY <1>4, <1>5 DEF NoList
  <2>2. PICK next : next = [l EXCEPT !.seen = @ \cup {X}]
    OBVIOUS
  <2>3. next = [at |-> l.at, filter |-> l.filter, left |-> l.left, got |-> l.got,
                code |-> l.code, seen |-> l.seen \cup {X}]
    BY <2>1, <2>2, ListFields
  <2>4. next \in Lists
    <3>1. X \in SUBSET Ids
      BY <1>2
    <3>2. QED BY <2>1, <2>3, <3>1, ListFields DEF Lists
  <2>5. next.at = "select" /\ next.got = <<>> /\ next.filter = l.filter /\ X \in next.seen
    BY <1>4, <1>5, <2>3 DEF Right
  <2>6. Right(next)'
    BY <1>2, <2>5 DEF Right
  <2>7. list'[r] = next
    BY <1>3, <1>5, <2>2
  <2>8. QED BY <2>4, <2>6, <2>7 DEF Right
<1>6. CASE l.at # "select"
  <2>1. Born \subseteq Born' /\ \A id \in Born : older'[id] = older[id]
    BY ApplyKeepsAges, WritersAndLists
  <2>2. \A s, seen : Complete(s, seen) => Complete(s, seen)'
    BY <2>1, StaysComplete
  <2>3. Right(l)'
    BY <1>4, <1>6, <2>2 DEF Right
  <2>4. list'[r] = l
    BY <1>3, <1>6
  <2>5. QED BY <1>4, <2>3, <2>4 DEF Right
<1>7. QED
  BY <1>5, <1>6

\* A COMMIT keeps the invariant.
LEMMA ApplyInv == ASSUME IInv, NEW c \in Calls, Apply(c) PROVE IInv'
<1>1. Writers'
  BY ApplyWriters, WritersAndLists
<1>2. DOMAIN list' = Readers /\ list' = [r \in Readers |-> list'[r]]
  BY DEF Apply, Watch
<1>3. \A r \in Readers : list'[r] \in Lists \cup {NoList} /\ Right(list[r])'
  BY ApplyLists
<1>4. ListsTyped'
  BY <1>2, <1>3 DEF ListsTyped
<1>5. QED
  BY <1>1, <1>3, <1>4 DEF IInv, TypeOK, Writers, WritersTyped, ListsTyped

\* Every other step of a writer leaves the store and the lists alone.
LEMMA WriterInv ==
  ASSUME IInv, NEW c \in Calls, Ask(c) \/ Begin(c) \/ Drop(c)
  PROVE  IInv'
<1>1. Writers'
  BY AskWriters, BeginWriters, DropWriters, WritersAndLists
<1>2. UNCHANGED <<store, older, list>>
  BY DEF Ask, S!Ask, Begin, Drop
<1>3. ASSUME NEW l, Right(l) PROVE Right(l)'
  BY <1>2, <1>3 DEF Right, Complete, Born
<1>4. ASSUME NEW r \in Readers PROVE Right(list[r])'
  <2>1. PICK l : l = list[r]
    OBVIOUS
  <2>2. Right(l)'
    BY <1>3, <2>1 DEF IInv
  <2>3. list'[r] = l
    BY <1>2, <2>1
  <2>4. QED BY <2>2, <2>3 DEF Right
<1>5. ListsTyped'
  BY <1>2 DEF IInv, TypeOK, ListsTyped
<1>6. QED
  BY <1>1, <1>4, <1>5 DEF IInv, TypeOK, Writers, WritersTyped, ListsTyped

\* The invariant holds before anybody has asked.
LEMMA InitInv == Init => IInv
<1> SUFFICES ASSUME Init PROVE IInv
  OBVIOUS
<1>1. MaxTime \in Nat /\ 0 \in 0..MaxTime /\ -1 \in -1..MaxTime
  BY TimeAssumption
<1>2. TypeOK
  BY <1>1 DEF Init, TypeOK, Nothing
<1>3. Born = {} /\ Shaped
  BY DEF Init, Born, Shaped, S!Absent
<1>4. Timeline
  <2>1. \A c \in Calls : began[c] = -1 /\ job[c] = NoJob
    BY DEF Init
  <2>2. \A c \in Calls, id \in Ids : saw[c][id] = -1
    BY DEF Init, Nothing
  <2>3. \A id \in Ids : older[id] = {}
    BY DEF Init
  <2>4. clock = 0
    BY DEF Init
  <2>5. QED BY <1>3, <2>1, <2>2, <2>3, <2>4 DEF Timeline, Saw
<1>5. \A r \in Readers : Right(list[r])
  BY DEF Init, NoList, Right
<1>6. QED
  BY <1>2, <1>3, <1>4, <1>5 DEF IInv

\* The invariant is inductive.
LEMMA Inductive == IInv /\ [Next]_vars => IInv'
<1> SUFFICES ASSUME IInv, [Next]_vars PROVE IInv'
  OBVIOUS
<1>1. ASSUME NEW c \in Calls, Ask(c) \/ Begin(c) \/ Apply(c) \/ Drop(c) PROVE IInv'
  BY <1>1, WriterInv, ApplyInv
<1>2. ASSUME NEW r \in Readers,
             \/ List(r) \/ Select(r) \/ NextRow(r) \/ NoMoreRows(r)
             \/ RowsBreak(r) \/ SelectFails(r) \/ Return(r)
      PROVE  IInv'
  BY <1>2, ReaderInv
<1>3. CASE UNCHANGED vars
  <2>1. UNCHANGED <<store, job, clock, began, created, updated, saw, older, list>>
    BY <1>3 DEF vars, stamps
  <2>2. TypeOK'
    BY <2>1 DEF IInv, TypeOK
  <2>3. Shaped' /\ Timeline'
    BY <2>1 DEF IInv, Shaped, Timeline, Stamped, Saw, Born
  <2>4. \A r \in Readers : Right(list[r])'
    BY <2>1 DEF IInv, Right, Complete, Born
  <2>5. QED BY <2>2, <2>3, <2>4 DEF IInv
<1>4. QED
  BY <1>1, <1>2, <1>3 DEF Next

\* The invariant holds in every state that is reached.
THEOREM Invariance == Spec => []IInv
<1>1. Init => IInv
  BY InitInv
<1>2. IInv /\ [Next]_vars => IInv'
  BY Inductive
<1>3. QED
  BY <1>1, <1>2, PTL DEF Spec

\* Stamps, histories and lists keep their types.
THEOREM TypeCorrectness == Spec => []TypeOK
<1>1. IInv => TypeOK
  BY DEF IInv
<1>2. QED
  BY <1>1, Invariance, PTL

\* A list that is answered OK has, once each, the resources that matched at
\* one moment between its arrival and its SELECT (GetResources,
\* GetAvailableResourcesByTypes and rows.Err of the repository).
THEOREM ListsAreSnapshots == Spec => []ListIsASnapshot
<1>1. IInv => ListIsASnapshot
  BY DEF IInv, Right, Complete, ListIsASnapshot, Listed
<1>2. QED
  BY <1>1, Invariance, PTL

\* ORDER BY created_at DESC lists a resource above those that the client who
\* asked for it could know of.
THEOREM YoungerFirst == Spec => []YoungerComesFirst
<1>1. IInv => YoungerComesFirst
  BY DEF IInv, Right, Complete, YoungerComesFirst, Listed
<1>2. QED
  BY <1>1, Invariance, PTL

\* updated_at is never before created_at, although both are moments at which
\* transactions began that overlapped.
THEOREM StampsMakeSense == Spec => []UpdatedAfterCreated
<1>1. IInv => UpdatedAfterCreated
  BY DEF IInv, Timeline, Stamped, UpdatedAfterCreated
<1>2. QED
  BY <1>1, Invariance, PTL

\* A COMMIT stamps with a moment that is not before any stamp its client saw.
LEMMA ApplyIsCausal ==
  ASSUME IInv, NEW c \in Calls, Apply(c), NEW d \in Calls, NEW id \in Ids,
         updated'[id] # updated[id], job[d] # NoJob, job'[d] = NoJob
  PROVE  updated'[id] >= saw[d][id]
<1>1. Writers
  BY WritersAndLists
<1>2. PICK me \in Ids : Target(c, me) /\ Stamp(c, me)
  BY DEF Apply
<1>3. /\ began[c] \in 0..MaxTime
      /\ \A i \in Ids \ {me} : updated'[i] = updated[i]
      /\ updated'[me] = IF Touches(job[c]) THEN began[c] ELSE updated[me]
      /\ saw[c][me] <= began[c]
  BY <1>1, <1>2, StampEffect
<1>4. d = c
  BY <1>1 DEF Apply, S!Apply, Writers, WritersTyped
<1>5. id = me /\ updated'[me] = began[c]
  BY <1>3
<1>6. saw[c][me] \in Int
  BY <1>1, Numbers DEF Writers
<1>7. QED
  BY <1>3, <1>4, <1>5, <1>6

\* A client that has seen a stamp of a resource and then writes the resource
\* does not make it look older than that.
THEOREM StampsAreCausal == Spec => StampsFollowCausality
<1> DEFINE A == \A c \in Calls, id \in Ids :
                   updated'[id] # updated[id] /\ job[c] # NoJob /\ job'[c] = NoJob =>
                      updated'[id] >= saw[c][id]
<1>1. ASSUME IInv, Next PROVE A
  <2>1. CASE UNCHANGED updated
    BY <2>1
  <2>2. CASE \E c \in Calls : Apply(c)
    BY <1>1, <2>2, ApplyIsCausal
  <2>3. QED
    BY <1>1, <2>1, <2>2 DEF Next, Ask, Begin, Drop, List, Select, NextRow, NoMoreRows,
       RowsBreak, SelectFails, Return, Answer, ReaderStep, stamps
<1>2. IInv /\ [Next]_vars => [A]_vars
  BY <1>1
<1>3. QED
  BY <1>2, Invariance, PTL DEF Spec, StampsFollowCausality
=============================================================================
