---------------------- MODULE ResourceStoreRefinement ----------------------
(***************************************************************************)
(* The SQL transactions of ResourceStore implement AtomicStore: under the  *)
(* mapping of the INSTANCE Atomic, every step of a call, of what is left    *)
(* of one in its session, or a crash is a request that arrives, takes      *)
(* effect whole, or is dropped, or nothing.                                *)
(* The mapped store is whole because of the invariants of                  *)
(* ResourceStoreProofs: what is committed without an error was on a row    *)
(* that the call had locked, with its details, or had just made.           *)
(***************************************************************************)
EXTENDS ResourceStoreProofs

\* The store and the jobs that the tables and the registers stand for.
AStore == [id \in Ids |-> Whole(id)]
AJob   == [c \in Calls |-> IF pc[c] \in Pending \cup {"sent"} THEN req[c] ELSE NoReq]

\* A resource is what stands in its row and in the row of its details.
LEMMA WholeKept ==
  ASSUME NEW id \in Ids, Live(id) => resources[id].type \in Types,
         resources'[id] = resources[id],
         \A t \in Types : details'[t][id] = details[t][id]
  PROVE  Whole(id)' = Whole(id)
BY DEF Whole, Live

\* A step that leaves the tables alone leaves the store alone.
LEMMA StoreKept ==
  ASSUME Tables, UNCHANGED tables
  PROVE  AStore' = AStore
<1>1. \A id \in Ids : Whole(id)' = Whole(id)
  BY DEF Whole, Live, tables
<1>2. QED
  BY <1>1 DEF AStore

\* A step that changes one resource.
LEMMA StoreChanged ==
  ASSUME Tables, NEW me \in Ids, NEW res, Whole(me)' = res,
         \A id \in Ids \ {me} :
            /\ resources'[id] = resources[id]
            /\ \A t \in Types : details'[t][id] = details[t][id]
  PROVE  AStore' = [AStore EXCEPT ![me] = res]
<1>1. \A id \in Ids \ {me} : Whole(id)' = Whole(id)
  BY WholeKept DEF Tables, Typed
<1>2. QED
  BY <1>1 DEF AStore

\* The end of a request, with or without an effect.
LEMMA JobEnds ==
  ASSUME TypeOK, NEW c \in Calls, pc'[c] \notin Pending \cup {"sent"},
         \A d \in Calls \ {c} : pc'[d] = pc[d] /\ req'[d] = req[d]
  PROVE  AJob' = [AJob EXCEPT ![c] = NoReq]
BY DEF AJob

\* A call that fails does what AtomicStore calls a drop.
LEMMA DropOne ==
  ASSUME NEW c \in Calls, AJob' = [AJob EXCEPT ![c] = NoReq], AStore' = AStore
  PROVE  Atomic!Drop
<1>1. AJob' = [d \in Calls |-> IF d \in {c} THEN NoReq ELSE AJob[d]]
  BY DEF AJob
<1>2. QED
  BY <1>1 DEF Atomic!Drop, AJob, AStore

\* A statement of a transaction does not show before the COMMIT.
LEMMA ExecutedStutters ==
  ASSUME Registers, Registers', Tables, NEW c \in Calls, Executed(c),
         \A d \in Calls \ {c} : pc'[d] = pc[d] /\ req'[d] = req[d]
  PROVE  UNCHANGED <<AStore, AJob>>
<1>1. /\ UNCHANGED tables /\ req'[c] = req[c] /\ pc[c] \in Pending /\ pc'[c] \in Pending
  BY DEF Executed, Pending, InTx
<1>2. \A d \in Calls : req'[d] = req[d] /\ (pc'[d] \in Pending \cup {"sent"} <=> pc[d] \in Pending \cup {"sent"})
  BY <1>1
<1>3. AJob' = AJob
  BY <1>2 DEF AJob
<1>4. QED
  BY <1>1, <1>3, StoreKept

\* A call that arrives asks, and so does a statement that is sent again.
LEMMA ArrivalAsks ==
  ASSUME Registers, Tables, NEW c \in Calls, Arrival(c)
  PROVE  Atomic!Ask(c)
<1>1. PICK r \in Requests, id \in Ids, label \in Pending \cup {"sent"} : Start(c, r, id, label)
  <2>1. CASE CreateResource(c)
    <3>1. "insert" \in Pending
      BY DEF Pending, InTx
    <3>2. QED BY <2>1, <3>1 DEF CreateResource
  <2>2. CASE UpdateResource(c)
    <3>1. PICK r \in Requests : /\ r.op = "update"
            /\ Start(c, r, r.id, IF r.mask = {} /\ r.kind = "none" THEN "commit" ELSE "base")
      BY <2>2 DEF UpdateResource
    <3>2. r.id \in Ids
      BY <3>1, RequestFields
    <3>3. (IF r.mask = {} /\ r.kind = "none" THEN "commit" ELSE "base") \in Pending
      BY DEF Pending, InTx
    <3>4. QED BY <3>1, <3>2, <3>3
  <2>3. CASE WriteOutsideTx(c)
    <3>1. PICK r \in Requests : r.op \in {"change", "delete"} /\ Start(c, r, r.id, "write")
      BY <2>3 DEF WriteOutsideTx
    <3>2. r.id \in Ids
      BY <3>1, RequestFields
    <3>3. "write" \in Pending
      BY DEF Pending
    <3>4. QED BY <3>1, <3>2, <3>3
  <2>4. CASE SentBefore(c)
    <3>1. PICK d \in Calls : pc[d] = "write" /\ Start(c, req[d], target[d], "sent")
      BY <2>4 DEF SentBefore
    <3>2. req[d] \in Requests /\ target[d] \in Ids
      BY <3>1 DEF Registers, AtStatement
    <3>3. QED BY <3>1, <3>2
  <2>5. QED BY <2>1, <2>2, <2>3, <2>4 DEF Arrival
<1>2. /\ pc[c] = "idle" /\ UNCHANGED tables
      /\ pc' = [pc EXCEPT ![c] = label] /\ req' = [req EXCEPT ![c] = r]
  BY <1>1 DEF Start, Goto
<1>3. AJob[c] = NoReq
  BY <1>2 DEF AJob, Pending, InTx
<1>4. AJob' = [AJob EXCEPT ![c] = r]
  BY <1>1, <1>2 DEF AJob, Registers, TypeOK
<1>5. AStore' = AStore
  BY <1>2, StoreKept
<1>6. QED
  BY <1>1, <1>3, <1>4, <1>5 DEF Atomic!Ask, AJob, AStore

\* CreateResource commits.
LEMMA CreateApplies ==
  ASSUME Registers, Tables, NEW c \in Calls, Commits(c), req[c].op = "create",
         AJob' = [AJob EXCEPT ![c] = NoReq]
  PROVE  Atomic!Apply(c)
<1>1. PICK me \in Ids, r \in Requests : me = target[c] /\ r = req[c]
  BY DEF Registers, AtStatement, Commits
<1>2. /\ r.kind = r.type /\ r.type \in Types /\ r # NoReq
  BY <1>1, RequestFields DEF Registers, AtStatement, Commits
<1>3. resources[me].life = "unborn"
  BY <1>1 DEF Tables, Fresh, InTx, Sessions, Unborn, Commits
<1>4. /\ \A id \in Ids \ {me} : resources'[id] = resources[id]
      /\ \A t \in Types, id \in Ids : t # r.kind \/ id # me => details'[t][id] = details[t][id]
      /\ details'[r.kind][me] = DetailsRow(r.val, r.serial)
      /\ resources'[me] = Row(r.type, r.val)
  BY <1>1, <1>2, CommitEffect, NoneIsNoType
<1>5. Whole(me)' = Atomic!Created(r)
  <2>1. /\ resources'[me].life = "live" /\ resources'[me].type = r.type
        /\ resources'[me].cols = [k \in Columns |-> r.val]
    BY <1>4 DEF Row
  <2>2. details'[r.type][me].val = r.val /\ details'[r.type][me].serial = r.serial
    BY <1>2, <1>4 DEF DetailsRow
  <2>3. QED BY <2>1, <2>2 DEF Whole, Live, Atomic!Created
<1>6. AStore' = [AStore EXCEPT ![me] = Atomic!Created(r)]
  BY <1>4, <1>5, StoreChanged
<1>7. AStore[me].life = "unborn"
  BY <1>3 DEF AStore, Whole, Live
<1>8. AJob[c] = r
  BY <1>1 DEF AJob, Pending, InTx, Commits
<1>9. QED
  BY <1>1, <1>2, <1>6, <1>7, <1>8 DEF Atomic!Apply, AJob, AStore

\* The columns that a request names, in the row and in the mapped store.
LEMMA OverwrittenWhole ==
  ASSUME TypeOK, NEW me \in Ids, NEW r \in Requests, Live(me),
         resources'[me] = Overwritten(resources[me], r)
  PROVE  /\ resources'[me].life = "live" /\ resources'[me].type = resources[me].type
         /\ resources'[me].cols = Atomic!Overwrite(resources[me].cols, r)
<1>1. resources[me] \in [life : {"unborn", "live", "gone"}, type : Types \cup {"none"},
                         cols : [Columns -> Vals \cup {Blank}]]
  BY DEF TypeOK
<1>2. /\ resources'[me].life = resources[me].life /\ resources'[me].type = resources[me].type
      /\ resources'[me].cols =
            [k \in Columns |-> IF k \in r.mask THEN r.val ELSE resources[me].cols[k]]
  BY <1>1 DEF Overwritten
<1>3. DOMAIN resources[me].cols = Columns
  BY <1>1
<1>4. QED
  BY <1>2, <1>3 DEF Live, Atomic!Overwrite

\* UpdateResource commits; with nothing to write it may find nothing.
LEMMA UpdateApplies ==
  ASSUME Registers, Tables, NEW c \in Calls, Commits(c), req[c].op = "update",
         AJob' = [AJob EXCEPT ![c] = NoReq]
  PROVE  Atomic!Apply(c) \/ Atomic!Drop
<1>1. PICK me \in Ids, r \in Requests : me = target[c] /\ r = req[c]
  BY DEF Registers, AtStatement, Commits
<1>2. /\ r.id = me /\ r # NoReq /\ r.kind \in Types \cup {"none"}
      /\ r.kind # "none" => "base" \in tx[c] /\ "details" \in tx[c]
      /\ "base" \notin tx[c] => r.kind = "none" /\ r.mask = {}
  BY <1>1, RequestFields DEF Registers, AtStatement, Commits, Complete
<1>3. /\ \A id \in Ids \ {me} : resources'[id] = resources[id]
      /\ \A t \in Types, id \in Ids : t # r.kind \/ id # me => details'[t][id] = details[t][id]
      /\ r.kind # "none" => details'[r.kind][me] = DetailsRow(r.val, r.serial)
      /\ resources'[me] = Overwritten(resources[me], r)
  BY <1>1, CommitEffect
<1>4. AJob[c] = r
  BY <1>1 DEF AJob, Pending, InTx, Commits
<1>5. Locked(c)
  BY DEF Tables
<1>6. CASE Live(me)
  <2>1. /\ resources'[me].life = "live" /\ resources'[me].type = resources[me].type
        /\ resources'[me].cols = Atomic!Overwrite(resources[me].cols, r)
    BY <1>3, <1>6, OverwrittenWhole DEF Registers
  <2>2. resources[me].type \in Types
    BY <1>6 DEF Tables, Typed
  <2>3. r.kind # "none" => r.kind = resources[me].type
    <3>1. r.kind # "none" => r.kind \in Types /\ details[r.kind][me].there
      BY <1>1, <1>2, <1>5 DEF Locked
    <3>2. QED BY <3>1 DEF Tables, RowsAreWhole
  <2> DEFINE det == [val |-> details[resources[me].type][me].val,
                     serial |-> details[resources[me].type][me].serial]
             new == IF r.kind = "none" THEN det ELSE [val |-> r.val, serial |-> r.serial]
  <2>4. [val |-> details'[resources'[me].type][me].val,
         serial |-> details'[resources'[me].type][me].serial] = new
    <3>1. CASE r.kind = "none"
      BY <1>3, <2>1, <2>2, <3>1, NoneIsNoType
    <3>2. CASE r.kind # "none"
      <4>1. details'[resources'[me].type][me] = DetailsRow(r.val, r.serial)
        BY <1>3, <2>1, <2>3, <3>2
      <4>2. QED BY <3>2, <4>1 DEF DetailsRow
    <3>3. QED BY <3>1, <3>2
  <2>5. Whole(me)' = [life |-> "live", type |-> resources[me].type,
                      cols |-> Atomic!Overwrite(resources[me].cols, r), details |-> new]
    BY <2>1, <2>4 DEF Whole, Live
  <2>6. Whole(me) = [life |-> "live", type |-> resources[me].type,
                     cols |-> resources[me].cols, details |-> det]
    BY <1>6 DEF Whole
  <2>7. Whole(me)' = Atomic!Updated(Whole(me), r)
    <3> DEFINE cols == Atomic!Overwrite(resources[me].cols, r)
    <3>1. Whole(me).cols = resources[me].cols /\ Whole(me).details = det
      BY <2>6
    <3>2. Atomic!Updated(Whole(me), r) = [Whole(me) EXCEPT !.cols = cols, !.details = new]
      BY <3>1 DEF Atomic!Updated
    <3> HIDE DEF cols, new, det
    <3>3. [Whole(me) EXCEPT !.cols = cols, !.details = new] =
             [[Whole(me) EXCEPT !.cols = cols] EXCEPT !.details = new]
      OBVIOUS
    <3>4. [Whole(me) EXCEPT !.cols = cols] =
             [life |-> "live", type |-> resources[me].type, cols |-> cols, details |-> det]
      BY <2>6
    <3>5. [[life |-> "live", type |-> resources[me].type, cols |-> cols, details |-> det]
              EXCEPT !.details = new] =
             [life |-> "live", type |-> resources[me].type, cols |-> cols, details |-> new]
      OBVIOUS
    <3>6. QED BY <2>5, <3>2, <3>3, <3>4, <3>5 DEF cols
  <2>8. AStore' = [AStore EXCEPT ![me] = Atomic!Updated(AStore[me], r)]
    <3>1. PICK res : res = Atomic!Updated(Whole(me), r)
      OBVIOUS
    <3>2. AStore[me] = Whole(me)
      BY DEF AStore
    <3>3. QED BY <1>3, <2>7, <3>1, <3>2, StoreChanged
  <2>9. AStore[me].life = "live" /\ AStore[me].type = resources[me].type
    BY <2>6 DEF AStore
  <2>10. QED
    BY <1>1, <1>2, <1>4, <2>3, <2>8, <2>9 DEF Atomic!Apply, Atomic!Live, AJob, AStore
<1>7. CASE ~Live(me)
  <2>1. "base" \notin tx[c]
    BY <1>1, <1>5, <1>7 DEF Locked
  <2>2. UNCHANGED tables
    BY <1>1, <1>2, <2>1 DEF Commits, Complete, Show, tables
  <2>3. QED BY <2>2, StoreKept, DropOne
<1>8. QED
  BY <1>6, <1>7

\* A change of status finds the resource.
LEMMA ChangeApplies ==
  ASSUME Registers, Tables, NEW c \in Calls, Changes(c),
         AJob' = [AJob EXCEPT ![c] = NoReq]
  PROVE  Atomic!Apply(c)
<1>1. pc[c] \in {"write", "sent"} /\ req[c].op = "change" /\ Live(target[c])
  BY DEF Changes, WriteRow
<1>2. PICK me \in Ids, r \in Requests : me = target[c] /\ r = req[c]
  BY <1>1 DEF Registers, AtStatement
<1>3. r.id = me /\ r # NoReq /\ AJob[c] = r
  BY <1>1, <1>2, RequestFields DEF Registers, AtStatement, AJob, Pending
<1>4. /\ details' = details
      /\ resources'[me] = Overwritten(resources[me], r)
      /\ \A id \in Ids \ {me} : resources'[id] = resources[id]
  BY <1>2, ChangeEffect
<1>5. /\ resources'[me].life = "live" /\ resources'[me].type = resources[me].type
      /\ resources'[me].cols = Atomic!Overwrite(resources[me].cols, r)
  BY <1>1, <1>2, <1>4, OverwrittenWhole DEF Registers
<1>6. Whole(me)' = [Whole(me) EXCEPT !.cols = Atomic!Overwrite(@, r)]
  <2>1. Whole(me) = [life |-> "live", type |-> resources[me].type, cols |-> resources[me].cols,
                     details |-> [val    |-> details[resources[me].type][me].val,
                                  serial |-> details[resources[me].type][me].serial]]
    BY <1>1, <1>2 DEF Whole
  <2>2. Whole(me)' = [life |-> "live", type |-> resources[me].type,
                      cols |-> Atomic!Overwrite(resources[me].cols, r),
                      details |-> [val    |-> details[resources[me].type][me].val,
                                   serial |-> details[resources[me].type][me].serial]]
    BY <1>4, <1>5 DEF Whole, Live
  <2>3. QED BY <2>1, <2>2
<1>7. AStore[me] = Whole(me) /\ AStore[me].life = "live"
  BY <1>1, <1>2 DEF AStore, Whole
<1>8. AStore' = [AStore EXCEPT ![me].cols = Atomic!Overwrite(@, r)]
  <2>1. PICK res : res = [Whole(me) EXCEPT !.cols = Atomic!Overwrite(@, r)]
    OBVIOUS
  <2>2. AStore' = [AStore EXCEPT ![me] = res]
    BY <1>4, <1>6, <2>1, StoreChanged
  <2>3. QED BY <1>7, <2>1, <2>2
<1>9. QED
  BY <1>1, <1>2, <1>3, <1>7, <1>8 DEF Atomic!Apply, Atomic!Live, AJob, AStore

\* A DELETE finds the resource.
LEMMA DeleteApplies ==
  ASSUME Registers, Tables, NEW c \in Calls, Deletes(c),
         AJob' = [AJob EXCEPT ![c] = NoReq]
  PROVE  Atomic!Apply(c)
<1>1. pc[c] \in {"write", "sent"} /\ req[c].op = "delete" /\ Live(target[c])
  BY DEF Deletes, WriteRow
<1>2. PICK me \in Ids, r \in Requests : me = target[c] /\ r = req[c]
  BY <1>1 DEF Registers, AtStatement
<1>3. r.id = me /\ r # NoReq /\ AJob[c] = r
  BY <1>1, <1>2, RequestFields DEF Registers, AtStatement, AJob, Pending
<1>4. /\ resources'[me] = NoRow("gone")
      /\ \A id \in Ids \ {me} :
            /\ resources'[id] = resources[id]
            /\ \A t \in Types : details'[t][id] = details[t][id]
  BY <1>2, DeleteEffect
<1>5. Whole(me)' = Atomic!Absent("gone")
  <2>1. NoRow("gone").life = "gone"
    BY DEF NoRow
  <2>2. QED BY <1>4, <2>1 DEF Whole, Live, Atomic!Absent
<1>6. AStore' = [AStore EXCEPT ![me] = Atomic!Absent("gone")]
  BY <1>4, <1>5, StoreChanged
<1>7. AStore[me].life = "live"
  BY <1>1, <1>2 DEF AStore, Whole
<1>8. QED
  BY <1>1, <1>2, <1>3, <1>6, <1>7 DEF Atomic!Apply, Atomic!Live, AJob, AStore

\* Of the calls that are over for the service, those that have not sent their
\* last statement are dropped; the others may still take effect.
LEMMA AbandonDrops ==
  ASSUME Registers, Tables, NEW C \in SUBSET Calls, Abandon(C)
  PROVE  Atomic!Drop
<1> DEFINE D == {d \in C : pc[d] \notin {"write", "commit", "sent"}}
<1>1. ASSUME NEW d \in Calls
      PROVE  AJob'[d] = IF d \in D THEN NoReq ELSE AJob[d]
  <2>1. /\ d \notin C => pc'[d] = pc[d] /\ req'[d] = req[d]
        /\ d \in C => pc'[d] = Remains(d)
        /\ d \in C /\ Remains(d) # "idle" => req'[d] = req[d]
    BY AbandonEffect
  <2>2. /\ pc[d] \in {"write", "commit", "sent"} => Remains(d) = "sent"
        /\ pc[d] \notin {"write", "commit", "sent"} => Remains(d) \in {"left", "idle"}
    BY DEF Remains
  <2>3. QED BY <2>1, <2>2 DEF AJob, Pending, InTx
<1>2. AJob' = [d \in Calls |-> IF d \in D THEN NoReq ELSE AJob[d]]
  BY <1>1 DEF AJob
<1>3. UNCHANGED tables
  BY DEF Abandon
<1>4. AStore' = AStore
  BY <1>3, StoreKept
<1>5. D \in SUBSET Calls
  OBVIOUS
<1>6. QED
  BY <1>2, <1>4, <1>5 DEF Atomic!Drop, AJob, AStore

\* Every step of ResourceStore is a step of AtomicStore, or none.
LEMMA RefinedStep ==
  ASSUME IInv, IInv', [Next]_vars
  PROVE  [Atomic!Next]_(Atomic!vars)
<1>1. Registers /\ Registers' /\ Tables
  BY DEF IInv
<1>2. CASE UNCHANGED vars
  <2>1. UNCHANGED tables /\ pc' = pc /\ req' = req
    BY <1>2 DEF vars, tables
  <2>2. AStore' = AStore /\ AJob' = AJob
    BY <1>1, <2>1, StoreKept DEF AJob
  <2>3. QED BY <2>2 DEF Atomic!vars, AStore, AJob
<1>3. ASSUME NEW C \in SUBSET Calls, Abandon(C)
      PROVE  [Atomic!Next]_(Atomic!vars)
  BY <1>1, <1>3, AbandonDrops DEF Atomic!Next
<1>4. ASSUME NEW c \in Calls, Arrival(c) \/ Step(c) \/ Abort(c)
      PROVE  [Atomic!Next]_(Atomic!vars)
  <2>1. \A d \in Calls \ {c} : pc'[d] = pc[d] /\ req'[d] = req[d]
    BY <1>1, <1>4, Bystander DEF Registers
  <2>2. CASE Executed(c)
    <3>1. AStore' = AStore /\ AJob' = AJob
      BY <1>1, <2>1, <2>2, ExecutedStutters
    <3>2. QED BY <3>1 DEF Atomic!vars, AStore, AJob
  <2>3. CASE Arrival(c)
    BY <1>1, <2>3, ArrivalAsks DEF Atomic!Next
  <2>4. CASE ~Executed(c) /\ ~Arrival(c)
    <3>1. /\ pc'[c] \notin Pending \cup {"sent"}
          /\ UNCHANGED tables \/ Commits(c) \/ Deletes(c) \/ Changes(c)
      BY <1>1, <1>4, <2>4, Steps DEF Aims, Sessions
    <3>2. AJob' = [AJob EXCEPT ![c] = NoReq]
      BY <1>1, <2>1, <3>1, JobEnds DEF Registers
    <3>3. CASE UNCHANGED tables
      BY <1>1, <3>2, <3>3, StoreKept, DropOne DEF Atomic!Next
    <3>4. CASE Commits(c)
      <4>1. req[c].op \in {"create", "update"}
        BY <3>4 DEF Commits, Complete
      <4>2. Atomic!Apply(c) \/ Atomic!Drop
        BY <1>1, <3>2, <3>4, <4>1, CreateApplies, UpdateApplies
      <4>3. QED BY <4>2 DEF Atomic!Next
    <3>5. CASE Deletes(c)
      BY <1>1, <3>2, <3>5, DeleteApplies DEF Atomic!Next
    <3>6. CASE Changes(c)
      BY <1>1, <3>2, <3>6, ChangeApplies DEF Atomic!Next
    <3>7. QED BY <3>1, <3>3, <3>4, <3>5, <3>6
  <2>5. QED BY <2>2, <2>3, <2>4
<1>5. QED
  BY <1>1, <1>2, <1>3, <1>4, Cases

\* The rows that ResourceStore starts with are a store of AtomicStore.
LEMMA RefinedInit == Init => Atomic!Init
<1> SUFFICES ASSUME Init PROVE Atomic!Init
  OBVIOUS
<1>1. PICK t \in [Ids -> Types \cup {"none"}] :
         resources = [id \in Ids |-> IF t[id] = "none" THEN NoRow("unborn") ELSE Row(t[id], Blank)]
  BY DEF Init
<1>2. ASSUME NEW id \in Ids
      PROVE  AStore[id].life \in {"unborn", "live"}
  <2>1. resources[id].life \in {"unborn", "live"}
    BY <1>1 DEF NoRow, Row
  <2>2. QED BY <2>1 DEF AStore, Whole, Live
<1>3. AJob = [c \in Calls |-> NoReq]
  BY DEF Init, AJob, Pending, InTx
<1>4. QED
  BY <1>2, <1>3 DEF Atomic!Init, AStore, AJob

\* The repository keeps the promise of AtomicStore, for any number of
\* concurrent calls, failures and crashes: a request of CreateResource,
\* UpdateResource, ChangeResourceStatus or DeleteResource takes effect whole
\* and at most once, be it in a session that its client has left, writes only
\* what it names, and only on a resource of its type. The statement that
\* ExecContext sends again is a request of its own.
THEOREM Refinement == Spec => ImplementsAtomicStore
<1>1. Init => Atomic!Init
  BY RefinedInit
<1>2. IInv /\ IInv' /\ [Next]_vars => [Atomic!Next]_(Atomic!vars)
  BY RefinedStep
<1>3. QED
  BY <1>1, <1>2, Invariance, PTL DEF Spec, ImplementsAtomicStore, Atomic!Spec
=============================================================================
