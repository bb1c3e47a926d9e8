------------------------ MODULE ResourceStoreProofs ------------------------
(***************************************************************************)
(* The invariants of ResourceStore hold for any number of resources, calls *)
(* in flight, serial numbers and values.                                   *)
(*                                                                         *)
(* None of them is inductive. What makes them so is what an open           *)
(* transaction can rely on: its registers (AtStatement), the row that it   *)
(* has locked (Locked, OneWriter), the id that nobody else knows (Fresh)   *)
(* and its entry in the index (Entered, OneEntry).                         *)
(***************************************************************************)
EXTENDS ResourceStore, TLAPS

\* An open transaction with nothing left but its COMMIT.
Complete(c) ==
    LET r == req[c] IN
    /\ r.op \in {"create", "update"}
    /\ "details" \in tx[c] <=> r.kind # "none"
    /\ "entry" \in tx[c] <=> r.kind = "device"
    /\ "base" \notin tx[c] => r.kind = "none" /\ r.mask = {}

\* Where a call stands tells what it was asked and what it has executed; a
\* session without its client still does.
AtStatement(c) ==
    LET r == req[c] IN
    /\ pc[c] # "idle" =>
          /\ r \in Requests /\ WellFormed(r) /\ target[c] \in Ids
          /\ r.op = "create" => r.kind = r.type
          /\ r.op # "create" => target[c] = r.id
    /\ pc[c] \in {"idle", "done"} => tx[c] = {}
    /\ pc[c] = "insert"  => r.op = "create" /\ tx[c] = {}
    /\ pc[c] = "base"    => r.op = "update" /\ tx[c] = {}
    /\ pc[c] = "write"   => r.op \in {"change", "delete"} /\ tx[c] = {}
    /\ pc[c] = "reload"  => r.op \in {"change", "update"} /\ tx[c] = {} /\ took[c]
    /\ pc[c] = "details" => r.op \in {"create", "update"} /\ r.kind # "none" /\ tx[c] = {"base"}
    /\ pc[c] = "index"   => r.op \in {"create", "update"} /\ r.kind = "device"
                            /\ tx[c] = {"base", "details"}
    /\ pc[c] = "commit"  => Complete(c)
    /\ pc[c] = "sent"    => Complete(c) \/ (r.op \in {"change", "delete"} /\ tx[c] = {})
    /\ pc[c] = "left"    => /\ r.op \in {"create", "update"}
                            /\ "details" \in tx[c] => r.kind # "none"
    /\ pc[c] \in Pending \cup Sessions \cup {"idle"} => ~took[c]

Registers == TypeOK /\ \A c \in Calls : AtStatement(c)

\* An update that holds its row: nobody can delete it, or its details.
Locked(c) ==
    "base" \in tx[c] /\ req[c].op = "update" =>
       /\ Live(target[c])
       /\ "details" \in tx[c] => details[req[c].kind][target[c]].there

\* No two open transactions have written the same row.
OneWriter(c, d) ==
    "base" \in tx[c] /\ "base" \in tx[d] /\ target[c] = target[d] => c = d

\* Nobody knows the id of a resource that is being created.
Fresh(c) ==
    pc[c] \in InTx \cup Sessions /\ req[c].op = "create" =>
       /\ Unborn(target[c])
       /\ \A d \in Calls \ {c} : target[d] # target[c]

\* A resource has a type.
Typed == \A id \in Ids : Live(id) => resources[id].type \in Types

Tables ==
    /\ RowsAreWhole /\ Typed
    /\ \A c \in Calls : Locked(c) /\ Fresh(c)
    /\ \A c, d \in Calls : OneWriter(c, d)

\* An entry in the index is for a serial number that no committed row has,
\* but perhaps the row that it is for,
Entered(c) ==
    "entry" \in tx[c] => ~Taken(c)

\* and that no other open transaction has entered.
OneEntry(c, d) ==
    /\ "entry" \in tx[c] /\ "entry" \in tx[d]
    /\ req[c].serial = req[d].serial /\ req[c].serial # ""
    => c = d

Index ==
    /\ SerialsAreUnique
    /\ \A c \in Calls : Entered(c)
    /\ \A c, d \in Calls : OneEntry(c, d)

IInv == Registers /\ Tables /\ Index /\ ReplyTellsTheOutcome

-----------------------------------------------------------------------------
(* Lemmas about requests, codes and the building blocks of the actions.    *)

\* What the fields of a request may be.
LEMMA RequestFields ==
  ASSUME NEW r \in Requests
  PROVE  /\ r.op \in {"create", "update", "change", "delete"}
         /\ r.kind \in Types \cup {"none"}
         /\ r.serial \in Serials \cup {""}
         /\ r.val \in Vals
         /\ r.mask \subseteq Columns
         /\ r.op = "create" => r.type \in Types
         /\ r.op # "create" => r.id \in Ids
         /\ r # NoReq
<1>1. /\ r.op \in {"create", "update", "change", "delete"}
      /\ r.kind \in Types \cup {"none"}
      /\ r.serial \in Serials \cup {""}
      /\ r.val \in Vals
  BY DEF Requests
<1>2. r.op = "create" => r.type \in Types
  BY DEF Requests
<1>3. r.op # "create" => r.id \in Ids
  BY DEF Requests
<1>4. r.mask \subseteq Columns
  BY DEF Requests, Columns
<1>5. r # NoReq
  <2>1. NoReq.op = "none"
    BY DEF NoReq
  <2>2. QED BY <1>1, <2>1
<1>6. QED
  BY <1>1, <1>2, <1>3, <1>4, <1>5

\* The codes that handlers answer for errors.
LEMMA ErrorCodes ==
  ASSUME NEW op, NEW err
  PROVE  /\ CodeFor(op, err) \in Codes \ {"OK"}
         /\ CodeFor(op, err) = "NotFound" => err = "ErrNotFound"
         /\ op = "update" /\ CodeFor(op, err) = "InvalidArgument" => err = "ErrInvalidType"
<1>1. CodeFor(op, err) \in Codes \ {"OK"}
  BY Zenon DEF CodeFor, OccupancyCode, Codes
<1>2. err # "ErrNotFound" => CodeFor(op, err) # "NotFound"
  BY Zenon DEF CodeFor, OccupancyCode
<1>3. op = "update" /\ err # "ErrInvalidType" => CodeFor(op, err) # "InvalidArgument"
  BY SMT DEF CodeFor, OccupancyCode
<1>4. QED
  BY <1>1, <1>2, <1>3

\* "none" is the kind of no details, and not a type.
LEMMA NoneIsNoType == "none" \notin Types
BY TypesAssumption DEF ResourceTypes

\* All that a call does by itself, or its session without it, but for its
\* arrival and its end.
Step(c) ==
    \/ InsertBase(c) \/ InsertDetails(c) \/ UpdateBase(c) \/ UpdateDetails(c)
    \/ EnterSerial(c) \/ Commit(c) \/ CommitUnheard(c)
    \/ DeleteResource(c) \/ ChangeResourceStatus(c) \/ Reload(c)
    \/ SessionLands(c) \/ Undelivered(c) \/ SessionEnds(c)

Arrival(c) ==
    CreateResource(c) \/ UpdateResource(c) \/ WriteOutsideTx(c) \/ SentBefore(c)

\* An error is answered, of a statement or as the victim of a deadlock.
Abort(c) == pc[c] \in Pending \cup {"reload"} /\ Rollback(c, "error")

\* Where an open transaction may be, and what it is for.
LEMMA OpenTransaction ==
  ASSUME Registers, NEW c \in Calls, tx[c] # {}
  PROVE  /\ pc[c] \in {"details", "index", "commit"} \cup Sessions
         /\ req[c] \in Requests /\ req[c].op \in {"create", "update"} /\ target[c] \in Ids
<1>1. AtStatement(c) /\ pc[c] \in PCs
  BY DEF Registers, TypeOK
<1>2. QED
  BY <1>1 DEF AtStatement, Complete, PCs, Pending, InTx, Sessions

\* Where no transaction is open, an answer is as good as a rollback.
LEMMA RefuseRollsBack ==
  ASSUME Registers, NEW c \in Calls, pc[c] \in {"insert", "base", "write", "reload"},
         NEW err, Refuse(c, err)
  PROVE  Rollback(c, err)
<1>1. tx \in [Calls -> SUBSET {"base", "details", "entry"}] /\ AtStatement(c)
  BY DEF Registers, TypeOK
<1>2. tx[c] = {}
  BY <1>1 DEF AtStatement
<1>3. [tx EXCEPT ![c] = {}] = tx
  BY <1>1, <1>2
<1>4. QED
  BY <1>3 DEF Refuse, Rollback

\* Each of the ways out of the code answers an error and leaves nothing open.
LEMMA FailureAborts ==
  ASSUME Registers, NEW c \in Calls, StatementFails(c)
  PROVE  Abort(c)
<1>1. CASE BeginFails(c)
  BY <1>1, RefuseRollsBack DEF BeginFails, Abort, Pending, InTx
<1>2. CASE WriteFails(c)
  BY <1>2, RefuseRollsBack DEF WriteFails, Abort, Pending
<1>3. CASE ReloadFails(c)
  BY <1>3, RefuseRollsBack DEF ReloadFails, Abort
<1>4. CASE InsertBaseFails(c) \/ UpdateBaseFails(c) \/ CommitFails(c)
  BY <1>4 DEF InsertBaseFails, UpdateBaseFails, CommitFails, Abort, Pending, InTx
<1>5. CASE InsertDetailsFails(c) \/ UpdateDetailsFails(c)
  BY <1>5 DEF InsertDetailsFails, UpdateDetailsFails, Abort, Pending, InTx
<1>6. QED
  BY <1>1, <1>2, <1>3, <1>4, <1>5 DEF StatementFails

\* A call that is chosen as a victim waits, and is waited for in its
\* transaction.
LEMMA VictimAborts ==
  ASSUME Registers, DeadlockDetected
  PROVE  \E c \in Calls : pc[c] \in Pending /\ Abort(c)
<1>1. PICK S \in SUBSET Calls, c \in Calls : Deadlocked(S) /\ c \in S /\ Rollback(c, "error")
  BY DEF DeadlockDetected
<1>2. WaitsFor(c) # {}
  BY <1>1 DEF Deadlocked
<1>3. PICK d \in Calls : c \in WaitsFor(d)
  BY <1>1 DEF Deadlocked
<1>4. tx[c] # {}
  BY <1>3 DEF WaitsFor, Claims
<1>5. pc[c] \in {"details", "index", "commit"} \cup Sessions /\ req[c].op \in {"create", "update"}
  BY <1>4, OpenTransaction
<1>6. pc[c] = "index"
  BY <1>2, <1>5 DEF WaitsFor, NeedsRow, Sessions
<1>7. QED
  BY <1>1, <1>6 DEF Abort, Pending, InTx

\* Every step is one of a call, or calls that are over for the service.
LEMMA Cases ==
  ASSUME Registers, Next
  PROVE  \/ \E c \in Calls : Arrival(c) \/ Step(c) \/ Abort(c)
         \/ \E C \in SUBSET Calls : Abandon(C)
<1>1. CASE DeadlockDetected
  BY <1>1, VictimAborts
<1>2. CASE Crash
  <2>1. Calls \in SUBSET Calls /\ Abandon(Calls)
    BY <1>2 DEF Crash
  <2>2. QED BY <2>1
<1>3. ASSUME NEW c \in Calls, Return(c) \/ ConnectionLost(c)
      PROVE  \E C \in SUBSET Calls : Abandon(C)
  <2>1. {c} \in SUBSET Calls /\ Abandon({c})
    BY <1>3 DEF Return, ConnectionLost
  <2>2. QED BY <2>1
<1>4. ASSUME NEW c \in Calls, StatementFails(c)
      PROVE  Abort(c)
  BY <1>4, FailureAborts
<1>5. QED
  BY <1>1, <1>2, <1>3, <1>4 DEF Next, Work, Wait, Arrival, Step

\* A call moves only its own registers.
LEMMA Bystander ==
  ASSUME TypeOK, NEW c \in Calls, NEW d \in Calls, d # c,
         Arrival(c) \/ Step(c) \/ Abort(c)
  PROVE  /\ pc'[d] = pc[d] /\ req'[d] = req[d] /\ target'[d] = target[d]
         /\ tx'[d] = tx[d] /\ reply'[d] = reply[d] /\ took'[d] = took[d]
<1> USE DEF TypeOK, Goto, Answer, Execute, Rollback, Refuse
<1>1. CASE Arrival(c)
  BY <1>1 DEF Arrival, CreateResource, UpdateResource, WriteOutsideTx, SentBefore, Start
<1>2. CASE InsertBase(c) \/ InsertDetails(c) \/ UpdateBase(c)
  BY <1>2 DEF InsertBase, InsertDetails, UpdateBase
<1>3. CASE UpdateDetails(c) \/ EnterSerial(c) \/ Reload(c) \/ Abort(c)
  BY <1>3 DEF UpdateDetails, EnterSerial, Reload, Abort
<1>4. CASE Commit(c) \/ CommitUnheard(c)
  BY <1>4 DEF Commit, CommitUnheard, Install
<1>5. CASE DeleteResource(c) \/ ChangeResourceStatus(c)
  BY <1>5 DEF DeleteResource, ChangeResourceStatus
<1>6. CASE SessionLands(c) \/ Undelivered(c) \/ SessionEnds(c)
  BY <1>6 DEF SessionLands, Undelivered, SessionEnds, Free
<1>7. QED
  BY <1>1, <1>2, <1>3, <1>4, <1>5, <1>6 DEF Step

-----------------------------------------------------------------------------
(* Types and registers.                                                    *)

\* The three ways in which the tables change.
Commits(c) == pc[c] \in {"commit", "sent"} /\ Complete(c) /\ Show(c)

Deletes(c) ==
    /\ pc[c] \in {"write", "sent"} /\ req[c].op = "delete"
    /\ WaitsFor(c) = {} /\ WriteRow(c)

Changes(c) ==
    /\ pc[c] \in {"write", "sent"} /\ req[c].op = "change"
    /\ WaitsFor(c) = {} /\ WriteRow(c)

\* What a COMMIT makes of the tables.
LEMMA CommitEffect ==
  ASSUME Registers, NEW c \in Calls, Commits(c)
  PROVE  /\ \A id \in Ids \ {target[c]} : resources'[id] = resources[id]
         /\ \A t \in Types, id \in Ids : t # req[c].kind \/ id # target[c] =>
               details'[t][id] = details[t][id]
         /\ req[c].kind # "none" =>
               details'[req[c].kind][target[c]] = DetailsRow(req[c].val, req[c].serial)
         /\ req[c].op = "create" =>
               resources'[target[c]] = Row(req[c].type, req[c].val)
         /\ req[c].op = "update" =>
               resources'[target[c]] = Overwritten(resources[target[c]], req[c])
<1>1. /\ req[c] \in Requests /\ target[c] \in Ids
      /\ "details" \in tx[c] <=> req[c].kind # "none"
      /\ "base" \notin tx[c] => req[c].op = "update" /\ req[c].mask = {}
      /\ resources[target[c]] \in [life : {"unborn", "live", "gone"}, type : Types \cup {"none"},
                                   cols : [Columns -> Vals \cup {Blank}]]
  <2>1. /\ req[c] \in Requests /\ target[c] \in Ids
        /\ "details" \in tx[c] <=> req[c].kind # "none"
        /\ req[c].op \in {"create", "update"}
        /\ req[c].op = "create" => req[c].kind = req[c].type
        /\ "base" \notin tx[c] => req[c].kind = "none" /\ req[c].mask = {}
    BY DEF Registers, AtStatement, Commits, Complete
  <2>2. req[c].op = "create" => req[c].kind # "none"
    <3>1. req[c].op = "create" => req[c].type \in Types
      BY <2>1, RequestFields
    <3>2. QED BY <2>1, <3>1, NoneIsNoType
  <2>3. resources \in [Ids -> [life : {"unborn", "live", "gone"}, type : Types \cup {"none"},
                               cols : [Columns -> Vals \cup {Blank}]]]
    BY DEF Registers, TypeOK
  <2>4. resources[target[c]] \in [life : {"unborn", "live", "gone"}, type : Types \cup {"none"},
                                   cols : [Columns -> Vals \cup {Blank}]]
    BY <2>1, <2>3
  <2>5. QED BY <2>1, <2>2, <2>4
<1>2. /\ \A id \in Ids \ {target[c]} : resources'[id] = resources[id]
      /\ req[c].op = "create" => resources'[target[c]] = Row(req[c].type, req[c].val)
      /\ req[c].op = "update" =>
               resources'[target[c]] = Overwritten(resources[target[c]], req[c])
  <2>1. resources \in [Ids -> [life : {"unborn", "live", "gone"}, type : Types \cup {"none"},
                               cols : [Columns -> Vals \cup {Blank}]]]
    BY DEF Registers, TypeOK
  <2>2. CASE "base" \in tx[c]
    BY <1>1, <2>1, <2>2 DEF Commits, Show
  <2>3. CASE "base" \notin tx[c]
    <3>1. Overwritten(resources[target[c]], req[c]) = resources[target[c]]
      BY <1>1, <2>3 DEF Overwritten
    <3>2. QED BY <1>1, <2>3, <3>1 DEF Commits, Show
  <2>4. QED BY <2>2, <2>3
<1>3. /\ \A t \in Types, id \in Ids : t # req[c].kind \/ id # target[c] =>
               details'[t][id] = details[t][id]
      /\ req[c].kind # "none" =>
               details'[req[c].kind][target[c]] = DetailsRow(req[c].val, req[c].serial)
  <2>1. details \in [Types -> [Ids -> [there : BOOLEAN, val : Vals \cup {Blank},
                                       serial : Serials \cup {""}]]]
    BY DEF Registers, TypeOK
  <2>2. CASE req[c].kind = "none"
    BY <1>1, <2>2 DEF Commits, Show
  <2>3. CASE req[c].kind # "none"
    <3>1. req[c].kind \in Types
      BY <1>1, <2>3, RequestFields
    <3>2. QED BY <1>1, <2>1, <2>3, <3>1 DEF Commits, Show
  <2>4. QED BY <2>2, <2>3
<1>4. QED
  BY <1>2, <1>3

\* The shape of the tables survives every write.
LEMMA OverwrittenType ==
  ASSUME TypeOK, NEW r \in Requests, NEW id \in Ids
  PROVE  Overwritten(resources[id], r) \in
            [life : {"unborn", "live", "gone"}, type : Types \cup {"none"},
             cols : [Columns -> Vals \cup {Blank}]]
<1>1. resources[id] \in [life : {"unborn", "live", "gone"}, type : Types \cup {"none"},
                         cols : [Columns -> Vals \cup {Blank}]]
  BY DEF TypeOK
<1>2. r.val \in Vals
  BY RequestFields
<1>3. [k \in Columns |-> IF k \in r.mask THEN r.val ELSE resources[id].cols[k]]
         \in [Columns -> Vals \cup {Blank}]
  BY <1>1, <1>2
<1>4. QED BY <1>1, <1>3 DEF Overwritten

\* A commit writes rows of the right type.
LEMMA CommitType ==
  ASSUME Registers, NEW c \in Calls, Commits(c)
  PROVE  /\ resources' \in [Ids -> [life : {"unborn", "live", "gone"},
                                    type : Types \cup {"none"},
                                    cols : [Columns -> Vals \cup {Blank}]]]
         /\ details' \in [Types -> [Ids -> [there  : BOOLEAN,
                                            val    : Vals \cup {Blank},
                                            serial : Serials \cup {""}]]]
<1> DEFINE Res == [life : {"unborn", "live", "gone"}, type : Types \cup {"none"},
                   cols : [Columns -> Vals \cup {Blank}]]
           Det == [there : BOOLEAN, val : Vals \cup {Blank}, serial : Serials \cup {""}]
<1>1. /\ req[c] \in Requests /\ target[c] \in Ids
      /\ "details" \in tx[c] => req[c].kind # "none"
  BY DEF Registers, AtStatement, Commits, Complete
<1>2. /\ req[c].val \in Vals /\ req[c].serial \in Serials \cup {""}
      /\ req[c].op = "create" => req[c].type \in Types
      /\ "details" \in tx[c] => req[c].kind \in Types
  BY <1>1, RequestFields
<1>3. resources \in [Ids -> Res] /\ details \in [Types -> [Ids -> Det]]
  BY DEF Registers, TypeOK
<1>4. req[c].op = "create" => Row(req[c].type, req[c].val) \in Res
  BY <1>2 DEF Row
<1>5. Overwritten(resources[target[c]], req[c]) \in Res
  BY <1>1, OverwrittenType DEF Registers
<1>6. DetailsRow(req[c].val, req[c].serial) \in Det
  BY <1>2 DEF DetailsRow
<1>7. resources' \in [Ids -> Res]
  BY <1>1, <1>3, <1>4, <1>5 DEF Commits, Show
<1>8. details' \in [Types -> [Ids -> Det]]
  BY <1>1, <1>2, <1>3, <1>6 DEF Commits, Show
<1>9. QED
  BY <1>7, <1>8

\* And so do a DELETE and a change of status.
LEMMA WriteType ==
  ASSUME Registers, NEW c \in Calls, Deletes(c) \/ Changes(c)
  PROVE  /\ resources' \in [Ids -> [life : {"unborn", "live", "gone"},
                                    type : Types \cup {"none"},
                                    cols : [Columns -> Vals \cup {Blank}]]]
         /\ details' \in [Types -> [Ids -> [there  : BOOLEAN,
                                            val    : Vals \cup {Blank},
                                            serial : Serials \cup {""}]]]
<1> DEFINE Res == [life : {"unborn", "live", "gone"}, type : Types \cup {"none"},
                   cols : [Columns -> Vals \cup {Blank}]]
           Det == [there : BOOLEAN, val : Vals \cup {Blank}, serial : Serials \cup {""}]
<1>1. resources \in [Ids -> Res] /\ details \in [Types -> [Ids -> Det]]
  BY DEF Registers, TypeOK
<1>2. req[c] \in Requests /\ target[c] \in Ids
  BY DEF Deletes, Changes, Registers, AtStatement
<1>3. NoRow("gone") \in Res /\ NoDetails \in Det
  BY DEF NoRow, NoDetails
<1>4. Overwritten(resources[target[c]], req[c]) \in Res
  BY <1>2, OverwrittenType DEF Registers
<1>5. CASE Deletes(c)
  <2>1. /\ resources' = [resources EXCEPT ![target[c]] = NoRow("gone")]
        /\ details' = [t \in Types |-> [details[t] EXCEPT ![target[c]] = NoDetails]]
    BY <1>5 DEF Deletes, WriteRow
  <2>2. QED BY <1>1, <1>3, <2>1
<1>6. CASE Changes(c)
  <2>1. /\ resources' = [resources EXCEPT ![target[c]] = Overwritten(@, req[c])]
        /\ details' = details
    BY <1>6 DEF Changes, WriteRow
  <2>2. QED BY <1>1, <1>4, <2>1
<1>7. QED
  BY <1>5, <1>6

\* A call that does not move stands as it did.
LEMMA StandsStill ==
  ASSUME NEW d, AtStatement(d), pc'[d] = pc[d], req'[d] = req[d], target'[d] = target[d],
         tx'[d] = tx[d], took'[d] = took[d]
  PROVE  AtStatement(d)'
BY DEF AtStatement, Complete

\* The three ways in which a call moves on: it arrives, it executes a
\* statement of its transaction, it is answered.
LEMMA StartRegisters ==
  ASSUME Registers, NEW c \in Calls, NEW r \in Requests, NEW id \in Ids,
         NEW label \in Pending \cup {"sent"}, Start(c, r, id, label)
  PROVE  /\ TypeOK'
         /\ pc'[c] = label /\ req'[c] = r /\ target'[c] = id /\ tx'[c] = {} /\ ~took'[c]
<1> USE DEF Start, Goto
<1>1. TypeOK'
  BY DEF Registers, TypeOK, PCs, Sessions, tables
<1>2. pc'[c] = label /\ req'[c] = r /\ target'[c] = id
  BY DEF Registers, TypeOK
<1>3. tx'[c] = {} /\ ~took'[c]
  BY DEF Registers, AtStatement
<1>4. QED
  BY <1>1, <1>2, <1>3

\* A statement adds itself to the transaction, and the call goes on.
LEMMA ExecuteRegisters ==
  ASSUME Registers, NEW c \in Calls, NEW st \in {"base", "details", "entry"}, NEW label \in PCs,
         Execute(c, st, label), UNCHANGED <<tables, req, target, reply, took>>
  PROVE  /\ TypeOK'
         /\ pc'[c] = label /\ tx'[c] = tx[c] \cup {st}
         /\ req'[c] = req[c] /\ target'[c] = target[c] /\ took'[c] = took[c]
<1> USE DEF Execute, Goto
<1>1. /\ pc \in [Calls -> PCs] /\ tx \in [Calls -> SUBSET {"base", "details", "entry"}]
  BY DEF Registers, TypeOK
<1>2. /\ pc' \in [Calls -> PCs] /\ tx' \in [Calls -> SUBSET {"base", "details", "entry"}]
      /\ pc'[c] = label /\ tx'[c] = tx[c] \cup {st}
  BY <1>1
<1>3. /\ resources' = resources /\ details' = details
      /\ req' = req /\ target' = target /\ reply' = reply /\ took' = took
  BY DEF tables
<1>4. TypeOK'
  BY <1>2, <1>3 DEF Registers, TypeOK
<1>5. QED
  BY <1>2, <1>3, <1>4

\* A reply keeps every call where it can be.
LEMMA AnswerRegisters ==
  ASSUME Registers, NEW c \in Calls, NEW code \in Codes, Answer(c, code),
         UNCHANGED <<req, target>>, pc[c] # "idle", tx'[c] = {}
  PROVE  /\ pc' \in [Calls -> PCs] /\ reply' \in [Calls -> Codes \cup {"none"}]
         /\ req' \in [Calls -> Requests \cup {NoReq}] /\ target' \in [Calls -> Ids \cup {NoId}]
         /\ pc'[c] = "done" /\ reply'[c] = code
         /\ AtStatement(c)'
<1> USE DEF Answer, Goto
<1>1. /\ pc \in [Calls -> PCs] /\ reply \in [Calls -> Codes \cup {"none"}]
      /\ req \in [Calls -> Requests \cup {NoReq}] /\ target \in [Calls -> Ids \cup {NoId}]
  BY DEF Registers, TypeOK
<1>2. /\ pc' \in [Calls -> PCs] /\ reply' \in [Calls -> Codes \cup {"none"}]
      /\ pc'[c] = "done" /\ reply'[c] = code
  BY <1>1 DEF PCs
<1>3. req' = req /\ target' = target
  OBVIOUS
<1>4. AtStatement(c)'
  BY <1>2, <1>3 DEF Registers, AtStatement, Pending, InTx, Sessions
<1>5. QED
  BY <1>1, <1>2, <1>3, <1>4

\* What a step makes of the registers of its own call.
LEMMA ArrivalRegisters ==
  ASSUME Registers, NEW c \in Calls, Arrival(c)
  PROVE  TypeOK' /\ AtStatement(c)'
<1>1. CASE CreateResource(c)
  <2>1. PICK r \in Requests, id \in Ids :
          r.op = "create" /\ WellFormed(r) /\ r.kind = r.type /\ Start(c, r, id, "insert")
    BY <1>1 DEF CreateResource
  <2>2. /\ TypeOK'
        /\ pc'[c] = "insert" /\ req'[c] = r /\ target'[c] = id /\ tx'[c] = {} /\ ~took'[c]
    <3>1. "insert" \in Pending
      BY DEF Pending, InTx
    <3>2. QED BY <2>1, <3>1, StartRegisters
  <2>3. QED BY <2>1, <2>2 DEF AtStatement
<1>2. CASE UpdateResource(c)
  <2>1. PICK r \in Requests :
               /\ r.op = "update" /\ WellFormed(r)
               /\ Start(c, r, r.id, IF r.mask = {} /\ r.kind = "none" THEN "commit" ELSE "base")
    BY <1>2 DEF UpdateResource
  <2>2. r.id \in Ids
    BY <2>1, RequestFields
  <2> DEFINE label == IF r.mask = {} /\ r.kind = "none" THEN "commit" ELSE "base"
  <2>3. /\ TypeOK'
        /\ pc'[c] = label /\ req'[c] = r /\ target'[c] = r.id /\ tx'[c] = {} /\ ~took'[c]
    <3>1. label \in Pending
      BY DEF Pending, InTx
    <3>2. QED BY <2>1, <2>2, <3>1, StartRegisters
  <2>4. CASE r.mask = {} /\ r.kind = "none"
    BY <2>1, <2>2, <2>3, <2>4 DEF AtStatement, Complete
  <2>5. CASE ~(r.mask = {} /\ r.kind = "none")
    BY <2>1, <2>2, <2>3, <2>5 DEF AtStatement
  <2>6. QED BY <2>4, <2>5
<1>3. CASE WriteOutsideTx(c)
  <2>1. PICK r \in Requests : r.op \in {"change", "delete"} /\ Start(c, r, r.id, "write")
    BY <1>3 DEF WriteOutsideTx
  <2>2. r.id \in Ids /\ WellFormed(r)
    BY <2>1, RequestFields DEF Requests, WellFormed
  <2>3. /\ TypeOK'
        /\ pc'[c] = "write" /\ req'[c] = r /\ target'[c] = r.id /\ tx'[c] = {} /\ ~took'[c]
    <3>1. "write" \in Pending
      BY DEF Pending
    <3>2. QED BY <2>1, <2>2, <3>1, StartRegisters
  <2>4. QED BY <2>1, <2>2, <2>3 DEF AtStatement
<1>4. CASE SentBefore(c)
  <2>1. PICK d \in Calls : pc[d] = "write" /\ Start(c, req[d], target[d], "sent")
    BY <1>4 DEF SentBefore
  <2>2. /\ req[d] \in Requests /\ WellFormed(req[d]) /\ target[d] \in Ids
        /\ req[d].op \in {"change", "delete"} /\ target[d] = req[d].id
    BY <2>1 DEF Registers, AtStatement
  <2>3. /\ TypeOK'
        /\ pc'[c] = "sent" /\ req'[c] = req[d] /\ target'[c] = target[d] /\ tx'[c] = {} /\ ~took'[c]
    BY <2>1, <2>2, StartRegisters
  <2>4. QED BY <2>2, <2>3 DEF AtStatement
<1>5. QED
  BY <1>1, <1>2, <1>3, <1>4 DEF Arrival

\* A rollback answers with a code that the client knows, and ends the
\* transaction.
LEMMA AbortRegisters ==
  ASSUME Registers, NEW c \in Calls, pc[c] \in Pending \cup {"reload"}, NEW err, Rollback(c, err)
  PROVE  TypeOK' /\ AtStatement(c)'
<1> USE DEF Rollback, Answer, Goto, tables
<1>1. CodeFor(req[c].op, err) \in Codes
  BY ErrorCodes
<1>2. TypeOK'
  BY <1>1 DEF Registers, TypeOK, PCs
<1>3. /\ pc'[c] = "done" /\ req'[c] = req[c] /\ target'[c] = target[c] /\ tx'[c] = {}
      /\ pc[c] # "idle"
  BY DEF Registers, TypeOK, Pending, InTx
<1>4. QED
  BY <1>2, <1>3 DEF Registers, AtStatement, Pending, InTx, Sessions

\* One statement of a transaction.
LEMMA StatementRegisters ==
  ASSUME Registers, NEW c \in Calls,
         \/ InsertBase(c) \/ InsertDetails(c)
         \/ UpdateBase(c) \/ UpdateDetails(c) \/ EnterSerial(c)
  PROVE  TypeOK' /\ AtStatement(c)'
<1> DEFINE Executes(st, label) ==
      Execute(c, st, label) /\ UNCHANGED <<tables, req, target, reply, took>>
<1>1. ASSUME NEW st \in {"base", "details", "entry"}, NEW label \in {"details", "index", "commit"},
             Executes(st, label)
      PROVE  /\ TypeOK'
             /\ pc'[c] = label /\ tx'[c] = tx[c] \cup {st}
             /\ req'[c] = req[c] /\ target'[c] = target[c] /\ took'[c] = took[c]
  <2>1. label \in PCs
    BY DEF PCs, Pending, InTx
  <2>2. QED BY <1>1, <2>1, ExecuteRegisters
<1>2. AtStatement(c)
  BY DEF Registers
<1> HIDE DEF Executes
<1>3. CASE InsertBase(c)
  <2>1. pc[c] = "insert" /\ Executes("base", "details")
    BY <1>3 DEF InsertBase, Executes
  <2>2. req[c] \in Requests /\ req[c].op = "create" /\ req[c].kind = req[c].type
    BY <1>2, <2>1 DEF AtStatement
  <2>3. req[c].kind # "none"
    BY <2>2, RequestFields, NoneIsNoType
  <2>4. QED BY <1>1, <1>2, <2>1, <2>2, <2>3 DEF AtStatement, Complete, Pending, InTx, Sessions
<1>4. CASE \/ InsertDetails(c)
           \/ UpdateDetails(c) /\ details[req[c].kind][target[c]].there
  <2> DEFINE label == IF req[c].kind = "device" THEN "index" ELSE "commit"
  <2>1. pc[c] = "details" /\ Executes("details", label)
    BY <1>4 DEF InsertDetails, UpdateDetails, Executes
  <2>2. /\ TypeOK'
        /\ pc'[c] = label /\ tx'[c] = tx[c] \cup {"details"}
        /\ req'[c] = req[c] /\ target'[c] = target[c] /\ took'[c] = took[c]
    BY <1>1, <2>1
  <2>3. CASE req[c].kind = "device"
    BY <1>2, <2>1, <2>2, <2>3 DEF AtStatement, Complete, Pending, InTx, Sessions
  <2>4. CASE req[c].kind # "device"
    BY <1>2, <2>1, <2>2, <2>4 DEF AtStatement, Complete, Pending, InTx, Sessions
  <2>5. QED BY <2>3, <2>4
<1>5. CASE UpdateBase(c) /\ Live(target[c])
  <2> DEFINE label == IF req[c].kind = "none" THEN "commit" ELSE "details"
  <2>1. pc[c] = "base" /\ Executes("base", label)
    BY <1>5 DEF UpdateBase, Executes
  <2>2. /\ TypeOK'
        /\ pc'[c] = label /\ tx'[c] = tx[c] \cup {"base"}
        /\ req'[c] = req[c] /\ target'[c] = target[c] /\ took'[c] = took[c]
    BY <1>1, <2>1
  <2>3. CASE req[c].kind = "none"
    BY <1>2, <2>1, <2>2, <2>3 DEF AtStatement, Complete, Pending, InTx, Sessions
  <2>4. CASE req[c].kind # "none"
    BY <1>2, <2>1, <2>2, <2>4 DEF AtStatement, Complete, Pending, InTx, Sessions
  <2>5. QED BY <2>3, <2>4
<1>6. CASE EnterSerial(c) /\ ~Taken(c)
  <2>1. pc[c] = "index" /\ Executes("entry", "commit")
    BY <1>6 DEF EnterSerial, Executes
  <2>2. QED BY <1>1, <1>2, <2>1 DEF AtStatement, Complete, Pending, InTx, Sessions
<1>7. CASE UpdateBase(c) /\ ~Live(target[c])
  BY <1>7, AbortRegisters DEF UpdateBase, Pending, InTx
<1>8. CASE UpdateDetails(c) /\ ~details[req[c].kind][target[c]].there
  BY <1>8, AbortRegisters DEF UpdateDetails, Pending, InTx
<1>9. CASE EnterSerial(c) /\ Taken(c)
  BY <1>9, AbortRegisters DEF EnterSerial, Pending, InTx
<1>10. QED
  BY <1>3, <1>4, <1>5, <1>6, <1>7, <1>8, <1>9

\* The session of a call is over.
LEMMA FreeRegisters ==
  ASSUME Registers, NEW c \in Calls, Free(c),
         resources' \in [Ids -> [life : {"unborn", "live", "gone"}, type : Types \cup {"none"},
                                 cols : [Columns -> Vals \cup {Blank}]]],
         details' \in [Types -> [Ids -> [there : BOOLEAN, val : Vals \cup {Blank},
                                         serial : Serials \cup {""}]]],
         pc[c] \in Sessions
  PROVE  TypeOK' /\ AtStatement(c)'
<1>1. /\ tx \in [Calls -> SUBSET {"base", "details", "entry"}]
      /\ pc \in [Calls -> PCs] /\ reply \in [Calls -> Codes \cup {"none"}]
      /\ req \in [Calls -> Requests \cup {NoReq}] /\ target \in [Calls -> Ids \cup {NoId}]
      /\ took \in [Calls -> BOOLEAN] /\ ~took[c]
  BY DEF Registers, TypeOK, AtStatement
<1>2. /\ pc' = [pc EXCEPT ![c] = "idle"] /\ req' = [req EXCEPT ![c] = NoReq]
      /\ target' = [target EXCEPT ![c] = NoId] /\ tx' = [tx EXCEPT ![c] = {}]
      /\ reply' = reply /\ took' = took
  BY DEF Free, Goto
<1>3. TypeOK'
  BY <1>1, <1>2 DEF TypeOK, PCs
<1>4. pc'[c] = "idle" /\ tx'[c] = {} /\ ~took'[c]
  BY <1>1, <1>2
<1>5. AtStatement(c)'
  BY <1>4 DEF AtStatement
<1>6. QED
  BY <1>3, <1>5

\* A COMMIT, a statement outside of transactions, the end of a session.
LEMMA OtherRegisters ==
  ASSUME Registers, NEW c \in Calls,
         \/ Commit(c) \/ CommitUnheard(c)
         \/ DeleteResource(c) \/ ChangeResourceStatus(c) \/ Reload(c)
         \/ SessionLands(c) \/ Undelivered(c) \/ SessionEnds(c)
  PROVE  TypeOK' /\ AtStatement(c)'
<1>1. /\ TypeOK /\ AtStatement(c)
      /\ took \in [Calls -> BOOLEAN] /\ tx \in [Calls -> SUBSET {"base", "details", "entry"}]
      /\ pc \in [Calls -> PCs] /\ reply \in [Calls -> Codes \cup {"none"}]
      /\ req \in [Calls -> Requests \cup {NoReq}] /\ target \in [Calls -> Ids \cup {NoId}]
      /\ resources \in [Ids -> [life : {"unborn", "live", "gone"}, type : Types \cup {"none"},
                                cols : [Columns -> Vals \cup {Blank}]]]
      /\ details \in [Types -> [Ids -> [there : BOOLEAN, val : Vals \cup {Blank},
                                        serial : Serials \cup {""}]]]
  BY DEF Registers, TypeOK
<1>2. /\ \A err : CodeFor(req[c].op, err) \in Codes
      /\ "OK" \in Codes
  BY ErrorCodes DEF Codes
<1>3. CASE Commit(c) \/ CommitUnheard(c)
  <2>1. pc[c] = "commit" /\ Install(c)
    BY <1>3 DEF Commit, CommitUnheard
  <2>2. Commits(c)
    BY <1>1, <2>1 DEF AtStatement, Install, Commits
  <2>3. /\ tx' \in [Calls -> SUBSET {"base", "details", "entry"}] /\ tx'[c] = {}
        /\ took' \in [Calls -> BOOLEAN] /\ took'[c] /\ UNCHANGED <<req, target>>
    BY <1>1, <2>1 DEF Install
  <2>4. CASE Commit(c) /\ req[c].op = "update"
    <3>1. pc' \in [Calls -> PCs] /\ pc'[c] = "reload" /\ reply' = reply
      BY <1>1, <2>4 DEF Commit, Goto, PCs
    <3>2. TypeOK'
      BY <1>1, <2>2, <2>3, <3>1, CommitType DEF TypeOK
    <3>3. QED BY <1>1, <2>1, <2>3, <2>4, <3>1, <3>2 DEF AtStatement, Pending, InTx, Sessions
  <2>5. CASE ~(Commit(c) /\ req[c].op = "update")
    <3>1. PICK code \in Codes : Answer(c, code)
      BY <1>2, <1>3, <2>5 DEF Commit, CommitUnheard
    <3>2. AtStatement(c)' /\ pc' \in [Calls -> PCs] /\ reply' \in [Calls -> Codes \cup {"none"}]
      BY <2>1, <2>3, <3>1, AnswerRegisters
    <3>3. TypeOK'
      BY <1>1, <2>2, <2>3, <3>2, CommitType DEF TypeOK
    <3>4. QED BY <3>2, <3>3
  <2>6. QED BY <2>4, <2>5
<1>4. ASSUME NEW err, Refuse(c, err), pc[c] \in {"write", "reload"}
      PROVE  TypeOK' /\ AtStatement(c)'
  BY <1>4, RefuseRollsBack, AbortRegisters DEF Pending
<1>5. CASE DeleteResource(c)
  <2>1. CASE Refuse(c, "ErrNotFound")
    BY <1>4, <1>5, <2>1 DEF DeleteResource
  <2>2. CASE ~Refuse(c, "ErrNotFound")
    <3>1. /\ pc[c] = "write" /\ Deletes(c) /\ Answer(c, "OK")
          /\ took' = [took EXCEPT ![c] = TRUE] /\ UNCHANGED <<req, target, tx>>
      BY <1>5, <2>2 DEF DeleteResource, Deletes
    <3>2. tx[c] = {} /\ took' \in [Calls -> BOOLEAN]
      BY <1>1, <3>1 DEF AtStatement
    <3>3. AtStatement(c)' /\ pc' \in [Calls -> PCs] /\ reply' \in [Calls -> Codes \cup {"none"}]
      BY <1>2, <3>1, <3>2, AnswerRegisters
    <3>4. TypeOK'
      BY <1>1, <3>1, <3>2, <3>3, WriteType DEF TypeOK
    <3>5. QED BY <3>3, <3>4
  <2>3. QED BY <2>1, <2>2
<1>6. CASE ChangeResourceStatus(c)
  <2>1. CASE Refuse(c, "ErrNotFound")
    BY <1>4, <1>6, <2>1 DEF ChangeResourceStatus
  <2>2. CASE ~Refuse(c, "ErrNotFound")
    <3>1. /\ pc[c] = "write" /\ Changes(c) /\ Goto(c, "reload") /\ req[c].op = "change"
          /\ took' = [took EXCEPT ![c] = TRUE] /\ UNCHANGED <<req, target, tx, reply>>
      BY <1>6, <2>2 DEF ChangeResourceStatus, Changes
    <3>2. /\ tx[c] = {} /\ took' \in [Calls -> BOOLEAN] /\ took'[c]
          /\ pc' \in [Calls -> PCs] /\ pc'[c] = "reload"
      BY <1>1, <3>1 DEF AtStatement, Goto, PCs
    <3>3. TypeOK'
      BY <1>1, <3>1, <3>2, WriteType DEF TypeOK
    <3>4. QED BY <1>1, <3>1, <3>2, <3>3 DEF AtStatement, Pending, InTx, Sessions
  <2>3. QED BY <2>1, <2>2
<1>7. CASE Reload(c)
  <2>1. CASE Refuse(c, Found(target[c]))
    BY <1>4, <1>7, <2>1 DEF Reload
  <2>2. CASE ~Refuse(c, Found(target[c]))
    <3>1. /\ pc[c] = "reload" /\ UNCHANGED <<tables, req, target, tx, took>> /\ Answer(c, "OK")
      BY <1>7, <2>2 DEF Reload
    <3>2. tx[c] = {}
      BY <1>1, <3>1 DEF AtStatement
    <3>3. AtStatement(c)' /\ pc' \in [Calls -> PCs] /\ reply' \in [Calls -> Codes \cup {"none"}]
      BY <1>2, <3>1, <3>2, AnswerRegisters
    <3>4. QED BY <1>1, <3>1, <3>3 DEF TypeOK, tables
  <2>3. QED BY <2>1, <2>2
<1>8. CASE Undelivered(c) \/ SessionEnds(c)
  <2>1. Free(c) /\ resources' = resources /\ details' = details /\ pc[c] \in Sessions
    BY <1>8 DEF Undelivered, SessionEnds, Sessions, tables
  <2>2. QED BY <1>1, <2>1, FreeRegisters
<1>9. CASE SessionLands(c)
  <2>1. pc[c] = "sent" /\ Free(c) /\ pc[c] \in Sessions
    BY <1>9 DEF SessionLands, Sessions
  <2>2. Commits(c) \/ Deletes(c) \/ Changes(c) \/ UNCHANGED tables
    BY <1>1, <1>9 DEF SessionLands, Commits, Deletes, Changes, WriteRow, AtStatement
  <2>3. QED BY <1>1, <2>1, <2>2, FreeRegisters, CommitType, WriteType DEF tables
<1>10. QED
  BY <1>3, <1>5, <1>6, <1>7, <1>8, <1>9

\* Every step of a call leaves it where its statements say.
LEMMA StepRegisters ==
  ASSUME Registers, NEW c \in Calls, Step(c)
  PROVE  TypeOK' /\ AtStatement(c)'
BY StatementRegisters, OtherRegisters DEF Step

\* Calls that are over for the service leave at most their sessions behind.
LEMMA AbandonEffect ==
  ASSUME Registers, NEW C \in SUBSET Calls, Abandon(C), NEW d \in Calls
  PROVE  /\ d \notin C => /\ pc'[d] = pc[d] /\ req'[d] = req[d] /\ target'[d] = target[d]
                          /\ reply'[d] = reply[d] /\ took'[d] = took[d]
         /\ d \in C => /\ pc'[d] = Remains(d) /\ reply'[d] = "none" /\ ~took'[d]
                       /\ Remains(d) # "idle" => req'[d] = req[d] /\ target'[d] = target[d]
                       /\ Remains(d) = "idle" => req'[d] = NoReq /\ target'[d] = NoId /\ tx[d] = {}
         /\ tx'[d] = tx[d] /\ UNCHANGED tables
<1>1. Remains(d) = "idle" => tx[d] = {}
  BY DEF Remains
<1>2. QED
  BY <1>1 DEF Abandon

\* What remains is where its statements say.
LEMMA AbandonRegisters ==
  ASSUME Registers, NEW C \in SUBSET Calls, Abandon(C)
  PROVE  Registers'
<1>1. /\ pc \in [Calls -> PCs] /\ reply \in [Calls -> Codes \cup {"none"}]
      /\ req \in [Calls -> Requests \cup {NoReq}] /\ target \in [Calls -> Ids \cup {NoId}]
      /\ took \in [Calls -> BOOLEAN]
  BY DEF Registers, TypeOK
<1>2. \A d \in Calls : Remains(d) \in PCs
  BY DEF Remains, PCs, Sessions
<1>3. /\ pc' = [d \in Calls |-> IF d \in C THEN Remains(d) ELSE pc[d]]
      /\ req' = [d \in Calls |-> IF d \in C /\ Remains(d) = "idle" THEN NoReq ELSE req[d]]
      /\ target' = [d \in Calls |-> IF d \in C /\ Remains(d) = "idle" THEN NoId ELSE target[d]]
      /\ reply' = [d \in Calls |-> IF d \in C THEN "none" ELSE reply[d]]
      /\ took' = [d \in Calls |-> IF d \in C THEN FALSE ELSE took[d]]
      /\ resources' = resources /\ details' = details /\ tx' = tx
  BY DEF Abandon, tables
<1>4. /\ pc' \in [Calls -> PCs] /\ reply' \in [Calls -> Codes \cup {"none"}]
      /\ req' \in [Calls -> Requests \cup {NoReq}] /\ target' \in [Calls -> Ids \cup {NoId}]
      /\ took' \in [Calls -> BOOLEAN]
  BY <1>1, <1>2, <1>3
<1>5. TypeOK'
  BY <1>3, <1>4 DEF Registers, TypeOK
<1>6. ASSUME NEW d \in Calls
      PROVE  AtStatement(d)'
  <2>1. AtStatement(d) /\ pc[d] \in PCs
    BY <1>1 DEF Registers
  <2>2. CASE d \notin C
    <3>1. /\ pc'[d] = pc[d] /\ req'[d] = req[d] /\ target'[d] = target[d]
          /\ tx'[d] = tx[d] /\ took'[d] = took[d]
      BY <2>2, AbandonEffect
    <3>2. QED BY <2>1, <3>1, StandsStill
  <2>3. CASE d \in C /\ Remains(d) = "idle"
    <3>1. pc'[d] = "idle" /\ tx'[d] = {} /\ ~took'[d]
      BY <2>3, AbandonEffect
    <3>2. QED BY <3>1 DEF AtStatement
  <2>4. CASE d \in C /\ Remains(d) # "idle"
    <3>1. /\ pc'[d] = Remains(d) /\ req'[d] = req[d] /\ target'[d] = target[d]
          /\ tx'[d] = tx[d] /\ ~took'[d]
      BY <2>4, AbandonEffect
    <3>2. CASE Remains(d) = "sent"
      <4>1. pc[d] \in {"write", "commit", "sent"}
        BY <3>2 DEF Remains
      <4>2. pc'[d] = "sent"
        BY <3>1, <3>2
      <4>3. /\ Complete(d) \/ (req[d].op \in {"change", "delete"} /\ tx[d] = {})
            /\ req[d] \in Requests /\ WellFormed(req[d]) /\ target[d] \in Ids
            /\ req[d].op = "create" => req[d].kind = req[d].type
            /\ req[d].op # "create" => target[d] = req[d].id
        BY <2>1, <4>1 DEF AtStatement
      <4>4. QED BY <3>1, <4>2, <4>3 DEF AtStatement, Complete
    <3>3. CASE Remains(d) = "left"
      <4>1. tx[d] # {}
        BY <3>3 DEF Remains
      <4>2. pc'[d] = "left"
        BY <3>1, <3>3
      <4>3. pc[d] \in {"details", "index", "commit"} \cup Sessions
        BY <4>1, OpenTransaction
      <4>4. /\ req[d].op \in {"create", "update"}
            /\ "details" \in tx[d] => req[d].kind # "none"
            /\ req[d] \in Requests /\ WellFormed(req[d]) /\ target[d] \in Ids
            /\ req[d].op = "create" => req[d].kind = req[d].type
            /\ req[d].op # "create" => target[d] = req[d].id
        BY <2>1, <4>1, <4>3 DEF AtStatement, Complete, Sessions
      <4>5. QED BY <3>1, <4>2, <4>4 DEF AtStatement
    <3>4. QED BY <2>4, <3>2, <3>3 DEF Remains
  <2>5. QED BY <2>2, <2>3, <2>4
<1>7. QED
  BY <1>5, <1>6 DEF Registers

\* The first layer: every step keeps the registers.
LEMMA RegistersStep ==
  ASSUME Registers, [Next]_vars
  PROVE  Registers'
<1>1. CASE UNCHANGED vars
  <2>1. /\ resources' = resources /\ details' = details /\ pc' = pc /\ req' = req
        /\ target' = target /\ tx' = tx /\ reply' = reply /\ took' = took
    BY <1>1 DEF vars
  <2>2. TypeOK'
    BY <2>1 DEF Registers, TypeOK
  <2>3. \A d \in Calls : AtStatement(d)'
    BY <2>1 DEF Registers, AtStatement, Complete
  <2>4. QED BY <2>2, <2>3 DEF Registers
<1>2. ASSUME NEW C \in SUBSET Calls, Abandon(C)
      PROVE  Registers'
  BY <1>2, AbandonRegisters
<1>3. ASSUME NEW c \in Calls, Arrival(c) \/ Step(c) \/ Abort(c)
      PROVE  Registers'
  <2>1. TypeOK' /\ AtStatement(c)'
    BY <1>3, ArrivalRegisters, StepRegisters, AbortRegisters DEF Abort
  <2>2. ASSUME NEW d \in Calls, d # c
        PROVE  AtStatement(d)'
    <3>1. /\ pc'[d] = pc[d] /\ req'[d] = req[d] /\ target'[d] = target[d]
          /\ tx'[d] = tx[d] /\ took'[d] = took[d]
      BY <1>3, <2>2, Bystander DEF Registers
    <3>2. AtStatement(d)
      BY DEF Registers
    <3>3. QED BY <3>1, <3>2, StandsStill
  <2>3. QED BY <2>1, <2>2 DEF Registers
<1>4. QED
  BY <1>1, <1>2, <1>3, Cases

\* At the start no call is under way.
LEMMA RegistersInit == Init => Registers
<1> SUFFICES ASSUME Init PROVE Registers
  OBVIOUS
<1>1. /\ pc = [c \in Calls |-> "idle"] /\ req = [c \in Calls |-> NoReq]
      /\ target = [c \in Calls |-> NoId] /\ tx = [c \in Calls |-> {}]
      /\ reply = [c \in Calls |-> "none"] /\ took = [c \in Calls |-> FALSE]
  BY DEF Init
<1>2. PICK t \in [Ids -> Types \cup {"none"}], s \in [Ids -> Serials \cup {""}] :
         /\ resources = [id \in Ids |-> IF t[id] = "none" THEN NoRow("unborn")
                                        ELSE Row(t[id], Blank)]
         /\ details = [k \in Types |-> [id \in Ids |->
                         IF t[id] = k THEN DetailsRow(Blank, s[id]) ELSE NoDetails]]
  BY DEF Init
<1>3. resources \in [Ids -> [life : {"unborn", "live", "gone"}, type : Types \cup {"none"},
                             cols : [Columns -> Vals \cup {Blank}]]]
  BY <1>2 DEF NoRow, Row
<1>4. details \in [Types -> [Ids -> [there : BOOLEAN, val : Vals \cup {Blank},
                                     serial : Serials \cup {""}]]]
  BY <1>2 DEF DetailsRow, NoDetails
<1>5. TypeOK
  BY <1>1, <1>3, <1>4 DEF TypeOK, PCs
<1>6. \A c \in Calls : AtStatement(c)
  BY <1>1 DEF AtStatement
<1>7. QED
  BY <1>5, <1>6 DEF Registers

-----------------------------------------------------------------------------
(* The tables.                                                             *)

\* A statement of a transaction, and what it went by.
Executed(c) ==
    /\ req'[c] = req[c] /\ target'[c] = target[c] /\ UNCHANGED tables /\ pc'[c] \in InTx
    /\ \/ tx'[c] = tx[c] \cup {"base"} /\ pc[c] = "insert"
       \/ tx'[c] = tx[c] \cup {"base"} /\ pc[c] = "base" /\ WaitsFor(c) = {} /\ Live(target[c])
       \/ /\ tx'[c] = tx[c] \cup {"details"} /\ pc[c] = "details"
          /\ req[c].op = "update" => details[req[c].kind][target[c]].there
       \/ tx'[c] = tx[c] \cup {"entry"} /\ pc[c] = "index" /\ WaitsFor(c) = {} /\ ~Taken(c)

\* A statement of a transaction is executed, or its error is answered.
LEMMA ExecutesOrNot ==
  ASSUME Registers, NEW c \in Calls,
         \/ InsertBase(c) \/ InsertDetails(c)
         \/ UpdateBase(c) \/ UpdateDetails(c) \/ EnterSerial(c)
  PROVE  \/ Executed(c)
         \/ /\ tx'[c] = {} /\ pc'[c] = "done" /\ target'[c] = target[c] /\ UNCHANGED tables
<1>1. /\ tx \in [Calls -> SUBSET {"base", "details", "entry"}] /\ pc \in [Calls -> PCs]
  BY DEF Registers, TypeOK
<1>2. ASSUME NEW err, Rollback(c, err)
      PROVE  tx'[c] = {} /\ pc'[c] = "done" /\ target'[c] = target[c] /\ UNCHANGED tables
  BY <1>1, <1>2 DEF Rollback, Answer, Goto, tables
<1>3. ASSUME NEW st, NEW label \in {"details", "index", "commit"}, Execute(c, st, label),
             UNCHANGED <<tables, req, target, reply, took>>
      PROVE  /\ tx'[c] = tx[c] \cup {st} /\ req'[c] = req[c] /\ target'[c] = target[c]
             /\ UNCHANGED tables /\ pc'[c] \in InTx
  BY <1>1, <1>3 DEF Execute, Goto, InTx, tables
<1>4. CASE InsertBase(c)
  <2>1. /\ tx'[c] = tx[c] \cup {"base"} /\ req'[c] = req[c] /\ target'[c] = target[c] /\ UNCHANGED tables
          /\ pc'[c] \in InTx
    BY <1>3, <1>4 DEF InsertBase
  <2>2. QED BY <1>4, <2>1 DEF InsertBase, Executed
<1>5. CASE InsertDetails(c)
  <2>1. /\ tx'[c] = tx[c] \cup {"details"} /\ req'[c] = req[c] /\ target'[c] = target[c] /\ UNCHANGED tables
          /\ pc'[c] \in InTx
    BY <1>3, <1>5 DEF InsertDetails
  <2>2. QED BY <1>5, <2>1 DEF InsertDetails, Executed
<1>6. CASE UpdateBase(c) /\ Live(target[c])
  <2>1. /\ tx'[c] = tx[c] \cup {"base"} /\ req'[c] = req[c] /\ target'[c] = target[c] /\ UNCHANGED tables
          /\ pc'[c] \in InTx
    BY <1>3, <1>6 DEF UpdateBase
  <2>2. QED BY <1>6, <2>1 DEF UpdateBase, Executed
<1>7. CASE UpdateDetails(c) /\ details[req[c].kind][target[c]].there
  <2>1. /\ tx'[c] = tx[c] \cup {"details"} /\ req'[c] = req[c] /\ target'[c] = target[c] /\ UNCHANGED tables
          /\ pc'[c] \in InTx
    BY <1>3, <1>7 DEF UpdateDetails
  <2>2. QED BY <1>7, <2>1 DEF UpdateDetails, Executed
<1>8. CASE EnterSerial(c) /\ ~Taken(c)
  <2>1. /\ tx'[c] = tx[c] \cup {"entry"} /\ req'[c] = req[c] /\ target'[c] = target[c] /\ UNCHANGED tables
          /\ pc'[c] \in InTx
    BY <1>3, <1>8 DEF EnterSerial
  <2>2. QED BY <1>8, <2>1 DEF EnterSerial, Executed
<1>9. CASE UpdateBase(c) /\ ~Live(target[c])
  BY <1>2, <1>9 DEF UpdateBase
<1>10. CASE UpdateDetails(c) /\ ~details[req[c].kind][target[c]].there
  BY <1>2, <1>10 DEF UpdateDetails
<1>11. CASE EnterSerial(c) /\ Taken(c)
  BY <1>2, <1>11 DEF EnterSerial
<1>12. QED
  BY <1>4, <1>5, <1>6, <1>7, <1>8, <1>9, <1>10, <1>11

\* What becomes of the target of a call that has nothing open after its step.
Aims(c) ==
    \/ target'[c] \in {target[c], NoId} /\ pc'[c] \notin Pending \cup Sessions
    \/ /\ Arrival(c)
       /\ \/ /\ req'[c].op # "create"
             /\ \/ ~Unborn(target'[c])
                \/ \E d \in Calls : target'[c] = target[d] /\ req[d].op # "create"
          \/ Unborn(target'[c]) /\ \A d \in Calls : target[d] # target'[c]

\* Every step of a call is a statement of its transaction, or leaves nothing
\* open; and it does not touch the tables, or is one of three.
LEMMA Steps ==
  ASSUME Registers, NEW c \in Calls, Arrival(c) \/ Step(c) \/ Abort(c)
  PROVE  \/ Executed(c)
         \/ /\ tx'[c] = {} /\ Aims(c)
            /\ UNCHANGED tables \/ Commits(c) \/ Deletes(c) \/ Changes(c)
<1>1. /\ tx \in [Calls -> SUBSET {"base", "details", "entry"}] /\ pc \in [Calls -> PCs]
      /\ target \in [Calls -> Ids \cup {NoId}] /\ req \in [Calls -> Requests \cup {NoReq}]
      /\ AtStatement(c)
  BY DEF Registers, TypeOK
<1> USE DEF Goto, Answer, InTx, Pending, Sessions
<1>2. CASE Arrival(c)
  <2>1. /\ pc[c] = "idle" /\ UNCHANGED tx /\ UNCHANGED tables
    BY <1>2 DEF Arrival, CreateResource, UpdateResource, WriteOutsideTx, SentBefore, Start, tables
  <2>2. tx'[c] = {}
    BY <1>1, <2>1 DEF AtStatement
  <2>3. CASE CreateResource(c)
    <3>1. PICK r \in Requests, id \in Ids :
             Unborn(id) /\ (\A d \in Calls : target[d] # id) /\ Start(c, r, id, "insert")
      BY <2>3 DEF CreateResource
    <3>2. target'[c] = id
      BY <1>1, <3>1 DEF Start
    <3>3. QED BY <1>2, <2>1, <2>2, <3>1, <3>2 DEF Aims
  <2>4. CASE UpdateResource(c) \/ WriteOutsideTx(c)
    <3>1. PICK r \in Requests, label \in {"commit", "base", "write"} : r.op # "create" /\ ~Unborn(r.id) /\ Start(c, r, r.id, label)
      BY <2>4 DEF UpdateResource, WriteOutsideTx
    <3>2. target'[c] = r.id /\ req'[c] = r
      BY <1>1, <3>1 DEF Start
    <3>3. QED BY <1>2, <2>1, <2>2, <3>1, <3>2 DEF Aims
  <2>5. CASE SentBefore(c)
    <3>1. PICK d \in Calls : pc[d] = "write" /\ Start(c, req[d], target[d], "sent")
      BY <2>5 DEF SentBefore
    <3>2. req[d].op # "create"
      BY <3>1 DEF Registers, AtStatement
    <3>3. target'[c] = target[d] /\ req'[c] = req[d]
      BY <1>1, <3>1 DEF Start
    <3>4. QED BY <1>2, <2>1, <2>2, <3>2, <3>3 DEF Aims
  <2>6. QED BY <1>2, <2>3, <2>4, <2>5 DEF Arrival
<1>3. ASSUME NEW err, Rollback(c, err)
      PROVE  tx'[c] = {} /\ Aims(c) /\ UNCHANGED tables
  <2>1. tx'[c] = {} /\ pc'[c] = "done" /\ target'[c] = target[c] /\ UNCHANGED tables
    BY <1>1, <1>3 DEF Rollback, tables
  <2>2. QED BY <2>1 DEF Aims
<1>4. CASE InsertBase(c) \/ InsertDetails(c) \/ UpdateBase(c) \/ UpdateDetails(c) \/ EnterSerial(c)
  BY <1>4, ExecutesOrNot DEF Aims
<1>5. CASE Commit(c) \/ CommitUnheard(c)
  <2>1. pc[c] = "commit" /\ Install(c)
    BY <1>5 DEF Commit, CommitUnheard
  <2>2. tx'[c] = {} /\ target'[c] = target[c]
    BY <1>1, <2>1 DEF Install
  <2>3. pc'[c] \in {"done", "reload"}
    BY <1>1, <1>5 DEF Commit, CommitUnheard
  <2>4. Commits(c)
    BY <1>1, <2>1 DEF AtStatement, Install, Commits
  <2>5. QED BY <2>2, <2>3, <2>4 DEF Aims
<1>6. CASE DeleteResource(c) \/ ChangeResourceStatus(c) \/ Reload(c)
  <2>1. CASE \E err : Refuse(c, err)
    <3>1. pc[c] \in {"write", "reload"}
      BY <1>6 DEF DeleteResource, ChangeResourceStatus, Reload
    <3>2. QED BY <1>3, <2>1, <3>1, RefuseRollsBack
  <2>2. CASE ~\E err : Refuse(c, err)
    <3>1. /\ pc[c] \in {"write", "reload"} /\ pc'[c] \in {"done", "reload"}
          /\ UNCHANGED <<target, tx>>
          /\ UNCHANGED tables \/ Deletes(c) \/ Changes(c)
      BY <1>1, <1>6, <2>2 DEF DeleteResource, ChangeResourceStatus, Reload, Deletes, Changes, tables
    <3>2. tx'[c] = {} /\ target'[c] = target[c]
      BY <1>1, <3>1 DEF AtStatement
    <3>3. QED BY <3>1, <3>2 DEF Aims
  <2>3. QED BY <2>1, <2>2
<1>7. CASE SessionLands(c) \/ Undelivered(c) \/ SessionEnds(c)
  <2>1. Free(c)
    BY <1>7 DEF SessionLands, Undelivered, SessionEnds
  <2>2. tx'[c] = {} /\ pc'[c] = "idle" /\ target'[c] = NoId
    BY <1>1, <2>1 DEF Free
  <2>3. UNCHANGED tables \/ Commits(c) \/ Deletes(c) \/ Changes(c)
    BY <1>1, <1>7 DEF SessionLands, Undelivered, SessionEnds, Commits, Deletes, Changes, WriteRow,
                      AtStatement
  <2>4. QED BY <2>2, <2>3 DEF Aims
<1>8. QED
  BY <1>2, <1>3, <1>4, <1>5, <1>6, <1>7 DEF Step, Abort

\* The locks and the fresh ids, as far as they depend on c, after a step of c
\* in its transaction.
LEMMA ExecutedTables ==
  ASSUME Registers, Registers', Tables, NEW c \in Calls, Executed(c),
         \A d \in Calls \ {c} : /\ pc'[d] = pc[d] /\ req'[d] = req[d]
                                /\ target'[d] = target[d] /\ tx'[d] = tx[d]
  PROVE  Tables'
<1>1. /\ req'[c] = req[c] /\ target'[c] = target[c] /\ UNCHANGED tables
      /\ AtStatement(c) /\ pc[c] \in InTx
  BY DEF Executed, Registers, InTx
<1>2. RowsAreWhole' /\ Typed'
  BY <1>1 DEF Tables, RowsAreWhole, Typed, Found, Live, tables
<1>3. \A d \in Calls : req'[d] = req[d] /\ target'[d] = target[d]
  BY <1>1
<1>4. ASSUME NEW d \in Calls
      PROVE  Locked(d)'
  <2>1. Locked(d)
    BY DEF Tables
  <2>2. CASE d # c
    BY <1>1, <2>1, <2>2 DEF Locked, Live, tables
  <2>3. CASE d = c
    BY <1>1, <2>1, <2>3 DEF Executed, Locked, Live, tables, AtStatement
  <2>4. QED BY <2>2, <2>3
<1>5. ASSUME NEW d \in Calls
      PROVE  Fresh(d)'
  <2>1. Fresh(d)
    BY DEF Tables
  <2>2. pc'[d] \in InTx \cup Sessions => pc[d] \in InTx \cup Sessions
    BY <1>1
  <2>3. QED BY <1>1, <1>3, <2>1, <2>2 DEF Fresh, Unborn, tables
<1>6. ASSUME NEW d \in Calls, d # c, "base" \in tx[d], target[d] = target[c], "base" \in tx'[c]
      PROVE  FALSE
  <2>1. OneWriter(c, d) /\ Fresh(c)
    BY DEF Tables
  <2>2. CASE "base" \in tx[c]
    BY <1>6, <2>1, <2>2 DEF OneWriter
  <2>3. CASE pc[c] = "insert"
    BY <1>1, <1>6, <2>1, <2>3 DEF Fresh, AtStatement
  <2>4. CASE pc[c] = "base" /\ WaitsFor(c) = {}
    BY <1>6, <2>4 DEF WaitsFor, NeedsRow
  <2>5. QED BY <1>6, <2>2, <2>3, <2>4 DEF Executed
<1>7. ASSUME NEW d \in Calls, NEW e \in Calls
      PROVE  OneWriter(d, e)'
  <2>1. OneWriter(d, e)
    BY DEF Tables
  <2>2. CASE d # c /\ e # c
    BY <2>1, <2>2 DEF OneWriter
  <2>3. CASE d = c /\ e # c
    BY <1>1, <1>6, <2>3 DEF OneWriter
  <2>4. CASE d # c /\ e = c
    BY <1>1, <1>6, <2>4 DEF OneWriter
  <2>5. QED BY <2>2, <2>3, <2>4 DEF OneWriter
<1>8. QED
  BY <1>2, <1>4, <1>5, <1>7 DEF Tables

\* A step after which c has nothing open: it is enough that it keeps the rows
\* that others hold, and those that nobody has created yet.
LEMMA ClosedTables ==
  ASSUME Registers, Registers', Tables, NEW c \in Calls, tx'[c] = {}, Aims(c),
         \A d \in Calls \ {c} : /\ pc'[d] = pc[d] /\ req'[d] = req[d]
                                /\ target'[d] = target[d] /\ tx'[d] = tx[d],
         \A d \in Calls \ {c} : Locked(d)',
         \A id \in Ids : Unborn(id) /\ (\A d \in Calls : target[d] = id => d # c) => Unborn(id)',
         UNCHANGED tables \/ pc[c] # "idle",
         RowsAreWhole' /\ Typed'
  PROVE  Tables'
<1>1. ASSUME NEW d \in Calls
      PROVE  Locked(d)'
  <2>1. CASE d = c
    BY <2>1 DEF Locked
  <2>2. QED BY <2>1
<1>2. ASSUME NEW d \in Calls, NEW e \in Calls
      PROVE  OneWriter(d, e)'
  <2>1. OneWriter(d, e)
    BY DEF Tables
  <2>2. CASE d = c \/ e = c
    BY <2>2 DEF OneWriter
  <2>3. CASE d # c /\ e # c
    BY <2>1, <2>3 DEF OneWriter
  <2>4. QED BY <2>2, <2>3
<1>3. ASSUME NEW d \in Calls, d # c
      PROVE  Fresh(d)'
  <2> SUFFICES ASSUME pc'[d] \in InTx \cup Sessions, req'[d].op = "create"
               PROVE  /\ resources'[target'[d]].life = "unborn"
                      /\ \A e \in Calls \ {d} : target'[e] # target'[d]
    BY DEF Fresh, Unborn
  <2>1. /\ Unborn(target[d]) /\ \A e \in Calls \ {d} : target[e] # target[d]
        /\ target'[d] = target[d]
    BY <1>3 DEF Tables, Fresh
  <2>2. target[d] \in Ids
    BY <1>3 DEF Registers, AtStatement, InTx, Sessions
  <2>3. resources'[target[d]].life = "unborn"
    BY <1>3, <2>1, <2>2 DEF Unborn
  <2>4. target'[c] # target[d]
    <3>1. target[c] # target[d]
      BY <1>3, <2>1
    <3>2. NoId # target[d]
      BY <2>2, NoIdAssumption
    <3>3. \A e \in Calls : target[e] = target[d] => req[e].op = "create"
      BY <1>3, <2>1
    <3>4. QED BY <1>3, <2>1, <3>1, <3>2, <3>3 DEF Aims
  <2>5. QED BY <1>3, <2>1, <2>3, <2>4
<1>4. Fresh(c)'
  <2> SUFFICES ASSUME pc'[c] \in InTx \cup Sessions, req'[c].op = "create"
               PROVE  /\ resources'[target'[c]].life = "unborn"
                      /\ \A e \in Calls \ {c} : target'[e] # target'[c]
    BY DEF Fresh, Unborn
  <2>1. Unborn(target'[c]) /\ \A d \in Calls : target[d] # target'[c]
    BY DEF Aims, Pending
  <2>2. UNCHANGED tables
    <3>1. Arrival(c)
      BY DEF Aims, Pending
    <3>2. pc[c] = "idle"
      BY <3>1 DEF Arrival, CreateResource, UpdateResource, WriteOutsideTx, SentBefore, Start
    <3>3. QED BY <3>2
  <2>3. QED BY <2>1, <2>2 DEF Unborn, tables
<1>5. QED
  BY <1>1, <1>2, <1>3, <1>4 DEF Tables

\* Wholeness is about the life and the type of the resources and which
\* details rows there are, not about what stands in them.
LEMMA WholeStays ==
  ASSUME RowsAreWhole, Typed,
         \A id \in Ids :
            /\ resources'[id].life = resources[id].life /\ resources'[id].type = resources[id].type
            /\ \A t \in Types : details'[t][id].there <=> details[t][id].there
  PROVE  RowsAreWhole' /\ Typed'
<1>1. Typed'
  BY DEF Typed, Live
<1>2. ASSUME NEW id \in Ids, Live(id)'
      PROVE  Found(id)' = "found"
  <2>1. Live(id) /\ Found(id) = "found" /\ resources[id].type \in Types
    BY <1>2 DEF RowsAreWhole, Typed, Live
  <2>2. details[resources[id].type][id].there
    BY <2>1 DEF Found
  <2>3. details'[resources'[id].type][id].there
    BY <2>1, <2>2
  <2>4. QED BY <1>2, <2>3 DEF Found
<1>3. ASSUME NEW id \in Ids, NEW t \in Types, details'[t][id].there
      PROVE  Live(id)' /\ resources'[id].type = t
  BY <1>3 DEF RowsAreWhole, Live
<1>4. QED
  BY <1>1, <1>2, <1>3 DEF RowsAreWhole

\* What the writes mean for the life of resources and for their details.
LEMMA CommitWhole ==
  ASSUME Registers, Tables, NEW c \in Calls, Commits(c)
  PROVE  /\ RowsAreWhole' /\ Typed'
         /\ \A id \in Ids : Live(id) => Live(id)'
         /\ \A id \in Ids, t \in Types : details[t][id].there => details'[t][id].there
         /\ \A id \in Ids \ {target[c]} : resources'[id] = resources[id]
<1> DEFINE me == target[c]  kind == req[c].kind
<1>1. /\ req[c] \in Requests /\ me \in Ids /\ AtStatement(c)
      /\ kind \in Types \cup {"none"} /\ req[c].op \in {"create", "update"}
  BY RequestFields DEF Registers, AtStatement, Commits, Complete
<1>2. /\ \A id \in Ids \ {me} : resources'[id] = resources[id]
      /\ \A t \in Types, id \in Ids : t # kind \/ id # me => details'[t][id] = details[t][id]
      /\ kind # "none" => details'[kind][me] = DetailsRow(req[c].val, req[c].serial)
      /\ req[c].op = "create" => resources'[me] = Row(req[c].type, req[c].val)
      /\ req[c].op = "update" => resources'[me] = Overwritten(resources[me], req[c])
  BY CommitEffect
<1>3. kind # "none" => details'[kind][me].there
  BY <1>2 DEF DetailsRow
<1>4. CASE req[c].op = "create"
  <2>1. kind \in Types /\ req[c].type = kind
    <3>1. req[c].kind = req[c].type
      BY <1>1, <1>4 DEF AtStatement, Commits
    <3>2. QED BY <1>1, <1>4, <3>1, RequestFields
  <2>2. resources'[me].life = "live" /\ resources'[me].type = kind
    BY <1>2, <1>4, <2>1 DEF Row
  <2>3. ~Live(me) /\ \A t \in Types : ~details[t][me].there
    BY <1>1, <1>4 DEF Tables, Fresh, Unborn, Live, RowsAreWhole, InTx, Sessions, Commits
  <2>4. ASSUME NEW id \in Ids
        PROVE  /\ Live(id)' => Found(id)' = "found" /\ resources'[id].type \in Types
               /\ \A t \in Types : details'[t][id].there => Live(id)' /\ resources'[id].type = t
    <3>1. CASE id = me
      BY <1>1, <1>2, <1>3, <2>1, <2>2, <2>3, <3>1, NoneIsNoType DEF Live, Found
    <3>2. CASE id # me
      <4>1. resources'[id] = resources[id] /\ \A t \in Types : details'[t][id] = details[t][id]
        BY <1>2, <3>2
      <4>2. /\ Live(id) => Found(id) = "found" /\ resources[id].type \in Types
            /\ \A t \in Types : details[t][id].there => Live(id) /\ resources[id].type = t
        BY DEF Tables, RowsAreWhole, Typed
      <4>3. QED BY <4>1, <4>2 DEF Live, Found
    <3>3. QED BY <3>1, <3>2
  <2>5. RowsAreWhole' /\ Typed'
    BY <2>4 DEF RowsAreWhole, Typed
  <2>6. QED BY <1>2, <2>2, <2>3, <2>5 DEF Live
<1>5. CASE req[c].op = "update"
  <2>1. resources'[me].life = resources[me].life /\ resources'[me].type = resources[me].type
    BY <1>1, <1>2, <1>5 DEF Overwritten, Registers, TypeOK
  <2>2. kind # "none" => details[kind][me].there
    <3>1. kind # "none" => "base" \in tx[c] /\ "details" \in tx[c]
      BY <1>1 DEF Commits, Complete
    <3>2. Locked(c)
      BY DEF Tables
    <3>3. QED BY <1>5, <3>1, <3>2 DEF Locked
  <2>3. ASSUME NEW id \in Ids
        PROVE  /\ resources'[id].life = resources[id].life /\ resources'[id].type = resources[id].type
               /\ \A t \in Types : details'[t][id].there <=> details[t][id].there
    <3>1. /\ resources'[id].life = resources[id].life /\ resources'[id].type = resources[id].type
      BY <1>2, <2>1
    <3>2. ASSUME NEW t \in Types
          PROVE  details'[t][id].there <=> details[t][id].there
      <4>1. CASE t = kind /\ id = me
        BY <1>3, <2>2, <4>1, NoneIsNoType
      <4>2. CASE ~(t = kind /\ id = me)
        BY <1>2, <4>2
      <4>3. QED BY <4>1, <4>2
    <3>3. QED BY <3>1, <3>2
  <2>4. RowsAreWhole' /\ Typed'
    BY <2>3, WholeStays DEF Tables
  <2>5. QED BY <1>2, <2>3, <2>4 DEF Live
<1>6. QED
  BY <1>1, <1>4, <1>5

\* Only a request with details executes a statement for them.
LEMMA DetailsKind ==
  ASSUME Registers, NEW c \in Calls, "details" \in tx[c]
  PROVE  req[c].kind \in Types
<1>1. AtStatement(c) /\ pc[c] \in {"details", "index", "commit"} \cup Sessions /\ req[c] \in Requests
  BY OpenTransaction DEF Registers
<1>2. req[c].kind # "none"
  <2>1. pc[c] = "details" => tx[c] = {"base"}
    BY <1>1 DEF AtStatement
  <2>2. pc[c] = "index" => req[c].kind = "device"
    BY <1>1 DEF AtStatement
  <2>3. pc[c] \in {"commit", "sent", "left"} => req[c].kind # "none"
    BY <1>1 DEF AtStatement, Complete
  <2>4. QED BY <1>1, <2>1, <2>2, <2>3 DEF Sessions
<1>3. QED
  BY <1>1, <1>2, RequestFields

\* What a DELETE and a change of status make of the tables.
LEMMA DeleteEffect ==
  ASSUME Registers, NEW c \in Calls, Deletes(c)
  PROVE  /\ target[c] \in Ids
         /\ \A d \in Calls \ {c} : target[d] = target[c] => "base" \notin tx[d]
         /\ resources'[target[c]] = NoRow("gone")
         /\ \A t \in Types : details'[t][target[c]] = NoDetails
         /\ \A id \in Ids \ {target[c]} :
               /\ resources'[id] = resources[id]
               /\ \A t \in Types : details'[t][id] = details[t][id]
<1>1. /\ pc[c] \in {"write", "sent"} /\ req[c].op = "delete" /\ WaitsFor(c) = {}
      /\ resources' = [resources EXCEPT ![target[c]] = NoRow("gone")]
      /\ details' = [t \in Types |-> [details[t] EXCEPT ![target[c]] = NoDetails]]
  BY DEF Deletes, WriteRow
<1>2. target[c] \in Ids
  BY <1>1 DEF Registers, AtStatement
<1>3. /\ resources \in [Ids -> [life : {"unborn", "live", "gone"}, type : Types \cup {"none"},
                                cols : [Columns -> Vals \cup {Blank}]]]
      /\ details \in [Types -> [Ids -> [there : BOOLEAN, val : Vals \cup {Blank},
                                        serial : Serials \cup {""}]]]
  BY DEF Registers, TypeOK
<1>4. /\ resources'[target[c]] = NoRow("gone")
      /\ \A id \in Ids \ {target[c]} : resources'[id] = resources[id]
  BY <1>1, <1>2, <1>3
<1>5. /\ \A t \in Types : details'[t][target[c]] = NoDetails
      /\ \A id \in Ids \ {target[c]}, t \in Types : details'[t][id] = details[t][id]
  BY <1>1, <1>2, <1>3
<1>6. \A d \in Calls \ {c} : target[d] = target[c] => "base" \notin tx[d]
  BY <1>1 DEF WaitsFor, NeedsRow
<1>7. QED
  BY <1>2, <1>4, <1>5, <1>6

\* ChangeResourceStatus writes the base row of its target alone.
LEMMA ChangeEffect ==
  ASSUME Registers, NEW c \in Calls, Changes(c)
  PROVE  /\ target[c] \in Ids /\ UNCHANGED details
         /\ \A d \in Calls \ {c} : target[d] = target[c] => "base" \notin tx[d]
         /\ resources'[target[c]] = Overwritten(resources[target[c]], req[c])
         /\ \A id \in Ids \ {target[c]} : resources'[id] = resources[id]
         /\ \A id \in Ids : /\ resources'[id].life = resources[id].life
                            /\ resources'[id].type = resources[id].type
<1>1. /\ pc[c] \in {"write", "sent"} /\ req[c].op = "change" /\ WaitsFor(c) = {}
      /\ UNCHANGED details
      /\ resources' = [resources EXCEPT ![target[c]] = Overwritten(@, req[c])]
  BY DEF Changes, WriteRow
<1>2. target[c] \in Ids
  BY <1>1 DEF Registers, AtStatement
<1>3. resources \in [Ids -> [life : {"unborn", "live", "gone"}, type : Types \cup {"none"},
                             cols : [Columns -> Vals \cup {Blank}]]]
  BY DEF Registers, TypeOK
<1>4. /\ resources'[target[c]] = Overwritten(resources[target[c]], req[c])
      /\ \A id \in Ids \ {target[c]} : resources'[id] = resources[id]
  BY <1>1, <1>2, <1>3
<1>5. /\ resources'[target[c]].life = resources[target[c]].life
      /\ resources'[target[c]].type = resources[target[c]].type
  BY <1>2, <1>3, <1>4 DEF Overwritten
<1>6. \A d \in Calls \ {c} : target[d] = target[c] => "base" \notin tx[d]
  BY <1>1 DEF WaitsFor, NeedsRow
<1>7. QED
  BY <1>1, <1>2, <1>4, <1>5, <1>6

\* What open transactions rely on when other calls are over for the service.
LEMMA AbandonTables ==
  ASSUME Registers, Tables, NEW C \in SUBSET Calls, Abandon(C)
  PROVE  Tables'
<1>1. ASSUME NEW d \in Calls
      PROVE  /\ tx'[d] = tx[d] /\ UNCHANGED tables /\ target'[d] \in {target[d], NoId}
             /\ tx[d] # {} \/ pc'[d] # "idle" => req'[d] = req[d] /\ target'[d] = target[d]
             /\ pc'[d] \in InTx \cup Sessions /\ req[d].op = "create" => pc[d] \in InTx \cup Sessions
  <2>1. /\ d \notin C => /\ pc'[d] = pc[d] /\ req'[d] = req[d] /\ target'[d] = target[d]
        /\ d \in C => /\ pc'[d] = Remains(d)
                      /\ Remains(d) # "idle" => req'[d] = req[d] /\ target'[d] = target[d]
                      /\ Remains(d) = "idle" => target'[d] = NoId /\ tx[d] = {}
        /\ tx'[d] = tx[d] /\ UNCHANGED tables
    BY AbandonEffect
  <2>2. Remains(d) \in InTx \cup Sessions => pc[d] \in {"write", "commit", "sent"} \/ tx[d] # {}
    BY DEF Remains, InTx, Sessions
  <2>3. pc[d] = "write" => req[d].op # "create"
    BY DEF Registers, AtStatement
  <2>4. tx[d] # {} => pc[d] \in InTx \cup Sessions
    BY OpenTransaction DEF InTx
  <2>5. pc'[d] \in InTx \cup Sessions /\ req[d].op = "create" => pc[d] \in InTx \cup Sessions
    BY <2>1, <2>2, <2>3, <2>4 DEF InTx, Sessions
  <2>6. QED BY <2>1, <2>5
<1>2. RowsAreWhole' /\ Typed'
  <2>1. UNCHANGED tables
    BY DEF Abandon
  <2>2. QED BY <2>1 DEF Tables, RowsAreWhole, Typed, Found, Live, tables
<1>3. ASSUME NEW d \in Calls
      PROVE  Locked(d)'
  <2>1. Locked(d)
    BY DEF Tables
  <2>2. QED BY <1>1, <2>1 DEF Locked, Live, tables
<1>4. ASSUME NEW d \in Calls
      PROVE  Fresh(d)'
  <2> SUFFICES ASSUME pc'[d] \in InTx \cup Sessions, req'[d].op = "create"
               PROVE  /\ resources'[target'[d]].life = "unborn"
                      /\ \A e \in Calls \ {d} : target'[e] # target'[d]
    BY DEF Fresh, Unborn
  <2>1. pc'[d] # "idle"
    BY DEF InTx, Sessions
  <2>2. req'[d] = req[d] /\ target'[d] = target[d] /\ pc[d] \in InTx \cup Sessions
    BY <1>1, <2>1
  <2>3. Unborn(target[d]) /\ \A e \in Calls \ {d} : target[e] # target[d]
    BY <2>2 DEF Tables, Fresh
  <2>4. target[d] \in Ids
    BY <2>2 DEF Registers, AtStatement, InTx, Sessions
  <2>5. \A e \in Calls \ {d} : target'[e] # target[d]
    BY <1>1, <2>3, <2>4, NoIdAssumption
  <2>6. QED BY <1>1, <2>2, <2>3, <2>5 DEF Unborn, tables
<1>5. ASSUME NEW d \in Calls, NEW e \in Calls
      PROVE  OneWriter(d, e)'
  <2>1. OneWriter(d, e)
    BY DEF Tables
  <2>2. QED BY <1>1, <2>1 DEF OneWriter
<1>6. QED
  BY <1>2, <1>3, <1>4, <1>5 DEF Tables

\* The second layer: every step keeps the tables whole.
LEMMA TablesStep ==
  ASSUME Registers, Registers', Tables, [Next]_vars
  PROVE  Tables'
<1>1. CASE UNCHANGED vars
  <2>1. /\ resources' = resources /\ details' = details /\ pc' = pc /\ req' = req
        /\ target' = target /\ tx' = tx
    BY <1>1 DEF vars
  <2>2. RowsAreWhole' /\ Typed'
    BY <2>1 DEF Tables, RowsAreWhole, Typed, Found, Live
  <2>3. \A d \in Calls : Locked(d)' /\ Fresh(d)'
    BY <2>1 DEF Tables, Locked, Fresh, Live, Unborn
  <2>4. \A d, e \in Calls : OneWriter(d, e)'
    BY <2>1 DEF Tables, OneWriter
  <2>5. QED BY <2>2, <2>3, <2>4 DEF Tables
<1>2. ASSUME NEW C \in SUBSET Calls, Abandon(C)
      PROVE  Tables'
  BY <1>2, AbandonTables
<1>3. ASSUME NEW c \in Calls, Arrival(c) \/ Step(c) \/ Abort(c)
      PROVE  Tables'
  <2>1. \A d \in Calls \ {c} : /\ pc'[d] = pc[d] /\ req'[d] = req[d]
                               /\ target'[d] = target[d] /\ tx'[d] = tx[d]
    BY <1>3, Bystander DEF Registers
  <2>2. \A d \in Calls : Locked(d)
    BY DEF Tables
  <2>3. CASE Executed(c)
    BY <2>1, <2>3, ExecutedTables
  <2>4. CASE tx'[c] = {} /\ Aims(c) /\ UNCHANGED tables
    <3>1. RowsAreWhole' /\ Typed'
      BY <2>4 DEF Tables, RowsAreWhole, Typed, Found, Live, tables
    <3>2. \A d \in Calls \ {c} : Locked(d)'
      BY <2>1, <2>2, <2>4 DEF Locked, Live, tables
    <3>3. \A id \in Ids : Unborn(id) => Unborn(id)'
      BY <2>4 DEF Unborn, tables
    <3>4. QED BY <2>1, <2>4, <3>1, <3>2, <3>3, ClosedTables
  <2>5. CASE tx'[c] = {} /\ Aims(c) /\ Commits(c)
    <3>1. /\ RowsAreWhole' /\ Typed'
          /\ \A id \in Ids : Live(id) => Live(id)'
          /\ \A id \in Ids, t \in Types : details[t][id].there => details'[t][id].there
          /\ \A id \in Ids \ {target[c]} : resources'[id] = resources[id]
      BY <2>5, CommitWhole
    <3>2. ASSUME NEW d \in Calls, d # c
          PROVE  Locked(d)'
      <4> SUFFICES ASSUME "base" \in tx'[d], req'[d].op = "update"
                   PROVE  /\ resources'[target[d]].life = "live"
                          /\ "details" \in tx'[d] => details'[req[d].kind][target[d]].there
        BY <2>1, <3>2 DEF Locked, Live
      <4>1. "base" \in tx[d] /\ req[d].op = "update" /\ tx'[d] = tx[d]
        BY <2>1, <3>2
      <4>2. target[d] \in Ids /\ req[d] \in Requests
        BY <3>2, <4>1, OpenTransaction
      <4>3. "details" \in tx[d] => req[d].kind \in Types
        BY <3>2, <4>1, <4>2, DetailsKind
      <4>4. Live(target[d]) /\ ("details" \in tx[d] => details[req[d].kind][target[d]].there)
        BY <2>2, <3>2, <4>1 DEF Locked
      <4>5. resources'[target[d]].life = "live"
        BY <3>1, <4>2, <4>4 DEF Live
      <4>6. QED BY <2>1, <3>1, <3>2, <4>1, <4>2, <4>3, <4>4, <4>5
    <3>3. \A id \in Ids : Unborn(id) /\ (\A d \in Calls : target[d] = id => d # c) => Unborn(id)'
      BY <3>1 DEF Unborn
    <3>4. pc[c] # "idle"
      BY <2>5 DEF Commits
    <3>5. QED BY <2>1, <2>5, <3>1, <3>2, <3>3, <3>4, ClosedTables
  <2>6. CASE tx'[c] = {} /\ Aims(c) /\ Deletes(c)
    <3> DEFINE me == target[c]
    <3>1. /\ me \in Ids /\ \A d \in Calls \ {c} : target[d] = me => "base" \notin tx[d]
          /\ resources'[me] = NoRow("gone")
          /\ \A t \in Types : details'[t][me] = NoDetails
          /\ \A id \in Ids \ {me} :
                /\ resources'[id] = resources[id]
                /\ \A t \in Types : details'[t][id] = details[t][id]
      BY <2>6, DeleteEffect
    <3>2. \A id \in Ids \ {me} : Live(id)' <=> Live(id)
      BY <3>1 DEF Live
    <3>3. RowsAreWhole' /\ Typed'
      <4>1. ASSUME NEW id \in Ids
            PROVE  /\ Live(id)' => Found(id)' = "found" /\ resources'[id].type \in Types
                   /\ \A t \in Types : details'[t][id].there => Live(id)' /\ resources'[id].type = t
        <5>1. CASE id = me
          <6>1. NoRow("gone").life = "gone" /\ ~NoDetails.there
            BY DEF NoRow, NoDetails
          <6>2. resources'[id] = NoRow("gone") /\ \A t \in Types : details'[t][id] = NoDetails
            BY <3>1, <5>1
          <6>3. QED BY <6>1, <6>2 DEF Live
        <5>2. CASE id # me
          <6>1. resources'[id] = resources[id] /\ \A t \in Types : details'[t][id] = details[t][id]
            BY <3>1, <5>2
          <6>2. /\ Live(id) => Found(id) = "found" /\ resources[id].type \in Types
                /\ \A t \in Types : details[t][id].there => Live(id) /\ resources[id].type = t
            BY DEF Tables, RowsAreWhole, Typed
          <6>3. QED BY <6>1, <6>2 DEF Live, Found
        <5>3. QED BY <5>1, <5>2
      <4>2. QED BY <4>1 DEF RowsAreWhole, Typed
    <3>4. ASSUME NEW d \in Calls, d # c
          PROVE  Locked(d)'
      <4> SUFFICES ASSUME "base" \in tx'[d], req'[d].op = "update"
                   PROVE  /\ resources'[target[d]].life = "live"
                          /\ "details" \in tx'[d] => details'[req[d].kind][target[d]].there
        BY <2>1, <3>4 DEF Locked, Live
      <4>1. "base" \in tx[d] /\ req[d].op = "update" /\ tx'[d] = tx[d]
        BY <2>1, <3>4
      <4>2. target[d] \in Ids /\ req[d] \in Requests
        BY <3>4, <4>1, OpenTransaction
      <4>3. "details" \in tx[d] => req[d].kind \in Types
        BY <3>4, <4>1, <4>2, DetailsKind
      <4>4. Live(target[d]) /\ ("details" \in tx[d] => details[req[d].kind][target[d]].there)
        BY <2>2, <3>4, <4>1 DEF Locked
      <4>5. target[d] # me
        BY <3>1, <3>4, <4>1
      <4>6. QED BY <3>1, <4>1, <4>2, <4>3, <4>4, <4>5 DEF Live
    <3>5. \A id \in Ids : Unborn(id) /\ (\A d \in Calls : target[d] = id => d # c) => Unborn(id)'
      BY <3>1 DEF Unborn
    <3>6. pc[c] # "idle"
      BY <2>6 DEF Deletes
    <3>7. QED BY <2>1, <2>6, <3>3, <3>4, <3>5, <3>6, ClosedTables
  <2>7. CASE tx'[c] = {} /\ Aims(c) /\ Changes(c)
    <3>1. /\ details' = details
          /\ \A id \in Ids : /\ resources'[id].life = resources[id].life
                             /\ resources'[id].type = resources[id].type
      BY <2>7, ChangeEffect
    <3>2. RowsAreWhole' /\ Typed'
      BY <3>1, WholeStays DEF Tables
    <3>3. ASSUME NEW d \in Calls, d # c
          PROVE  Locked(d)'
      <4>1. "base" \in tx[d] => target[d] \in Ids
        BY <3>3, OpenTransaction
      <4>2. QED BY <2>1, <2>2, <3>1, <3>3, <4>1 DEF Locked, Live
    <3>4. \A id \in Ids : Unborn(id) => Unborn(id)'
      BY <3>1 DEF Unborn
    <3>5. pc[c] # "idle"
      BY <2>7 DEF Changes
    <3>6. QED BY <2>1, <2>7, <3>2, <3>3, <3>4, <3>5, ClosedTables
  <2>8. QED
    BY <1>3, <2>3, <2>4, <2>5, <2>6, <2>7, Steps
<1>4. QED
  BY <1>1, <1>2, <1>3, Cases

\* The rows that the process finds at its start are whole.
LEMMA TablesInit == Init => Tables
<1> SUFFICES ASSUME Init PROVE Tables
  OBVIOUS
<1>1. PICK t \in [Ids -> Types \cup {"none"}], s \in [Ids -> Serials \cup {""}] :
         /\ resources = [id \in Ids |-> IF t[id] = "none" THEN NoRow("unborn")
                                        ELSE Row(t[id], Blank)]
         /\ details = [k \in Types |-> [id \in Ids |->
                         IF t[id] = k THEN DetailsRow(Blank, s[id]) ELSE NoDetails]]
  BY DEF Init
<1>2. ASSUME NEW id \in Ids
      PROVE  /\ Live(id) => Found(id) = "found" /\ resources[id].type \in Types
             /\ \A k \in Types : details[k][id].there => Live(id) /\ resources[id].type = k
  <2>1. CASE t[id] = "none"
    BY <1>1, <2>1, NoneIsNoType DEF Live, NoRow, NoDetails
  <2>2. CASE t[id] # "none"
    <3>1. t[id] \in Types /\ resources[id] = Row(t[id], Blank)
      BY <1>1, <2>2
    <3>2. Live(id) /\ resources[id].type = t[id]
      <4>1. Row(t[id], Blank).life = "live" /\ Row(t[id], Blank).type = t[id]
        BY DEF Row
      <4>2. QED BY <3>1, <4>1 DEF Live
    <3>3. \A k \in Types : details[k][id].there <=> k = t[id]
      BY <1>1, <3>1 DEF DetailsRow, NoDetails
    <3>4. QED BY <3>1, <3>2, <3>3 DEF Found
  <2>3. QED BY <2>1, <2>2
<1>3. RowsAreWhole /\ Typed
  BY <1>2 DEF RowsAreWhole, Typed
<1>4. \A c \in Calls : Locked(c) /\ Fresh(c)
  BY DEF Init, Locked, Fresh, InTx, Sessions
<1>5. \A c, d \in Calls : OneWriter(c, d)
  BY DEF Init, OneWriter
<1>6. QED
  BY <1>3, <1>4, <1>5 DEF Tables

-----------------------------------------------------------------------------
(* The index on serial numbers.                                            *)

\* A step that gives nobody a serial number, nor c an entry, keeps the index.
LEMMA IndexKept ==
  ASSUME Index, NEW c \in Calls,
         "entry" \notin tx'[c] \/ (tx'[c] = tx[c] /\ req'[c] = req[c] /\ target'[c] = target[c]),
         \A d \in Calls \ {c} : /\ req'[d] = req[d] /\ target'[d] = target[d] /\ tx'[d] = tx[d],
         \A id \in Ids, s \in Serials \cup {""} : HasSerial(id, s)' => HasSerial(id, s),
         \A d \in Calls : "entry" \in tx[d] => req[d].serial \in Serials \cup {""}
  PROVE  Index'
<1>1. SerialsAreUnique'
  BY DEF Index, SerialsAreUnique
<1>2. ASSUME NEW d \in Calls, "entry" \in tx'[d]
      PROVE  "entry" \in tx[d] /\ req'[d] = req[d] /\ target'[d] = target[d]
  BY <1>2
<1>3. ASSUME NEW d \in Calls
      PROVE  Entered(d)'
  <2> SUFFICES ASSUME "entry" \in tx'[d], NEW id \in Ids \ {target[d]},
                      NEW s \in nullableString(req[d].serial), HasSerial(id, s)'
               PROVE  FALSE
    BY <1>2 DEF Entered, Taken
  <2>1. s = req[d].serial /\ s \in Serials \cup {""}
    BY <1>2 DEF nullableString
  <2>2. HasSerial(id, s)
    BY <2>1
  <2>3. QED BY <1>2, <2>2 DEF Index, Entered, Taken
<1>4. \A d, e \in Calls : OneEntry(d, e)'
  BY <1>2 DEF Index, OneEntry
<1>5. QED
  BY <1>1, <1>3, <1>4 DEF Index

\* A serial number that is entered.
LEMMA EntrySerial ==
  ASSUME Registers, NEW c \in Calls, "entry" \in tx[c]
  PROVE  req[c].serial \in Serials \cup {""}
BY OpenTransaction, RequestFields

\* The entry itself: whoever might be about to take the number is waited for.
LEMMA EntryMade ==
  ASSUME Registers, Index, NEW c \in Calls, UNCHANGED tables,
         req'[c] = req[c], target'[c] = target[c], tx'[c] = tx[c] \cup {"entry"},
         pc[c] = "index", WaitsFor(c) = {}, ~Taken(c),
         \A d \in Calls \ {c} : /\ req'[d] = req[d] /\ target'[d] = target[d] /\ tx'[d] = tx[d]
  PROVE  Index'
<1>1. \A d \in Calls : req'[d] = req[d] /\ target'[d] = target[d]
  OBVIOUS
<1>2. details' = details
  BY DEF tables
<1>3. SerialsAreUnique'
  BY <1>2 DEF Index, SerialsAreUnique, HasSerial
<1>4. ASSUME NEW d \in Calls
      PROVE  Entered(d)'
  <2>1. Taken(d)' <=> Taken(d)
    BY <1>1, <1>2 DEF Taken, HasSerial
  <2>2. CASE d = c
    BY <2>1, <2>2 DEF Entered
  <2>3. CASE d # c
    BY <2>1, <2>3 DEF Index, Entered
  <2>4. QED BY <2>2, <2>3
<1>5. ASSUME NEW d \in Calls, d # c, "entry" \in tx[d], req[c].serial = req[d].serial, req[c].serial # ""
      PROVE  FALSE
  <2>1. nullableString(req[c].serial) \cap Claims(d) = {}
    BY <1>5 DEF WaitsFor, NeedsRow
  <2>2. req[c].serial \in nullableString(req[c].serial)
    BY <1>5 DEF nullableString
  <2>3. req[c].serial \in Claims(d)
    BY <1>5, <2>2 DEF Claims
  <2>4. QED BY <2>1, <2>2, <2>3
<1>6. ASSUME NEW d \in Calls, NEW e \in Calls
      PROVE  OneEntry(d, e)'
  <2>1. OneEntry(d, e)
    BY DEF Index
  <2>2. CASE d # c /\ e # c
    BY <2>1, <2>2 DEF OneEntry
  <2>3. CASE d = c /\ e # c
    BY <1>1, <1>5, <2>3 DEF OneEntry
  <2>4. CASE d # c /\ e = c
    BY <1>1, <1>5, <2>4 DEF OneEntry
  <2>5. QED BY <2>2, <2>3, <2>4 DEF OneEntry
<1>7. QED
  BY <1>3, <1>4, <1>6 DEF Index

\* What a COMMIT makes of the serial numbers in use.
LEMMA CommitSerials ==
  ASSUME Registers, NEW c \in Calls, Commits(c),
         NEW id \in Ids, NEW s, HasSerial(id, s)'
  PROVE  \/ HasSerial(id, s)
         \/ id = target[c] /\ s = req[c].serial /\ "entry" \in tx[c]
<1>1. /\ \A t \in Types, i \in Ids : t # req[c].kind \/ i # target[c] =>
            details'[t][i] = details[t][i]
      /\ req[c].kind # "none" =>
            details'[req[c].kind][target[c]] = DetailsRow(req[c].val, req[c].serial)
  BY CommitEffect
<1>2. "entry" \in tx[c] <=> req[c].kind = "device"
  BY DEF Commits, Complete
<1>3. CASE req[c].kind = "device" /\ id = target[c]
  <2>1. details'["device"][id].serial = req[c].serial
    BY <1>1, <1>3 DEF DetailsRow
  <2>2. QED BY <1>2, <1>3, <2>1 DEF HasSerial
<1>4. CASE ~(req[c].kind = "device" /\ id = target[c])
  BY <1>1, <1>4 DEF HasSerial
<1>5. QED
  BY <1>3, <1>4

\* A commit writes the serial that its transaction has entered in the index.
LEMMA CommitIndex ==
  ASSUME Registers, Index, NEW c \in Calls, Commits(c), tx'[c] = {},
         \A d \in Calls \ {c} : /\ req'[d] = req[d] /\ target'[d] = target[d] /\ tx'[d] = tx[d]
  PROVE  Index'
<1> DEFINE me == target[c]  sn == req[c].serial
<1>1. \A id \in Ids, s \in Serials \cup {""} : HasSerial(id, s)' =>
         HasSerial(id, s) \/ (id = me /\ s = sn /\ "entry" \in tx[c])
  BY CommitSerials
<1>2. ASSUME NEW id \in Ids \ {me}, "entry" \in tx[c], HasSerial(id, sn), sn # ""
      PROVE  FALSE
  <2>1. sn \in nullableString(sn)
    BY <1>2 DEF nullableString
  <2>2. Taken(c)
    BY <1>2, <2>1 DEF Taken
  <2>3. QED BY <1>2, <2>2 DEF Index, Entered
<1>3. SerialsAreUnique'
  <2> SUFFICES ASSUME NEW s \in Serials, NEW i \in Ids, NEW j \in Ids,
                      HasSerial(i, s)', HasSerial(j, s)'
               PROVE  i = j
    BY DEF SerialsAreUnique
  <2>1. s # ""
    BY SerialsAssumption
  <2>2. CASE HasSerial(i, s) /\ HasSerial(j, s)
    BY <2>2 DEF Index, SerialsAreUnique
  <2>3. /\ HasSerial(i, s) \/ (i = me /\ s = sn /\ "entry" \in tx[c])
        /\ HasSerial(j, s) \/ (j = me /\ s = sn /\ "entry" \in tx[c])
    BY <1>1
  <2>4. CASE ~HasSerial(i, s) \/ ~HasSerial(j, s)
    <3>1. s = sn /\ "entry" \in tx[c] /\ (i = me \/ HasSerial(i, sn)) /\ (j = me \/ HasSerial(j, sn))
      BY <2>3, <2>4
    <3>2. i = me /\ j = me
      BY <1>2, <2>1, <2>3, <3>1
    <3>3. QED BY <3>2
  <2>5. QED BY <2>2, <2>4
<1>4. ASSUME NEW d \in Calls
      PROVE  Entered(d)'
  <2> SUFFICES ASSUME d # c, "entry" \in tx[d], NEW id \in Ids \ {target[d]},
                      NEW s \in nullableString(req[d].serial), HasSerial(id, s)'
               PROVE  FALSE
    BY DEF Entered, Taken
  <2>1. s = req[d].serial /\ s # "" /\ s \in Serials \cup {""}
    BY EntrySerial DEF nullableString
  <2>2. ~HasSerial(id, s)
    BY DEF Index, Entered, Taken
  <2>3. s = sn /\ "entry" \in tx[c]
    BY <1>1, <2>1, <2>2
  <2>4. OneEntry(c, d)
    BY DEF Index
  <2>5. QED BY <2>1, <2>3, <2>4 DEF OneEntry
<1>5. ASSUME NEW d \in Calls, NEW e \in Calls
      PROVE  OneEntry(d, e)'
  <2>1. OneEntry(d, e)
    BY DEF Index
  <2>2. CASE d # c /\ e # c
    BY <2>1, <2>2 DEF OneEntry
  <2>3. CASE d = c \/ e = c
    BY <2>3 DEF OneEntry
  <2>4. QED BY <2>2, <2>3
<1>6. QED
  BY <1>3, <1>4, <1>5 DEF Index

\* The third layer: every step keeps the index.
LEMMA IndexStep ==
  ASSUME Registers, Index, [Next]_vars
  PROVE  Index'
<1>1. CASE UNCHANGED vars
  <2>1. /\ details' = details /\ req' = req /\ target' = target /\ tx' = tx
    BY <1>1 DEF vars
  <2>2. SerialsAreUnique' /\ \A d \in Calls : Entered(d)'
    BY <2>1 DEF Index, SerialsAreUnique, Entered, Taken, HasSerial
  <2>3. \A d, e \in Calls : OneEntry(d, e)'
    BY <2>1 DEF Index, OneEntry
  <2>4. QED BY <2>2, <2>3 DEF Index
<1>2. ASSUME NEW C \in SUBSET Calls, Abandon(C)
      PROVE  Index'
  <2>1. /\ details' = details
        /\ \A d \in Calls : /\ tx'[d] = tx[d]
                            /\ tx[d] # {} => req'[d] = req[d] /\ target'[d] = target[d]
    BY <1>2, AbandonEffect DEF tables, Abandon
  <2>2. SerialsAreUnique' /\ \A d \in Calls : Entered(d)'
    BY <2>1 DEF Index, SerialsAreUnique, Entered, Taken, HasSerial
  <2>3. \A d, e \in Calls : OneEntry(d, e)'
    BY <2>1 DEF Index, OneEntry
  <2>4. QED BY <2>2, <2>3 DEF Index
<1>3. ASSUME NEW c \in Calls, Arrival(c) \/ Step(c) \/ Abort(c)
      PROVE  Index'
  <2>1. \A d \in Calls \ {c} : /\ req'[d] = req[d] /\ target'[d] = target[d] /\ tx'[d] = tx[d]
    BY <1>3, Bystander DEF Registers
  <2>2. \A d \in Calls : "entry" \in tx[d] => req[d].serial \in Serials \cup {""}
    BY EntrySerial
  <2>3. CASE UNCHANGED tables /\ tx'[c] = {}
    <3>1. \A id \in Ids, s \in Serials \cup {""} : HasSerial(id, s)' => HasSerial(id, s)
      BY <2>3 DEF HasSerial, tables
    <3>2. QED BY <2>1, <2>2, <2>3, <3>1, IndexKept
  <2>4. CASE Executed(c)
    <3>1. /\ req'[c] = req[c] /\ target'[c] = target[c] /\ UNCHANGED tables
          /\ AtStatement(c)
      BY <2>4 DEF Executed, Registers
    <3>2. CASE pc[c] = "index"
      BY <2>1, <2>4, <3>1, <3>2, EntryMade DEF Executed
    <3>3. CASE pc[c] # "index"
      <4>1. "entry" \notin tx'[c]
        BY <2>4, <3>1, <3>3 DEF Executed, AtStatement
      <4>2. \A id \in Ids, s \in Serials \cup {""} : HasSerial(id, s)' => HasSerial(id, s)
        BY <3>1 DEF HasSerial, tables
      <4>3. QED BY <2>1, <2>2, <4>1, <4>2, IndexKept
    <3>4. QED BY <3>2, <3>3
  <2>5. CASE tx'[c] = {} /\ Commits(c)
    BY <2>1, <2>5, CommitIndex
  <2>6. CASE tx'[c] = {} /\ Deletes(c)
    <3>1. /\ \A t \in Types : details'[t][target[c]] = NoDetails
          /\ \A id \in Ids \ {target[c]}, t \in Types : details'[t][id] = details[t][id]
      BY <2>6, DeleteEffect
    <3>2. ~NoDetails.there
      BY DEF NoDetails
    <3>3. \A id \in Ids, s \in Serials \cup {""} : HasSerial(id, s)' => HasSerial(id, s)
      BY <3>1, <3>2 DEF HasSerial
    <3>4. QED BY <2>1, <2>2, <2>6, <3>3, IndexKept
  <2>7. CASE tx'[c] = {} /\ Changes(c)
    <3>1. details' = details
      BY <2>7, ChangeEffect
    <3>2. \A id \in Ids, s \in Serials \cup {""} : HasSerial(id, s)' => HasSerial(id, s)
      BY <3>1 DEF HasSerial
    <3>3. QED BY <2>1, <2>2, <2>7, <3>2, IndexKept
  <2>8. QED
    BY <1>3, <2>3, <2>4, <2>5, <2>6, <2>7, Steps
<1>4. QED
  BY <1>1, <1>2, <1>3, Cases

\* The serials that the process finds at its start are unique.
LEMMA IndexInit == Init => Index
<1> SUFFICES ASSUME Init PROVE Index
  OBVIOUS
<1>1. PICK t \in [Ids -> Types \cup {"none"}], s \in [Ids -> Serials \cup {""}] :
         /\ \A i, j \in Ids : i # j /\ s[i] = s[j] => s[i] = ""
         /\ details = [k \in Types |-> [id \in Ids |->
                         IF t[id] = k THEN DetailsRow(Blank, s[id]) ELSE NoDetails]]
  BY DEF Init
<1>2. ASSUME NEW id \in Ids, NEW n, HasSerial(id, n)
      PROVE  s[id] = n
  BY <1>1, <1>2 DEF HasSerial, DetailsRow, NoDetails
<1>3. SerialsAreUnique
  <2> SUFFICES ASSUME NEW n \in Serials, NEW i \in Ids, NEW j \in Ids, HasSerial(i, n), HasSerial(j, n)
               PROVE  i = j
    BY DEF SerialsAreUnique
  <2>1. QED BY <1>1, <1>2, SerialsAssumption
<1>4. \A c \in Calls : tx[c] = {}
  BY DEF Init
<1>5. QED
  BY <1>3, <1>4 DEF Index, Entered, OneEntry

-----------------------------------------------------------------------------
(* The replies.                                                            *)

\* ReplyTellsTheOutcome, of one call.
Told(c) ==
    pc[c] = "done" =>
       /\ reply[c] = "OK" => took[c]
       /\ reply[c] = "InvalidArgument" /\ req[c].op = "update" => ~took[c]
       /\ reply[c] = "NotFound" => ~Live(target[c])

\* The resource of a call that is answered does not come back to life.
LEMMA GoneForGood ==
  ASSUME Registers, Tables, NEW c \in Calls, Arrival(c) \/ Step(c) \/ Abort(c),
         NEW d \in Calls, d # c, ~Live(target[d]), target[d] \in Ids
  PROVE  resources'[target[d]].life # "live"
<1>1. CASE UNCHANGED tables
  BY <1>1 DEF Live, tables
<1>2. CASE Commits(c)
  <2>1. AtStatement(c) /\ target[c] \in Ids /\ req[c].op \in {"create", "update"}
    BY <1>2 DEF Registers, AtStatement, Commits, Complete
  <2>2. CASE target[c] # target[d]
    BY <1>2, <2>2, CommitWhole DEF Live
  <2>3. CASE target[c] = target[d]
    <3>1. req[c].op = "update"
      <4>1. Fresh(c)
        BY DEF Tables
      <4>2. QED BY <1>2, <2>1, <2>3, <4>1 DEF Fresh, InTx, Sessions, Commits
    <3>2. resources'[target[c]] = Overwritten(resources[target[c]], req[c])
      BY <1>2, <3>1, CommitEffect
    <3>3. resources[target[c]] \in [life : {"unborn", "live", "gone"}, type : Types \cup {"none"},
                                    cols : [Columns -> Vals \cup {Blank}]]
      BY <2>1 DEF Registers, TypeOK
    <3>4. Overwritten(resources[target[c]], req[c]).life = resources[target[c]].life
      BY <3>3 DEF Overwritten
    <3>5. QED BY <2>3, <3>2, <3>4 DEF Live
  <2>4. QED BY <2>2, <2>3
<1>3. CASE Deletes(c)
  <2>1. NoRow("gone").life = "gone"
    BY DEF NoRow
  <2>2. QED BY <1>3, <2>1, DeleteEffect DEF Live
<1>4. CASE Changes(c)
  BY <1>4, ChangeEffect DEF Live
<1>5. QED
  BY <1>1, <1>2, <1>3, <1>4, Steps DEF Executed

\* What a call is told when its step ends it.
LEMMA ToldAtTheEnd ==
  ASSUME Registers, Tables, NEW c \in Calls, Arrival(c) \/ Step(c) \/ Abort(c), pc'[c] = "done"
  PROVE  Told(c)'
<1>1. /\ pc \in [Calls -> PCs] /\ reply \in [Calls -> Codes \cup {"none"}]
      /\ took \in [Calls -> BOOLEAN] /\ req \in [Calls -> Requests \cup {NoReq}]
      /\ AtStatement(c)
  BY DEF Registers, TypeOK
<1>2. ASSUME NEW err, Rollback(c, err), pc[c] \in Pending \cup {"reload"},
             \/ err = "error"
             \/ err = "ErrNotFound" /\ ~Live(target[c])
             \/ err = "ErrInvalidType" /\ pc[c] \in Pending
      PROVE  Told(c)'
  <2>1. /\ reply'[c] = CodeFor(req[c].op, err)
        /\ req' = req /\ target' = target /\ took' = took /\ resources' = resources
    BY <1>1, <1>2 DEF Rollback, Answer, tables
  <2>2. /\ CodeFor(req[c].op, err) # "OK"
        /\ CodeFor(req[c].op, err) = "NotFound" => err = "ErrNotFound"
        /\ req[c].op = "update" /\ CodeFor(req[c].op, err) = "InvalidArgument" => err = "ErrInvalidType"
    BY ErrorCodes
  <2>3. pc[c] \in Pending => ~took[c]
    BY <1>1 DEF AtStatement
  <2>4. QED BY <1>2, <2>1, <2>2, <2>3 DEF Told, Live
<1>3. CASE Arrival(c)
  <2>1. pc'[c] # "done"
    BY <1>1, <1>3 DEF Arrival, CreateResource, UpdateResource, WriteOutsideTx, SentBefore, Start, Goto
  <2>2. QED BY <2>1
<1>4. CASE Abort(c)
  BY <1>2, <1>4 DEF Abort
<1>5. CASE InsertBase(c) \/ InsertDetails(c)
  <2>1. pc'[c] # "done"
    BY <1>1, <1>5 DEF InsertBase, InsertDetails, Execute, Goto
  <2>2. QED BY <2>1
<1>6. CASE UpdateBase(c)
  <2>1. ~Live(target[c]) /\ Rollback(c, "ErrNotFound")
    BY <1>1, <1>6 DEF UpdateBase, Execute, Goto
  <2>2. pc[c] \in Pending /\ req[c].op = "update"
    BY <1>1, <1>6 DEF UpdateBase, Pending, InTx, AtStatement
  <2>3. QED BY <1>2, <2>1, <2>2
<1>7. CASE UpdateDetails(c)
  <2>1. pc[c] \in Pending /\ Rollback(c, "ErrInvalidType")
    BY <1>1, <1>7 DEF UpdateDetails, Execute, Goto, Pending, InTx
  <2>2. QED BY <1>2, <2>1
<1>8. CASE EnterSerial(c)
  <2>1. pc[c] \in Pending /\ Rollback(c, "error")
    BY <1>1, <1>8 DEF EnterSerial, Execute, Goto, Pending, InTx
  <2>2. QED BY <1>2, <2>1
<1>9. CASE Commit(c) \/ CommitUnheard(c)
  <2>1. took'[c] /\ req' = req
    BY <1>1, <1>9 DEF Commit, CommitUnheard, Install
  <2>2. reply'[c] = "OK" \/ reply'[c] = CodeFor(req[c].op, "error")
    BY <1>1, <1>9 DEF Commit, CommitUnheard, Answer, Goto
  <2>3. /\ CodeFor(req[c].op, "error") # "NotFound"
        /\ req[c].op = "update" => CodeFor(req[c].op, "error") # "InvalidArgument"
    BY ErrorCodes
  <2>4. QED BY <2>1, <2>2, <2>3 DEF Told
<1>10. CASE DeleteResource(c) \/ ChangeResourceStatus(c)
  <2>1. pc[c] = "write"
    BY <1>10 DEF DeleteResource, ChangeResourceStatus
  <2>2. CASE Refuse(c, "ErrNotFound") /\ ~Live(target[c])
    <3>1. Rollback(c, "ErrNotFound")
      BY <2>1, <2>2, RefuseRollsBack
    <3>2. QED BY <1>2, <2>1, <2>2, <3>1 DEF Pending
  <2>3. CASE ~(Refuse(c, "ErrNotFound") /\ ~Live(target[c]))
    <3>1. took' = [took EXCEPT ![c] = TRUE] /\ Answer(c, "OK")
      BY <1>1, <1>10, <2>3 DEF DeleteResource, ChangeResourceStatus, Goto
    <3>2. took'[c] /\ reply'[c] = "OK"
      BY <1>1, <3>1 DEF Answer
    <3>3. QED BY <3>2 DEF Told
  <2>4. QED BY <2>2, <2>3
<1>11. CASE Reload(c)
  <2>1. pc[c] = "reload" /\ took[c] /\ target[c] \in Ids
    BY <1>1, <1>11 DEF Reload, AtStatement
  <2>2. CASE Answer(c, "OK") /\ UNCHANGED took
    BY <1>1, <2>1, <2>2 DEF Answer, Told
  <2>3. CASE ~(Answer(c, "OK") /\ UNCHANGED took)
    <3>1. Refuse(c, Found(target[c])) /\ Found(target[c]) # "found"
      BY <1>11, <2>3 DEF Reload
    <3>2. ~Live(target[c]) /\ Found(target[c]) = "ErrNotFound"
      BY <2>1, <3>1 DEF Tables, RowsAreWhole, Found
    <3>3. Rollback(c, "ErrNotFound")
      BY <2>1, <3>1, <3>2, RefuseRollsBack
    <3>4. QED BY <1>2, <2>1, <3>2, <3>3
  <2>4. QED BY <2>2, <2>3
<1>12. CASE SessionLands(c) \/ Undelivered(c) \/ SessionEnds(c)
  <2>1. pc'[c] # "done"
    BY <1>1, <1>12 DEF SessionLands, Undelivered, SessionEnds, Free, Goto
  <2>2. QED BY <2>1
<1>13. QED
  BY <1>3, <1>4, <1>5, <1>6, <1>7, <1>8, <1>9, <1>10, <1>11, <1>12 DEF Step

\* The fourth layer: every step keeps what calls have been told true.
LEMMA RepliesStep ==
  ASSUME Registers, Registers', Tables, ReplyTellsTheOutcome, [Next]_vars
  PROVE  ReplyTellsTheOutcome'
<1> SUFFICES ASSUME NEW d \in Calls PROVE Told(d)'
  BY DEF ReplyTellsTheOutcome, Told
<1>1. Told(d)
  BY DEF ReplyTellsTheOutcome, Told
<1>2. CASE UNCHANGED vars
  BY <1>1, <1>2 DEF vars, Told, Live
<1>3. ASSUME NEW C \in SUBSET Calls, Abandon(C)
      PROVE  Told(d)'
  <2>1. /\ d \notin C => /\ pc'[d] = pc[d] /\ req'[d] = req[d] /\ target'[d] = target[d]
                         /\ reply'[d] = reply[d] /\ took'[d] = took[d]
        /\ d \in C => pc'[d] = Remains(d)
        /\ resources' = resources
    BY <1>3, AbandonEffect DEF tables
  <2>2. Remains(d) # "done"
    BY DEF Remains
  <2>3. QED BY <1>1, <2>1, <2>2 DEF Told, Live
<1>4. ASSUME NEW c \in Calls, Arrival(c) \/ Step(c) \/ Abort(c)
      PROVE  Told(d)'
  <2>1. CASE d = c
    BY <1>4, <2>1, ToldAtTheEnd DEF Told
  <2>2. CASE d # c
    <3>1. /\ pc'[d] = pc[d] /\ req'[d] = req[d] /\ target'[d] = target[d]
          /\ reply'[d] = reply[d] /\ took'[d] = took[d]
      BY <1>4, <2>2, Bystander DEF Registers
    <3>2. pc[d] = "done" => target[d] \in Ids
      BY DEF Registers, AtStatement
    <3>3. pc[d] = "done" /\ ~Live(target[d]) => resources'[target[d]].life # "live"
      BY <1>4, <2>2, <3>2, GoneForGood
    <3>4. QED BY <1>1, <3>1, <3>3 DEF Told, Live
  <2>3. QED BY <2>1, <2>2
<1>5. QED
  BY <1>2, <1>3, <1>4, Cases

-----------------------------------------------------------------------------
(* The theorems.                                                           *)

\* The strengthening holds at the start, when nobody has called, and every
\* step keeps it, layer by layer.
THEOREM Invariance == Spec => []IInv
<1>1. Init => IInv
  <2>1. Init => ReplyTellsTheOutcome
    BY DEF Init, ReplyTellsTheOutcome
  <2>2. QED BY <2>1, RegistersInit, TablesInit, IndexInit DEF IInv
<1>2. IInv /\ [Next]_vars => IInv'
  <2> SUFFICES ASSUME IInv, [Next]_vars PROVE IInv'
    OBVIOUS
  <2>1. Registers /\ Tables /\ Index /\ ReplyTellsTheOutcome
    BY DEF IInv
  <2>2. Registers'
    BY <2>1, RegistersStep
  <2>3. Tables'
    BY <2>1, <2>2, TablesStep
  <2>4. Index'
    BY <2>1, IndexStep
  <2>5. ReplyTellsTheOutcome'
    BY <2>1, <2>2, RepliesStep
  <2>6. QED BY <2>2, <2>3, <2>4, <2>5 DEF IInv
<1>3. QED
  BY <1>1, <1>2, PTL DEF Spec

\* The rows, the registers of the calls and the statements of the open
\* transactions are of the shapes that the repository gives them.
THEOREM TypeCorrectness == Spec => []TypeOK
<1>1. IInv => TypeOK
  BY DEF IInv, Registers
<1>2. QED
  BY <1>1, Invariance, PTL

\* Whichever statement fails, and whoever else is writing, no resource is
\* ever without its details, nor details without their resource.
THEOREM NoResourceInHalves == Spec => []RowsAreWhole
<1>1. IInv => RowsAreWhole
  BY DEF IInv, Tables
<1>2. QED
  BY <1>1, Invariance, PTL

\* By whichever of its returns a call leaves CreateResource or UpdateResource,
\* it leaves after a COMMIT or a rollback; only the session of a call that has
\* lost its connection may still hold a lock.
THEOREM TransactionsEnd == Spec => []NoTransactionLeftOpen
<1>1. IInv => NoTransactionLeftOpen
  <2> SUFFICES ASSUME IInv, NEW c \in Calls, tx[c] # {} PROVE pc[c] \in InTx \cup Sessions
    BY DEF NoTransactionLeftOpen
  <2>1. Registers
    BY DEF IInv
  <2>2. QED BY <2>1, OpenTransaction DEF InTx
<1>2. QED
  BY <1>1, Invariance, PTL

\* The reply of every call tells what became of its request, also when other
\* calls delete the resource meanwhile.
THEOREM RepliesAreTrue == Spec => []ReplyTellsTheOutcome
<1>1. IInv => ReplyTellsTheOutcome
  BY DEF IInv
<1>2. QED
  BY <1>1, Invariance, PTL

\* The unique index and the waiting for entries whose fate is open suffice:
\* two devices never have the same serial number.
THEOREM SerialsStayUnique == Spec => []SerialsAreUnique
<1>1. IInv => SerialsAreUnique
  BY DEF IInv, Index
<1>2. QED
  BY <1>1, Invariance, PTL

=============================================================================
