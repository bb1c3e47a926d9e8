--------------------------- MODULE ResourceStore ---------------------------
(***************************************************************************)
(* The repository of internal/repository/postgres at the level of its SQL  *)
(* transactions: four tables, READ COMMITTED transactions that several     *)
(* calls run at once, the row locks and the unique index on serial numbers *)
(* on which they wait for each other, the rollback on every error, and the *)
(* sessions of the database whose client has gone away.                    *)
(*                                                                         *)
(* A value is the mark of the request that wrote it, which is all that     *)
(* the properties tell apart. Statements outside a transaction (delete,    *)
(* change of status, reads) are atomic.                                    *)
(***************************************************************************)
EXTENDS Domain

CONSTANTS
    Ids,       \* the resource uuids
    Calls,     \* slots for calls in flight
    Types,     \* the resource types in use
    Fields,    \* the columns that a field mask names
    Serials,   \* serial numbers of devices; "" is none
    Vals,      \* values that requests write
    Blank,     \* the value of what no request has written
    NoId       \* no resource

ASSUME TypesAssumption   == Types \subseteq ResourceTypes
ASSUME FieldsAssumption  == Fields \subseteq {"name", "location"}
ASSUME SerialsAssumption == "" \notin Serials
ASSUME NoIdAssumption    == NoId \notin Ids

VARIABLES
    resources,  \* the table resources
    details,    \* details[t]: the details table of type t
    pc,         \* pc[c]: the statement that call c executes next
    req,        \* req[c]: what call c was asked to do
    target,     \* target[c]: the resource it does it to
    tx,         \* tx[c]: the statements executed in the open transaction of c
    reply,      \* reply[c]: the gRPC code sent back
    took        \* history: the request of c took effect

tables == <<resources, details>>
vars == <<resources, details, pc, req, target, tx, reply, took>>

Columns == Fields \cup {"status"}

NoRow(why) ==
    [life |-> why, type |-> "none", cols |-> [k \in Columns |-> Blank]]
Row(t, v) == [life |-> "live", type |-> t, cols |-> [k \in Columns |-> v]]
DetailsRow(v, s) == [there |-> TRUE, val |-> v, serial |-> s]
NoDetails == [there |-> FALSE, val |-> Blank, serial |-> ""]

SerialOf(t) == IF t = "device" THEN Serials \cup {""} ELSE {""}

\* What UpdateResource and ChangeResourceStatus may be asked to write, and
\* what CreateResource is: kind is the type of the details, "none" without.
Requests ==
    [op : {"create"}, type : Types, kind : Types, mask : {Columns},
     serial : Serials \cup {""}, val : Vals, id : {NoId}]
    \cup
    [op : {"update"}, type : {"none"}, kind : Types \cup {"none"},
     mask : SUBSET Fields, serial : Serials \cup {""},
     val : Vals, id : Ids]
    \cup
    [op : {"change"}, type : {"none"}, kind : {"none"}, mask : {{"status"}},
     serial : {""}, val : Vals, id : Ids]
    \cup
    [op : {"delete"}, type : {"none"}, kind : {"none"}, mask : {{}},
     serial : {""}, val : Vals, id : Ids]

NoReq == [op |-> "none", type |-> "none", kind |-> "none", mask |-> {},
          serial |-> "", val |-> Blank, id |-> NoId]

\* A message has a serial number only in the details of a device.
WellFormed(r) == r.kind # "device" => r.serial = ""

\* Where a call is inside its transaction, and where it is before it took
\* effect; and what is left of one in its session of the database: a COMMIT or
\* a statement outside transactions that was sent, or an open transaction that
\* is left behind.
InTx     == {"insert", "base", "details", "index", "commit"}
Pending  == InTx \cup {"write"}
Sessions == {"sent", "left"}
PCs      == Pending \cup Sessions \cup {"idle", "reload", "done"}

TypeOK ==
    /\ resources \in [Ids -> [life : {"unborn", "live", "gone"},
                              type : Types \cup {"none"},
                              cols : [Columns -> Vals \cup {Blank}]]]
    /\ details \in [Types -> [Ids -> [there  : BOOLEAN,
                                      val    : Vals \cup {Blank},
                                      serial : Serials \cup {""}]]]
    /\ pc     \in [Calls -> PCs]
    /\ req    \in [Calls -> Requests \cup {NoReq}]
    /\ target \in [Calls -> Ids \cup {NoId}]
    /\ tx     \in [Calls -> SUBSET {"base", "details", "entry"}]
    /\ reply  \in [Calls -> Codes \cup {"none"}]
    /\ took   \in [Calls -> BOOLEAN]

Live(id) == resources[id].life = "live"

\* Serial numbers in use, as the unique index sees them.
HasSerial(id, s) ==
    /\ "device" \in Types
    /\ details["device"][id].there /\ details["device"][id].serial = s

\* Any population the code itself could have left behind.
Init ==
    /\ \E t \in [Ids -> Types \cup {"none"}], s \in [Ids -> Serials \cup {""}] :
         /\ \A id \in Ids : t[id] # "device" => s[id] = ""
         /\ \A i, j \in Ids : i # j /\ s[i] = s[j] => s[i] = ""
         /\ resources = [id \in Ids |-> IF t[id] = "none" THEN NoRow("unborn")
                                        ELSE Row(t[id], Blank)]
         /\ details = [k \in Types |-> [id \in Ids |->
                         IF t[id] = k THEN DetailsRow(Blank, s[id]) ELSE NoDetails]]
    /\ pc     = [c \in Calls |-> "idle"]
    /\ req    = [c \in Calls |-> NoReq]
    /\ target = [c \in Calls |-> NoId]
    /\ tx     = [c \in Calls |-> {}]
    /\ reply  = [c \in Calls |-> "none"]
    /\ took   = [c \in Calls |-> FALSE]

-----------------------------------------------------------------------------
(* Transactions.                                                           *)

Goto(c, label) == pc' = [pc EXCEPT ![c] = label]

Answer(c, code) ==
    /\ Goto(c, "done")
    /\ reply' = [reply EXCEPT ![c] = code]

\* nullableString: "" is stored as NULL, which the unique index ignores.
nullableString(s) == IF s = "" THEN {} ELSE {s}

\* The serial numbers whose index entries the open transaction of c has
\* made or outdated; nobody can tell yet whether they stay.
Claims(c) ==
    (IF "entry" \in tx[c] THEN nullableString(req[c].serial) ELSE {})
    \cup
    {s \in Serials : "details" \in tx[c] /\ HasSerial(target[c], s)}

\* At a statement that needs the row of the resource for itself.
NeedsRow(c) ==
    \/ pc[c] \in {"base", "write"}
    \/ pc[c] = "sent" /\ req[c].op \in {"change", "delete"}

\* The calls that c waits for: the open transaction that has updated its
\* row, or those on which it depends whether its serial number is taken.
WaitsFor(c) ==
    CASE NeedsRow(c) ->
           {d \in Calls \ {c} : target[d] = target[c] /\ "base" \in tx[d]}
      [] pc[c] = "index" ->
           {d \in Calls \ {c} : nullableString(req[c].serial) \cap Claims(d) # {}}
      [] OTHER -> {}

Execute(c, statement, label) ==
    /\ tx' = [tx EXCEPT ![c] = @ \cup {statement}]
    /\ Goto(c, label)

\* An UPDATE writes the masked columns of the row as it now stands.
Overwritten(row, r) ==
    [row EXCEPT !.cols = [k \in Columns |-> IF k \in r.mask THEN r.val ELSE @[k]]]

\* The writes of c's transaction become visible, all at once.
Show(c) ==
    LET r == req[c]  id == target[c] IN
    /\ resources' = IF "base" \notin tx[c] THEN resources
                    ELSE [resources EXCEPT ![id] =
                            IF r.op = "create" THEN Row(r.type, r.val)
                            ELSE Overwritten(@, r)]
    /\ details' = IF "details" \notin tx[c] THEN details
                  ELSE [details EXCEPT ![r.kind][id] = DetailsRow(r.val, r.serial)]

Install(c) ==
    /\ Show(c)
    /\ tx' = [tx EXCEPT ![c] = {}]
    /\ took' = [took EXCEPT ![c] = TRUE]
    /\ UNCHANGED <<req, target>>

\* Mutants: the error is answered as it is, without a code; the deferred call
\* commits. (A mutant is the definition after it with a plausible bug in it;
\* no specification uses one.)
RollbackUnmapped(c, err) ==
    /\ tx' = [tx EXCEPT ![c] = {}]
    /\ Answer(c, err)
    /\ UNCHANGED <<tables, req, target, took>>

RollbackCommits(c, err) ==
    /\ Install(c)
    /\ Answer(c, CodeFor(req[c].op, err))

\* rollbackTxOnErr and its like in CreateResource: the deferred rollback
\* undoes the statements, gives up the locks, and the error is answered.
Rollback(c, err) ==
    /\ tx' = [tx EXCEPT ![c] = {}]
    /\ Answer(c, CodeFor(req[c].op, err))
    /\ UNCHANGED <<tables, req, target, took>>

\* The error is answered where there is nothing to roll back.
Refuse(c, err) ==
    /\ Answer(c, CodeFor(req[c].op, err))
    /\ UNCHANGED <<tables, req, target, tx, took>>

-----------------------------------------------------------------------------
(* A call arrives.                                                         *)

Start(c, r, id, label) ==
    /\ pc[c] = "idle"
    /\ req'    = [req EXCEPT ![c] = r]
    /\ target' = [target EXCEPT ![c] = id]
    /\ Goto(c, label)
    /\ UNCHANGED <<tables, tx, reply, took>>

Unborn(id) == resources[id].life = "unborn"

\* validateCreateResourceRequest lets only details of the right type pass.
\* The id is the one that the INSERT will draw, which nobody else has; a
\* call arrives only while Ids has one left.
CreateResource(c) ==
    \E r \in Requests, id \in Ids :
       /\ r.op = "create" /\ WellFormed(r)
       /\ r.kind = r.type
       /\ Unborn(id) /\ \A d \in Calls : target[d] # id
       /\ Start(c, r, id, "insert")

\* Without a known path in the field mask there is nothing to execute.
UpdateResource(c) ==
    \E r \in Requests :
       /\ r.op = "update" /\ WellFormed(r)
       /\ ~Unborn(r.id)
       /\ Start(c, r, r.id, IF r.mask = {} /\ r.kind = "none" THEN "commit" ELSE "base")

\* DeleteResource and ChangeResourceStatus.
WriteOutsideTx(c) ==
    \E r \in Requests :
       /\ r.op \in {"change", "delete"}
       /\ ~Unborn(r.id)
       /\ Start(c, r, r.id, "write")

\* After an error of the connection ExecContext sends the statement of another
\* call again; the first one is on its way still, in a session of its own.
SentBefore(c) ==
    \E d \in Calls :
       /\ pc[d] = "write"
       /\ Start(c, req[d], target[d], "sent")

-----------------------------------------------------------------------------
(* The statements of CreateResource and UpdateResource.                    *)

\* INSERT INTO resources.
InsertBase(c) ==
    /\ pc[c] = "insert"
    /\ Execute(c, "base", "details")
    /\ UNCHANGED <<tables, req, target, reply, took>>

\* Mutant: the details are forgotten.
InsertDetailsSkipped(c) ==
    /\ pc[c] = "details" /\ req[c].op = "create"
    /\ Goto(c, "commit")
    /\ UNCHANGED <<tables, req, target, tx, reply, took>>

\* insertDetailsByType: the handler has let only details of the type of the
\* resource pass, so its own check never fails.
InsertDetails(c) ==
    /\ pc[c] = "details" /\ req[c].op = "create"
    /\ Execute(c, "details", IF req[c].kind = "device" THEN "index" ELSE "commit")
    /\ UNCHANGED <<tables, req, target, reply, took>>

\* updateResourceBaseFields, once nobody else holds the row.
UpdateBase(c) ==
    /\ pc[c] = "base"
    /\ WaitsFor(c) = {}
    /\ \/ /\ Live(target[c])
          /\ Execute(c, "base", IF req[c].kind = "none" THEN "commit" ELSE "details")
          /\ UNCHANGED <<tables, req, target, reply, took>>
       \/ /\ ~Live(target[c])
          /\ Rollback(c, "ErrNotFound")

\* Mutant: the number of rows is not looked at.
UpdateDetailsUncounted(c) ==
    /\ pc[c] = "details" /\ req[c].op = "update"
    /\ IF details[req[c].kind][target[c]].there
       THEN Execute(c, "details", IF req[c].kind = "device" THEN "index" ELSE "commit")
       ELSE Goto(c, "commit") /\ UNCHANGED tx
    /\ UNCHANGED <<tables, req, target, reply, took>>

\* updateDetailsByType: no row in the table of the given type is an error.
UpdateDetails(c) ==
    /\ pc[c] = "details" /\ req[c].op = "update"
    /\ \/ /\ details[req[c].kind][target[c]].there
          /\ Execute(c, "details", IF req[c].kind = "device" THEN "index" ELSE "commit")
          /\ UNCHANGED <<tables, req, target, reply, took>>
       \/ /\ ~details[req[c].kind][target[c]].there
          /\ Rollback(c, "ErrInvalidType")

\* Mutant: serial_number is not UNIQUE.
TakenNever(c) == FALSE

Taken(c) == \E id \in Ids \ {target[c]}, s \in nullableString(req[c].serial) : HasSerial(id, s)

\* The index on serial_number: an entry whose fate is open makes c wait.
EnterSerial(c) ==
    /\ pc[c] = "index"
    /\ WaitsFor(c) = {}
    /\ \/ /\ ~Taken(c)
          /\ Execute(c, "entry", "commit")
          /\ UNCHANGED <<tables, req, target, reply, took>>
       \/ /\ Taken(c)
          /\ Rollback(c, "error")

\* CreateResource answers at once; UpdateResource reads the resource again.
Commit(c) ==
    /\ pc[c] = "commit"
    /\ Install(c)
    /\ \/ /\ req[c].op = "create"
          /\ Answer(c, "OK")
       \/ /\ req[c].op = "update"
          /\ Goto(c, "reload")
          /\ UNCHANGED reply

\* The COMMIT took place, but the connection broke before its answer.
CommitUnheard(c) ==
    /\ pc[c] = "commit"
    /\ Install(c)
    /\ Answer(c, CodeFor(req[c].op, "error"))

-----------------------------------------------------------------------------
(* Statements outside a transaction.                                       *)

\* DELETE FROM resources, of which the foreign keys of the details tables
\* cascade, and UPDATE resources SET status, where there is such a row.
WriteRow(c) ==
    /\ Live(target[c])
    /\ \/ /\ req[c].op = "delete"
          /\ resources' = [resources EXCEPT ![target[c]] = NoRow("gone")]
          /\ details' = [t \in Types |-> [details[t] EXCEPT ![target[c]] = NoDetails]]
       \/ /\ req[c].op = "change"
          /\ resources' = [resources EXCEPT ![target[c]] = Overwritten(@, req[c])]
          /\ UNCHANGED details

DeleteResource(c) ==
    /\ pc[c] = "write" /\ req[c].op = "delete"
    /\ WaitsFor(c) = {}
    /\ \/ /\ WriteRow(c)
          /\ took' = [took EXCEPT ![c] = TRUE]
          /\ Answer(c, "OK")
          /\ UNCHANGED <<req, target, tx>>
       \/ /\ ~Live(target[c])
          /\ Refuse(c, "ErrNotFound")

ChangeResourceStatus(c) ==
    /\ pc[c] = "write" /\ req[c].op = "change"
    /\ WaitsFor(c) = {}
    /\ \/ /\ WriteRow(c)
          /\ took' = [took EXCEPT ![c] = TRUE]
          /\ Goto(c, "reload")
          /\ UNCHANGED <<req, target, tx, reply>>
       \/ /\ ~Live(target[c])
          /\ Refuse(c, "ErrNotFound")

\* GetResource joins the three details tables and parseResourceDetails wants
\* the row in the one of the resource's type.
Found(id) ==
    CASE ~Live(id) -> "ErrNotFound"
      [] Live(id) /\ ~details[resources[id].type][id].there -> "ErrInvalidType"
      [] OTHER -> "found"

\* Mutant: the resource is read again until it is there.
ReloadRetries(c) ==
    /\ pc[c] = "reload"
    /\ Found(target[c]) = "found"
    /\ Answer(c, "OK")
    /\ UNCHANGED <<tables, req, target, tx, took>>

\* The last statement of UpdateResource and ChangeResourceStatus.
Reload(c) ==
    /\ pc[c] = "reload"
    /\ \/ /\ Found(target[c]) = "found"
          /\ Answer(c, "OK")
          /\ UNCHANGED <<tables, req, target, tx, took>>
       \/ /\ Found(target[c]) # "found"
          /\ Refuse(c, Found(target[c]))

-----------------------------------------------------------------------------
(* Failures. Any statement fails by a constraint, the network or a         *)
(* cancelled context, and each has its own way out of the code.            *)

\* BeginTx, before there is a transaction.
BeginFails(c) == pc[c] \in {"insert", "base"} /\ Refuse(c, "error")

InsertBaseFails(c) == pc[c] = "insert" /\ Rollback(c, "error")

InsertDetailsFails(c) ==
    pc[c] \in {"details", "index"} /\ req[c].op = "create" /\ Rollback(c, "error")

UpdateBaseFails(c) == pc[c] = "base" /\ Rollback(c, "error")

\* Mutant: its error is in a variable of its own, and the deferred call finds
\* none.
UpdateDetailsFailsShadowed(c) ==
    pc[c] \in {"details", "index"} /\ req[c].op = "update" /\ Refuse(c, "error")

UpdateDetailsFails(c) ==
    pc[c] \in {"details", "index"} /\ req[c].op = "update" /\ Rollback(c, "error")

CommitFails(c) == pc[c] = "commit" /\ Rollback(c, "error")

\* The statements of DeleteResource and ChangeResourceStatus, and RowsAffected.
WriteFails(c) == pc[c] = "write" /\ Refuse(c, "error")

ReloadFails(c) == pc[c] = "reload" /\ Refuse(c, "error")

StatementFails(c) ==
    \/ BeginFails(c) \/ InsertBaseFails(c) \/ InsertDetailsFails(c)
    \/ UpdateBaseFails(c) \/ UpdateDetailsFails(c) \/ CommitFails(c)
    \/ WriteFails(c) \/ ReloadFails(c)

\* The calls that wait in a circle, each for another.
Deadlocked(S) ==
    /\ S # {}
    /\ \A c \in S : /\ WaitsFor(c) \cap S # {}
                    /\ \E d \in S : c \in WaitsFor(d)

\* deadlock_timeout: PostgreSQL aborts a transaction of the circle.
DeadlockDetected ==
    \E S \in SUBSET Calls, c \in Calls :
       /\ Deadlocked(S) /\ c \in S
       /\ Rollback(c, "error")

\* What is left of a call in its session when its client is gone.
Remains(c) ==
    CASE pc[c] \in {"write", "commit", "sent"}                 -> "sent"
      [] pc[c] \notin {"write", "commit", "sent"} /\ tx[c] # {} -> "left"
      [] OTHER                                                -> "idle"

\* The calls C are over for the service: its slots are free, or their sessions
\* at the database are left to themselves.
Abandon(C) ==
    /\ pc'     = [c \in Calls |-> IF c \in C THEN Remains(c) ELSE pc[c]]
    /\ req'    = [c \in Calls |-> IF c \in C /\ Remains(c) = "idle" THEN NoReq ELSE req[c]]
    /\ target' = [c \in Calls |-> IF c \in C /\ Remains(c) = "idle" THEN NoId ELSE target[c]]
    /\ reply'  = [c \in Calls |-> IF c \in C THEN "none" ELSE reply[c]]
    /\ took'   = [c \in Calls |-> IF c \in C THEN FALSE  ELSE took[c]]
    /\ UNCHANGED <<tables, tx>>

Return(c) ==
    /\ pc[c] = "done"
    /\ Abandon({c})

\* The connection of a call breaks, which its client is told as an error.
ConnectionLost(c) ==
    /\ pc[c] \in Pending
    /\ Abandon({c})

\* The process dies. Its sessions at the database come to their ends alone.
Crash ==
    /\ \E c \in Calls : pc[c] \notin Sessions \cup {"idle"}
    /\ Abandon(Calls)

\* The session is over, with all that it held.
Free(c) ==
    /\ Goto(c, "idle")
    /\ req'    = [req EXCEPT ![c] = NoReq]
    /\ target' = [target EXCEPT ![c] = NoId]
    /\ tx'     = [tx EXCEPT ![c] = {}]
    /\ UNCHANGED <<reply, took>>

\* PostgreSQL carries out what was sent, once it need not wait.
SessionLands(c) ==
    /\ pc[c] = "sent"
    /\ WaitsFor(c) = {}
    /\ \/ req[c].op \in {"create", "update"} /\ Show(c)
       \/ WriteRow(c)
       \/ req[c].op \in {"change", "delete"} /\ ~Live(target[c]) /\ UNCHANGED tables
    /\ Free(c)

\* What was sent never arrives, or fails.
Undelivered(c) == pc[c] = "sent" /\ Free(c) /\ UNCHANGED tables

\* PostgreSQL finds that the client has gone, and rolls back.
SessionEnds(c) == pc[c] = "left" /\ Free(c) /\ UNCHANGED tables

-----------------------------------------------------------------------------

\* What a call does by itself once it has arrived, in its own session.
Work(c) ==
    \/ InsertBase(c) \/ InsertDetails(c) \/ UpdateDetails(c) \/ Commit(c)
    \/ Reload(c) \/ Return(c) \/ SessionEnds(c)

\* The statements that may have to wait for another session.
Wait(c) ==
    \/ UpdateBase(c) \/ EnterSerial(c)
    \/ DeleteResource(c) \/ ChangeResourceStatus(c) \/ SessionLands(c)

Next ==
    \/ \E c \in Calls :
         \/ CreateResource(c) \/ UpdateResource(c) \/ WriteOutsideTx(c)
         \/ Work(c) \/ Wait(c) \/ CommitUnheard(c) \/ StatementFails(c)
         \/ SentBefore(c) \/ ConnectionLost(c) \/ Undelivered(c)
    \/ DeadlockDetected
    \/ Crash

Spec == Init /\ [][Next]_vars

\* A session that can go on does, and one that its client has left is
\* noticed. PostgreSQL queues those that wait for a row or an index entry, so
\* none is passed over for ever; and it looks for circles of waiting sessions
\* after deadlock_timeout. Clients, failures and crashes are left to chance.
Fairness ==
    /\ \A c \in Calls : WF_vars(Work(c)) /\ SF_vars(Wait(c))
    /\ WF_vars(DeadlockDetected)

FairSpec == Spec /\ Fairness

-----------------------------------------------------------------------------
(* Properties.                                                             *)

\* Every resource has its details row, in the table of its type and in no
\* other, and no details row outlives its resource: one resource without
\* details would make every list request fail (queryResources gives up at
\* the first row that parseResourceDetails rejects).
RowsAreWhole ==
    \A id \in Ids :
       /\ Live(id) => Found(id) = "found"
       /\ \A t \in Types : details[t][id].there => Live(id) /\ resources[id].type = t

\* A transaction is never left open: by whichever of its returns a call
\* leaves CreateResource or UpdateResource, it holds no lock afterwards, unless
\* its session is one that the database has yet to find abandoned.
NoTransactionLeftOpen ==
    \A c \in Calls : tx[c] # {} => pc[c] \in InTx \cup Sessions

\* The reply tells what became of the request. OK means that it was
\* committed (or had nothing to write); a request refused for what it asks
\* (InvalidArgument of UpdateResource) did not; NotFound means that there is
\* no such resource any more, although the update or the change of status
\* may have taken effect before it was deleted, and a delete when its
\* statement was sent for the first time.
ReplyTellsTheOutcome ==
    \A c \in Calls : pc[c] = "done" =>
       /\ reply[c] = "OK" => took[c]
       /\ reply[c] = "InvalidArgument" /\ req[c].op = "update" => ~took[c]
       /\ reply[c] = "NotFound" => ~Live(target[c])

\* No two devices share a serial number, however their transactions overlap:
\* the service itself never looks whether a number is in use.
SerialsAreUnique ==
    \A s \in Serials, i, j \in Ids : HasSerial(i, s) /\ HasSerial(j, s) => i = j

\* Every call gets its reply, and every session that was left behind ends: no
\* lock is kept for ever and no circle of waiting transactions stays.
EveryCallEnds == \A c \in Calls : pc[c] # "idle" ~> pc[c] = "idle"

\* The tables seen as resources with their details, and the requests that
\* have not taken effect.
Whole(id) ==
    IF Live(id)
    THEN [life |-> "live", type |-> resources[id].type, cols |-> resources[id].cols,
          details |-> [val    |-> details[resources[id].type][id].val,
                       serial |-> details[resources[id].type][id].serial]]
    ELSE [life |-> resources[id].life, type |-> "none", cols |-> <<>>, details |-> <<>>]

Atomic == INSTANCE AtomicStore
          WITH store <- [id \in Ids |-> Whole(id)],
               job   <- [c \in Calls |-> IF pc[c] \in Pending \cup {"sent"} THEN req[c] ELSE NoReq],
               NoJob <- NoReq

\* Requests take effect whole and at most once, and write no column that
\* they do not name: the transactions implement AtomicStore. A statement that
\* ExecContext sends twice is a request that is made twice.
ImplementsAtomicStore == Atomic!Spec
=============================================================================
