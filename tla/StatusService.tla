--------------------------- MODULE StatusService ---------------------------
(***************************************************************************)
(* Concurrent RPCs on the status of resources, from the handlers of the    *)
(* public and the booking API through internal/service/resource down to    *)
(* the statements that internal/repository/postgres executes.              *)
(*                                                                         *)
(* gRPC serves every RPC in a goroutine of its own and the service takes   *)
(* no lock, so calls interleave between any two SQL statements. A          *)
(* statement outside a transaction is atomic and committed when it returns *)
(* (autocommit); when its connection is lost the caller sees an error, or  *)
(* database/sql sends the statement again, and the first one may still     *)
(* take effect later (a stray statement).                                  *)
(***************************************************************************)
EXTENDS Domain, Integers, FiniteSets

CONSTANTS
    Ids,       \* the resource uuids
    NoId,      \* the empty resource id of a request
    Calls,     \* slots for RPCs in flight; a slot is used again after its reply
    MaxStray   \* bound on the stray statements at any moment

ASSUME NoIdAssumption == NoId \notin Ids

VARIABLES
    row,       \* row[id]: the committed status of the resource, or why there is none
    pc,        \* pc[c]: the statement that call c executes next
    req,       \* req[c]: operation, resource id and status to write
    reply,     \* reply[c]: gRPC code and status sent back
    stray,     \* writes whose connection was lost and which may still land
    \* history variables, read by the properties only
    held,      \* held[c]: what the row has been since c's write, or since c began
    wrote,     \* wrote[c]: a write of c landed before its reply
    calm       \* calm[c]: nobody else wrote the row since c's SELECT

store == <<row, stray>>
ghost == <<held, wrote, calm>>
vars == <<row, pc, req, reply, stray, held, wrote, calm>>

\* "unborn": uuid_generate_v4() has not returned this uuid yet, so no client
\* can name it. "gone": the row was deleted, or there never was one.
RowStates == Statuses \cup {"unborn", "gone"}

Ops == {"change", "occupy", "read", "delete", "create"}

\* Where a call has yet to execute a statement on the row it names.
Running == {"select", "update", "reload", "read", "delete"}

PCs == Running \cup {"idle", "insert", "done"}

NoReq   == [op |-> "none", id |-> NoId, want |-> "none"]
NoReply == [code |-> "none", status |-> "none"]

TypeOK ==
    /\ row   \in [Ids -> RowStates]
    /\ pc    \in [Calls -> PCs]
    /\ req   \in [Calls -> [op   : Ops \cup {"none"},
                            id   : Ids \cup {NoId},
                            want : Statuses \cup {"none"}]]
    /\ reply \in [Calls -> [code   : Codes \cup {"none"},
                            status : ProtoStatuses \cup {"none"}]]
    /\ stray \in SUBSET (Ids \X (Statuses \cup {"gone"}))
    /\ held  \in [Calls -> SUBSET RowStates]
    /\ wrote \in [Calls -> BOOLEAN]
    /\ calm  \in [Calls -> BOOLEAN]

\* The table may hold anything when the process starts.
Init ==
    /\ row   \in [Ids -> RowStates]
    /\ pc    = [c \in Calls |-> "idle"]
    /\ req   = [c \in Calls |-> NoReq]
    /\ reply = [c \in Calls |-> NoReply]
    /\ stray = {}
    /\ held  = [c \in Calls |-> {}]
    /\ wrote = [c \in Calls |-> FALSE]
    /\ calm  = [c \in Calls |-> FALSE]

-----------------------------------------------------------------------------
(* Building blocks.                                                        *)

Exists(id) == row[id] \in Statuses

Goto(c, label) == pc' = [pc EXCEPT ![c] = label]

Answer(c, code, status) ==
    /\ Goto(c, "done")
    /\ reply' = [reply EXCEPT ![c] = [code |-> code, status |-> status]]

Fail(c, err) == Answer(c, CodeFor(req[c].op, err), "none")

\* Every call that is still running on id sees its row take the value v.
Witness(id, v) ==
    [c \in Calls |-> IF pc[c] \in Running /\ req[c].id = id
                     THEN held[c] \cup {v} ELSE held[c]]

Disturb(id) == [c \in Calls |-> calm[c] /\ req[c].id # id]

\* A write of call c on id lands. Its own view of the row starts anew.
Land(c, id, v) ==
    /\ row'   = [row EXCEPT ![id] = v]
    /\ held'  = [Witness(id, v) EXCEPT ![c] = {v}]
    /\ calm'  = Disturb(id)
    /\ wrote' = [wrote EXCEPT ![c] = TRUE]
    /\ UNCHANGED stray

-----------------------------------------------------------------------------
(* An RPC arrives. Clients name resources they have heard of.              *)

\* The call passes the checks of its handler and reaches the repository.
Begin(c, op, id, want, label) ==
    /\ row[id] # "unborn"
    /\ req'  = [req EXCEPT ![c] = [op |-> op, id |-> id, want |-> want]]
    /\ held' = [held EXCEPT ![c] = {row[id]}]
    /\ Goto(c, label)
    /\ UNCHANGED <<reply, wrote, calm, store>>

\* The handler, or the repository before its first statement, refuses.
Refuse(c, op, code) ==
    /\ req' = [req EXCEPT ![c] = [op |-> op, id |-> NoId, want |-> "none"]]
    /\ Answer(c, code, "none")
    /\ UNCHANGED <<store, ghost>>

\* Mutant: parseResourceStatus is forgotten, any number reaches the UPDATE.
ChangeResourceStatusUnparsed(c) ==
    /\ pc[c] = "idle"
    /\ \E id \in Ids, p \in ProtoStatuses \ {"UNSPECIFIED"} :
         Begin(c, "change", id, ProtoStatusToService(p), "update")

\* public ChangeResourceStatus: a status is required; a number that is no
\* status becomes "", which parseResourceStatus refuses.
ChangeResourceStatus(c) ==
    /\ pc[c] = "idle"
    /\ \E id \in Ids \cup {NoId}, p \in ProtoStatuses :
         LET want == ProtoStatusToService(p) IN
         \/ /\ id = NoId \/ p = "UNSPECIFIED"
            /\ Refuse(c, "change", "InvalidArgument")
         \/ /\ id # NoId /\ p # "UNSPECIFIED"
            /\ want \notin Statuses
            /\ Refuse(c, "change", CodeFor("change", "ErrInvalidStatus"))
         \/ /\ id # NoId /\ p # "UNSPECIFIED"
            /\ want \in Statuses
            /\ Begin(c, "change", id, want, "update")

NewStatus(isOccupied) == IF isOccupied THEN "occupied" ELSE "available"

\* booking UpdateResourceOccupancy.
UpdateResourceOccupancy(c) ==
    /\ pc[c] = "idle"
    /\ \/ Refuse(c, "occupy", "InvalidArgument")
       \/ \E id \in Ids, isOccupied \in BOOLEAN :
            Begin(c, "occupy", id, NewStatus(isOccupied), "select")

\* GetResource of both APIs and CheckResourceStatus.
GetResource(c) ==
    /\ pc[c] = "idle"
    /\ \/ Refuse(c, "read", "InvalidArgument")
       \/ \E id \in Ids : Begin(c, "read", id, "none", "read")

DeleteResource(c) ==
    /\ pc[c] = "idle"
    /\ \/ Refuse(c, "delete", "InvalidArgument")
       \/ \E id \in Ids : Begin(c, "delete", id, "none", "delete")

\* The id of a new resource is chosen by the INSERT.
CreateResource(c) ==
    /\ pc[c] = "idle"
    /\ \/ Refuse(c, "create", "InvalidArgument")
       \/ /\ req' = [req EXCEPT ![c] = [op |-> "create", id |-> NoId,
                                        want |-> "available"]]
          /\ Goto(c, "insert")
          /\ UNCHANGED <<reply, store, ghost>>

-----------------------------------------------------------------------------
(* The statements. A mutant is the definition after it with a plausible bug *)
(* in it; no specification uses one.                                       *)

\* The outcomes of the check in Service.UpdateResourceOccupancy, for a row
\* that is rejected in the statuses of refused and left alone in unchanged.
Decide(c, refused, unchanged) ==
    LET status == row[req[c].id] IN
    /\ pc[c] = "select"
    /\ \/ /\ status \notin Statuses
          /\ Fail(c, "ErrNotFound")
          /\ UNCHANGED calm
       \/ /\ status \in refused
          /\ Fail(c, "ErrInvalidStatus")
          /\ UNCHANGED calm
       \/ /\ status \in unchanged \ refused
          /\ Answer(c, "OK", ServiceStatusToProto(req[c].want))
          /\ UNCHANGED calm
       \/ /\ status \in Statuses \ (refused \cup unchanged)
          /\ Goto(c, "update")
          /\ calm' = [calm EXCEPT ![c] = TRUE]
          /\ UNCHANGED reply
    /\ UNCHANGED <<req, held, wrote, store>>

\* Mutants: emergency is forgotten; an occupied resource is refused as well;
\* the comparison with the new status is inverted.
SelectIgnoringEmergency(c) == Decide(c, {"maintenance"}, {req[c].want})
SelectRefusingOccupied(c)  == Decide(c, Hold \cup {"occupied"}, {req[c].want})
SelectInverted(c)          == Decide(c, Hold, Statuses \ {req[c].want})

\* The first half of Service.UpdateResourceOccupancy: the SELECT and the
\* decision it leads to.
SelectForOccupancy(c) == Decide(c, Hold, {req[c].want})

\* Repository.ChangeResourceStatus: UPDATE resources SET status, by id alone.
UpdateStatus(c) ==
    /\ pc[c] = "update"
    /\ \/ /\ Exists(req[c].id)
          /\ Land(c, req[c].id, req[c].want)
          /\ Goto(c, "reload")
          /\ UNCHANGED <<req, reply>>
       \/ /\ ~Exists(req[c].id)
          /\ Fail(c, "ErrNotFound")
          /\ UNCHANGED <<req, store, ghost>>

\* Mutant: the reload re-applies the check on the status it finds.
SelectAndRecheck(c) ==
    /\ pc[c] \in {"read", "reload"}
    /\ Exists(req[c].id)
    /\ \/ /\ row[req[c].id] \notin Hold
          /\ Answer(c, "OK", ServiceStatusToProto(row[req[c].id]))
       \/ /\ row[req[c].id] \in Hold
          /\ Fail(c, "ErrInvalidStatus")
    /\ UNCHANGED <<req, store, ghost>>

\* Repository.GetResource, as the whole of a read and as the last statement
\* of ChangeResourceStatus, which reloads what it has changed.
SelectAndAnswer(c) ==
    /\ pc[c] \in {"read", "reload"}
    /\ \/ /\ Exists(req[c].id)
          /\ Answer(c, "OK", ServiceStatusToProto(row[req[c].id]))
       \/ /\ ~Exists(req[c].id)
          /\ Fail(c, "ErrNotFound")
    /\ UNCHANGED <<req, store, ghost>>

\* Mutant: the number of deleted rows is not looked at.
DeleteRowUncounted(c) ==
    /\ pc[c] = "delete"
    /\ \/ Exists(req[c].id) /\ Land(c, req[c].id, "gone")
       \/ ~Exists(req[c].id) /\ UNCHANGED <<store, ghost>>
    /\ Answer(c, "OK", "none")
    /\ UNCHANGED req

DeleteRow(c) ==
    /\ pc[c] = "delete"
    /\ \/ /\ Exists(req[c].id)
          /\ Land(c, req[c].id, "gone")
          /\ Answer(c, "OK", "none")
       \/ /\ ~Exists(req[c].id)
          /\ Fail(c, "ErrNotFound")
          /\ UNCHANGED <<store, ghost>>
    /\ UNCHANGED req

FreshId(id) == row[id] = "unborn" /\ \A s \in stray : s[1] # id

\* Repository.CreateResource, whose transaction takes effect at its COMMIT.
InsertRow(c) ==
    /\ pc[c] = "insert"
    /\ \E id \in Ids :
         /\ FreshId(id)
         /\ Land(c, id, req[c].want)
         /\ req' = [req EXCEPT ![c].id = id]
         /\ Answer(c, "OK", ServiceStatusToProto(req[c].want))

\* The write that call c is about to make.
Writes(c) ==
    CASE pc[c] = "update" -> {<<req[c].id, req[c].want>>}
      [] pc[c] = "delete" -> {<<req[c].id, "gone">>}
      [] pc[c] = "insert" -> {<<id, req[c].want>> : id \in {i \in Ids : FreshId(i)}}
      [] OTHER            -> {}

\* Mutant: every failure of a statement is taken for a missing row.
StatementFailsAsNotFound(c) ==
    /\ pc[c] \in Running
    /\ Fail(c, "ErrNotFound")
    /\ UNCHANGED <<req, store, ghost>>

\* A statement fails without effect: no connection, a timeout, a deadlock.
StatementFails(c) ==
    /\ pc[c] \in Running \cup {"insert"}
    /\ Fail(c, "error")
    /\ UNCHANGED <<req, store, ghost>>

\* The connection breaks after the write was sent.
ConnectionLost(c) ==
    /\ Cardinality(stray) < MaxStray
    /\ \E w \in Writes(c) : stray' = stray \cup {w}
    /\ Fail(c, "error")
    /\ UNCHANGED <<row, req, ghost>>

\* ExecContext takes the error of the connection for a stale one and sends the
\* statement again, while the first may still land: the call goes on as it was.
Resend(c) ==
    /\ pc[c] \in {"update", "delete"}
    /\ Cardinality(stray) < MaxStray
    /\ stray' = stray \cup Writes(c)
    /\ UNCHANGED <<row, pc, req, reply, ghost>>

\* The server carries out a write nobody waits for. The insert of a new row
\* finds no row, every other statement needs one.
StrayLands ==
    \E w \in stray :
       /\ stray' = stray \ {w}
       /\ IF row[w[1]] \in Statuses \cup {"unborn"}
          THEN /\ row'  = [row EXCEPT ![w[1]] = w[2]]
               /\ held' = Witness(w[1], w[2])
               /\ calm' = Disturb(w[1])
          ELSE UNCHANGED <<row, held, calm>>
       /\ UNCHANGED <<pc, req, reply, wrote>>

-----------------------------------------------------------------------------

Forget(C) ==
    /\ pc'    = [c \in Calls |-> IF c \in C THEN "idle"  ELSE pc[c]]
    /\ req'   = [c \in Calls |-> IF c \in C THEN NoReq   ELSE req[c]]
    /\ reply' = [c \in Calls |-> IF c \in C THEN NoReply ELSE reply[c]]
    /\ held'  = [c \in Calls |-> IF c \in C THEN {}      ELSE held[c]]
    /\ wrote' = [c \in Calls |-> IF c \in C THEN FALSE   ELSE wrote[c]]
    /\ calm'  = [c \in Calls |-> IF c \in C THEN FALSE   ELSE calm[c]]

\* The client has its reply.
Return(c) ==
    /\ pc[c] = "done"
    /\ Forget({c})
    /\ UNCHANGED store

\* The process dies and is started again: no call survives, the table does,
\* and a write that was on its way may still land.
Crash ==
    /\ \E c \in Calls : pc[c] # "idle"
    /\ \E W \in SUBSET UNION {Writes(c) : c \in Calls} :
         /\ Cardinality(stray \cup W) <= MaxStray
         /\ stray' = stray \cup W
    /\ Forget(Calls)
    /\ UNCHANGED row

Step(c) ==
    \/ ChangeResourceStatus(c) \/ UpdateResourceOccupancy(c)
    \/ GetResource(c) \/ DeleteResource(c) \/ CreateResource(c)
    \/ SelectForOccupancy(c) \/ UpdateStatus(c) \/ SelectAndAnswer(c)
    \/ DeleteRow(c) \/ InsertRow(c)
    \/ StatementFails(c) \/ ConnectionLost(c) \/ Resend(c)
    \/ Return(c)

Next == (\E c \in Calls : Step(c)) \/ StrayLands \/ Crash

Spec == Init /\ [][Next]_vars

-----------------------------------------------------------------------------
(* Safety.                                                                 *)

Replied(c, op, code) ==
    pc[c] = "done" /\ req[c].op \in op /\ reply[c].code = code

\* A write that is answered OK did happen: the call's own UPDATE landed
\* before the reply, or (occupancy only) the row had that status while the
\* call ran. (ChangeResourceStatus, UpdateResourceOccupancy, CreateResource,
\* DeleteResource never report success for a write that failed.)
OkMeansItHappened ==
    \A c \in Calls :
       /\ Replied(c, {"change", "create", "delete"}, "OK") => wrote[c]
       /\ Replied(c, {"occupy"}, "OK") => wrote[c] \/ req[c].want \in held[c]

\* The status in a reply is one the row really had while the call ran, and,
\* for a call that wrote, had at or after its own write: the reload in
\* ChangeResourceStatus may see somebody else's status, never an older one.
ReportedStatusWasCurrent ==
    \A c \in Calls :
       Replied(c, {"change", "occupy", "read", "create"}, "OK") =>
          \E s \in held[c] \cap Statuses : reply[c].status = ServiceStatusToProto(s)

\* A booking is refused with FailedPrecondition only when the resource was
\* under maintenance or in emergency while the call ran.
RefusalWasJustified ==
    \A c \in Calls :
       Replied(c, {"occupy"}, "FailedPrecondition") => held[c] \cap Hold # {}

\* A call refused for what it asked (FailedPrecondition, and InvalidArgument
\* except from CreateResource, which uses it for every failure) wrote
\* nothing before it was refused.
RefusedCallsWroteNothing ==
    \A c \in Calls :
       \/ Replied(c, Ops, "FailedPrecondition")
       \/ Replied(c, Ops \ {"create"}, "InvalidArgument")
       => ~wrote[c]

\* NotFound is final: the resource is gone at the reply and stays so while
\* the client reads it, although the call may have found, and even have
\* changed, the row before.
NotFoundIsFinal ==
    \A c \in Calls : Replied(c, Ops, "NotFound") => row[req[c].id] = "gone"

\* The check in UpdateResourceOccupancy is still right at its UPDATE as long
\* as nobody else wrote the row in between: the row is then in use or free,
\* and not what the call is about to make it.
UndisturbedWriteIsLegal ==
    \A c \in Calls :
       pc[c] = "update" /\ req[c].op = "occupy" /\ calm[c] =>
          row[req[c].id] \in {"available", "occupied"} \ {req[c].want}

\* What the tests of UpdateResourceOccupancy say: booking never changes a
\* resource under maintenance or in emergency. The SELECT and the UPDATE
\* are two statements, so the code does not keep it.
HoldRespected ==
    [][\A c \in Calls :
          req[c].op = "occupy" /\ UpdateStatus(c) => row[req[c].id] \notin Hold]_vars
=============================================================================
