------------------------------ MODULE Listing ------------------------------
(***************************************************************************)
(* The lists of resources and the time stamps they are ordered by, over    *)
(* the store of AtomicStore, which ResourceStore implements. A transaction *)
(* stamps with now(), the moment of its BEGIN, rows it shows later, at its *)
(* COMMIT; a list is one SELECT whose rows arrive one by one.              *)
(***************************************************************************)
EXTENDS Domain, Integers, SequencesExt

CONSTANTS
    Ids, Calls, Requests, NoJob,   \* as in AtomicStore
    Readers,    \* slots for lists in flight
    Asked,      \* the protobuf types that lists ask for
    Wanted,     \* AVAILABLE as a status, the place asked for as a location
    MaxTime     \* bound on the clock

\* A uuid has 128 bits. Handlers let resources of the known types in only.
ASSUME IdsAssumption  == IsFiniteSet(Ids)
ASSUME TimeAssumption == MaxTime \in Nat
ASSUME TypesAssumption == \A r \in Requests : r.op = "create" => r.type \in ResourceTypes

Columns == {"location", "status"}

VARIABLES
    store, job,  \* as in AtomicStore
    clock,       \* the clock of the database
    began,       \* began[c]: now() in the transaction of c, -1 before BEGIN
    created,     \* created[id], updated[id]: the time stamps of the row
    updated,
    saw,         \* history: saw[c], what updated was when c was asked, -1
                 \* for what was not there yet
    older,       \* history: older[id], those there before id was asked for
    list         \* list[r]: the list that r reads

S == INSTANCE AtomicStore

stamps == <<clock, began, created, updated, saw, older>>
vars == <<store, job, stamps, list>>

\* A GetResourcesList, or a GetAvailableResources with or without a location.
Filters ==
    [types : SUBSET Asked, available : {FALSE}, located : {FALSE}]
    \cup [types : SUBSET Asked, available : {TRUE}, located : BOOLEAN]

NoList == [at |-> "idle"]

Lists ==
    [at : {"select", "rows", "done"}, filter : Filters, left : BoundedSeq(Ids, Cardinality(Ids)),
     got : BoundedSeq(Ids, Cardinality(Ids)), code : Codes \cup {"none"},
     seen : SUBSET SUBSET Ids]

Nothing == [id \in Ids |-> -1]

TypeOK ==
    /\ job     \in [Calls -> Requests \cup {NoJob}]
    /\ clock   \in 0..MaxTime
    /\ began   \in [Calls -> -1..MaxTime]
    /\ created \in [Ids -> 0..MaxTime]
    /\ updated \in [Ids -> 0..MaxTime]
    /\ older   \in [Ids -> SUBSET Ids]
    /\ saw     \in [Calls -> [Ids -> -1..MaxTime]]
    /\ list    \in [Readers -> Lists \cup {NoList}]

Init ==
    /\ store = [id \in Ids |-> S!Absent("unborn")]
    /\ job   = [c \in Calls |-> NoJob]
    /\ clock = 0
    /\ began = [c \in Calls |-> -1]
    /\ created = [id \in Ids |-> 0]
    /\ updated = [id \in Ids |-> 0]
    /\ older = [id \in Ids |-> {}]
    /\ saw   = [c \in Calls |-> Nothing]
    /\ list  = [r \in Readers |-> NoList]

Born == {id \in Ids : store[id].life # "unborn"}

-----------------------------------------------------------------------------
(* Writers. (A mutant is the definition after it with a plausible bug in   *)
(* it; no specification uses one.)                                         *)

\* A client knows the uuids of resources that were created, no others.
Ask(c) ==
    /\ S!Ask(c)
    /\ job'[c].op # "create" => job'[c].id \in Born
    /\ saw' = [saw EXCEPT ![c] = [id \in Ids |-> IF id \in Born THEN updated[id] ELSE -1]]
    /\ UNCHANGED <<clock, began, created, updated, older, list>>

\* Mutant: transactions are begun ahead, on idle connections.
BeginAhead(c) ==
    /\ began[c] = -1
    /\ began' = [began EXCEPT ![c] = clock]
    /\ UNCHANGED <<store, job, clock, created, updated, saw, older, list>>

\* BEGIN, or the start of a statement outside a transaction.
Begin(c) ==
    /\ job[c] # NoJob /\ began[c] = -1
    /\ began' = [began EXCEPT ![c] = clock]
    /\ UNCHANGED <<store, job, clock, created, updated, saw, older, list>>

\* An UPDATE sets updated_at even if it writes details only; without a known
\* path in the mask there is no UPDATE.
Touches(r) == r.op # "update" \/ r.mask # {} \/ r.kind # "none"

\* Mutant: the INSERT leaves updated_at to the first UPDATE.
StampLater(c, id) ==
    /\ created' = [created EXCEPT ![id] = IF job[c].op = "create" THEN began[c] ELSE @]
    /\ updated' = [updated EXCEPT ![id] = IF Touches(job[c]) /\ job[c].op # "create"
                                         THEN began[c] ELSE @]

\* DEFAULT now() of both columns, updated_at = now() of the UPDATEs.
Stamp(c, id) ==
    /\ created' = [created EXCEPT ![id] = IF job[c].op = "create" THEN began[c] ELSE @]
    /\ updated' = [updated EXCEPT ![id] = IF Touches(job[c]) THEN began[c] ELSE @]

\* The resource that a request of c is about to write, or the new one.
Target(c, id) ==
    IF job[c].op = "create" THEN store[id].life = "unborn" /\ store'[id].life = "live"
    ELSE id = job[c].id

\* The rows that r's SELECT may still see become others.
Watch(match) ==
    list' = [r \in Readers |-> IF list[r].at = "select"
                               THEN [list[r] EXCEPT !.seen = @ \cup {match[r]}]
                               ELSE list[r]]

\* What a client asks for, in the words of the API.
Asks(filter, res) ==
    /\ res.life = "live"
    /\ filter.types = {} \/ ServiceTypeToProto(res.type) \in filter.types
    /\ filter.available => res.cols["status"] = Wanted
    /\ filter.located => res.cols["location"] = Wanted

\* The COMMIT. now() is the wall clock of the database: that it is never set
\* back, and that a COMMIT takes a tick of it or more, is assumed.
Apply(c) ==
    /\ began[c] # -1 /\ clock < MaxTime
    /\ S!Apply(c)
    /\ clock' = clock + 1
    /\ began' = [began EXCEPT ![c] = -1]
    /\ saw'   = [saw EXCEPT ![c] = Nothing]
    /\ \E id \in Ids :
          /\ Target(c, id)
          /\ Stamp(c, id)
          /\ older' = [older EXCEPT ![id] = IF job[c].op # "create" THEN @
                                           ELSE {i \in Ids : saw[c][i] # -1}]
    /\ Watch([r \in Readers |->
                IF list[r].at = "select"
                THEN {id \in Ids : Asks(list[r].filter, store'[id])} ELSE {}])

\* The request of c is refused, or lost.
Drop(c) ==
    /\ job[c] # NoJob
    /\ job'   = [job EXCEPT ![c] = NoJob]
    /\ began' = [began EXCEPT ![c] = -1]
    /\ saw'   = [saw EXCEPT ![c] = Nothing]
    /\ UNCHANGED <<store, clock, created, updated, older, list>>

-----------------------------------------------------------------------------
(* Readers.                                                                *)

ReaderStep(r, next) ==
    /\ list' = [list EXCEPT ![r] = next]
    /\ UNCHANGED <<store, job, stamps>>

Answer(r, code) == ReaderStep(r, [list[r] EXCEPT !.at = "done", !.code = code])

\* ProtoTypesToService: one number without a name spoils the list of types.
Known(types) == \A p \in types : ProtoTypeToService(p) # ""

\* GetResourcesList and both GetAvailableResources.
List(r) ==
    /\ list[r] = NoList
    /\ \E f \in Filters :
          LET new == [at |-> "select", filter |-> f, left |-> <<>>, got |-> <<>>, code |-> "none",
                      seen |-> {{id \in Ids : Asks(f, store[id])}}]
          IN ReaderStep(r, IF Known(f.types) THEN new
                           ELSE [new EXCEPT !.at = "done", !.code = "InvalidArgument"])

\* Mutant: no types are an empty array instead of NULL.
TypeMatchesEmpty(types, t) == \E p \in types : ProtoTypeToService(p) = t

\* $1 IS NULL OR type = ANY($1); no types in the request make $1 a NULL.
TypeMatches(types, t) == types = {} \/ \E p \in types : ProtoTypeToService(p) = t

\* The WHERE clauses; an empty location is not looked at.
Matches(f, res) ==
    /\ res.life = "live"
    /\ TypeMatches(f.types, res.type)
    /\ f.available => res.cols["status"] = Wanted
    /\ f.located => res.cols["location"] = Wanted

\* Mutant: the ORDER BY has lost its DESC.
OldestFirst(s) == \A i, j \in DOMAIN s : i < j => created[s[i]] <= created[s[j]]

\* ORDER BY created_at DESC; equal stamps come in any order.
NewestFirst(s) == \A i, j \in DOMAIN s : i < j => created[s[i]] >= created[s[j]]

\* Mutant: resources is made with a length, and then appended to.
SelectPrefilled(r) ==
    /\ list[r].at = "select"
    /\ \E s \in SetToSeqs({id \in Ids : Matches(list[r].filter, store[id])}) :
          /\ NewestFirst(s)
          /\ ReaderStep(r, [list[r] EXCEPT !.at = "rows", !.left = s,
                                          !.got = [i \in DOMAIN s |-> NoJob]])

\* The SELECT sees what is committed, once.
Select(r) ==
    /\ list[r].at = "select"
    /\ \E s \in SetToSeqs({id \in Ids : Matches(list[r].filter, store[id])}) :
          /\ NewestFirst(s)
          /\ ReaderStep(r, [list[r] EXCEPT !.at = "rows", !.left = s])

\* rows.Next, Scan and buildResourceFromRow.
NextRow(r) ==
    /\ list[r].at = "rows" /\ list[r].left # <<>>
    /\ ReaderStep(r, [list[r] EXCEPT !.left = Tail(@), !.got = Append(@, Head(list[r].left))])

NoMoreRows(r) ==
    /\ list[r].at = "rows" /\ list[r].left = <<>>
    /\ Answer(r, "OK")

\* Mutant: rows.Err is not looked at.
RowsBreakUnnoticed(r) ==
    /\ list[r].at = "rows"
    /\ Answer(r, "OK")

\* The connection breaks or the context is cancelled: rows.Next returns
\* FALSE, as at the end, and rows.Err tells why. Also a Scan that fails.
RowsBreak(r) ==
    /\ list[r].at = "rows"
    /\ Answer(r, "Internal")

SelectFails(r) ==
    /\ list[r].at = "select"
    /\ Answer(r, "Internal")

Return(r) == list[r].at = "done" /\ ReaderStep(r, NoList)

Next ==
    \/ \E c \in Calls : Ask(c) \/ Begin(c) \/ Apply(c) \/ Drop(c)
    \/ \E r \in Readers :
          \/ List(r) \/ Select(r) \/ NextRow(r) \/ NoMoreRows(r)
          \/ RowsBreak(r) \/ SelectFails(r) \/ Return(r)

Spec == Init /\ [][Next]_vars

-----------------------------------------------------------------------------
(* Properties.                                                             *)

Listed(r) == list[r].at = "done" /\ list[r].code = "OK"

\* A list that is answered OK is complete: it has, once each, exactly the
\* resources that matched at one moment between its arrival and its SELECT,
\* although others wrote meanwhile and the connection may have broken.
ListIsASnapshot ==
    \A r \in Readers : Listed(r) =>
       /\ ToSet(list[r].got) \in list[r].seen
       /\ IsInjective(list[r].got)

\* A resource that a client asked for when another was already there is
\* listed above it, however the transactions that created others overlap.
YoungerComesFirst ==
    \A r \in Readers : Listed(r) =>
       \A i, j \in DOMAIN list[r].got :
          i < j => list[r].got[i] \notin older[list[r].got[j]]

\* updated_at may go back, since a transaction that waited for the row has
\* an early now(). But a client that has seen a stamp and then writes the
\* resource never makes the stamp older than that.
StampsFollowCausality ==
    [][\A c \in Calls, id \in Ids :
          updated'[id] # updated[id] /\ job[c] # NoJob /\ job'[c] = NoJob =>
             updated'[id] >= saw[c][id]]_vars

\* No resource is older than its own creation.
UpdatedAfterCreated == \A id \in Born : created[id] <= updated[id]
=============================================================================
