------------------------------ MODULE Contents ------------------------------
(***************************************************************************)
(* What a resource contains, from the request of a client through the      *)
(* validation, the field mask, the conversions and the columns of the      *)
(* tables, and back: one resource and one call at a time. How calls on the *)
(* same rows interleave is the subject of ResourceStore.                   *)
(***************************************************************************)
EXTENDS Domain, Integers

CONSTANTS
    Texts,       \* the texts
    Names,       \* those of them that requests use for names and locations
    Capacities,  \* capacities of meeting rooms in requests, int32
    Devices,     \* details of devices in requests
    Kept,        \* Kept[n][v]: what a VARCHAR(n) stores of the text v
    TooLong,     \* it stores nothing, and the statement fails
    Null         \* SQL NULL

\* The VARCHAR(n) in the tables.
Widths == {100, 255}

\* PostgreSQL refuses a text that is too long, unless only spaces are beyond
\* the width: those it cuts off without an error. Hence a text that is kept
\* is kept as it is the next time, and only the empty text becomes empty.
ASSUME KeptAssumption ==
    \A n \in Widths, v \in Texts :
       /\ Kept[n][v] \in Texts \cup {TooLong}
       /\ Kept[n][v] # TooLong => Kept[n][Kept[n][v]] = Kept[n][v]
       /\ Kept[n][v] = "" <=> v = ""

\* NULL and the error are no texts (a string of protobuf is never a NULL).
ASSUME TextsAssumption ==
    {Null, TooLong} \cap (Texts \cup {""}) = {} /\ Null # TooLong /\ Names \subseteq Texts

VARIABLES
    row,      \* the row of resources joined with its details
    reply,    \* the last reply: a code, with a resource if it is OK
    told      \* history: what clients were told that the resource contains

vars == <<row, reply, told>>

-----------------------------------------------------------------------------
(* Messages. The details of the request, of the service and of the reply   *)
(* have the same fields, which the converters copy one by one.             *)

NoDetails  == [kind |-> "none"]
Rooms      == [kind : {"meeting_room"}, capacity : Capacities,
               projector : BOOLEAN, whiteboard : BOOLEAN]
Workspaces == [kind : {"workspace"}, monitor : BOOLEAN]
Details    == Rooms \cup Workspaces \cup Devices

ASSUME DevicesAssumption ==
    Devices \subseteq [kind : {"device"}, deviceType : Texts, serial : Texts, model : Texts,
                       description : Texts]

CreateRequests ==
    [name : Names, type : ProtoTypes, location : Names,
     details : Details \cup {NoDetails}]

NoResource == [name |-> "", location |-> "", details |-> NoDetails, there |-> FALSE]

\* A path is unknown, or one of those that buildUpdateResourceRequest knows.
UpdateRequests ==
    [id : {"", "malformed", "unknown", "this"},
     paths : SUBSET {"name", "location", "details", "details.x", "unknown"},
     resource : {NoResource} \cup
                [name : Names, location : Names, there : {TRUE},
                 details : Details \cup {NoDetails}]]

-----------------------------------------------------------------------------
(* Columns.                                                                *)

\* capacity is sent as an int2: what has more bits fails before it is looked
\* at which rows there are.
Bindable(d) == d.kind = "meeting_room" => d.capacity \in -32768..32767

nullableString(v) == IF v = "" THEN Null ELSE v

\* What is stored of a parameter that may be NULL.
Column(n, v) == IF v = Null THEN Null ELSE Kept[n][v]

\* Mutant: two parameters swapped. (A mutant is the definition after it with
\* a plausible bug in it; no specification uses one.)
StoredSwapped(d) ==
    IF d.kind = "device"
    THEN [d EXCEPT !.deviceType  = Kept[100][@],
                   !.serial      = Column(255, nullableString(d.model)),
                   !.model       = Column(100, nullableString(d.serial)),
                   !.description = nullableString(@)]
    ELSE d

\* The columns that the INSERT or UPDATE of the details writes; description
\* is a TEXT, which has no width.
Stored(d) ==
    IF d.kind = "device"
    THEN [d EXCEPT !.deviceType  = Kept[100][@],
                   !.serial      = Column(255, nullableString(@)),
                   !.model       = Column(100, nullableString(@)),
                   !.description = nullableString(@)]
    ELSE d

\* The CHECK of capacity, and the widths.
Fits(d) ==
    CASE d.kind = "meeting_room" -> d.capacity > 0
      [] d.kind = "device"       -> TooLong \notin {Stored(d).deviceType, Stored(d).serial,
                                                    Stored(d).model}
      [] OTHER                   -> TRUE

\* Name and location are VARCHAR(255).
NameFits(v) == Kept[255][v] # TooLong

Text(column) == IF column = Null THEN "" ELSE column

\* parseResourceDetails looks at the table of the type only; NoDetails stands
\* for its error, that there is no row.
Parsed(type, columns) ==
    CASE columns.kind # type -> NoDetails
      [] columns.kind = type /\ type = "device" ->
           [columns EXCEPT !.serial = Text(@), !.model = Text(@), !.description = Text(@)]
      [] OTHER -> columns

\* buildResourceFromRow. (Neither of the two ever sees a NULL in location.)
Built(r) ==
    [name |-> r.name, type |-> r.type, location |-> r.location, status |-> r.status,
     details |-> Parsed(r.type, r.details)]

\* MapServiceResourceToProto of what is read.
Shown(r) ==
    [Built(r) EXCEPT !.type = ServiceTypeToProto(@), !.status = ServiceStatusToProto(@)]

NoRow == [there |-> FALSE]
Nothing == [code |-> "none"]
Refused(code) == [code |-> code]
Ok(resource) == [code |-> "OK", resource |-> resource]

Rows ==
    [there : {TRUE}, name : Texts, type : ResourceTypes, location : Texts,
     status : Statuses, details : {Stored(d) : d \in {e \in Details : Fits(e)}}]

TypeOK ==
    /\ row \in Rows \cup {NoRow}
    /\ reply.code \in Codes \cup {"none"}

Init == row = NoRow /\ reply = Nothing /\ told = Nothing

-----------------------------------------------------------------------------
(* CreateResource.                                                         *)

\* validateCreateResourceRequest. An unknown number passes here.
Valid(in) ==
    /\ in.name # ""
    /\ in.type # "UNSPECIFIED"
    /\ ProtoTypeToService(in.type) \in ResourceTypes =>
          in.details.kind = ProtoTypeToService(in.type)

\* Mutant: the error of ProtoTypeToService is not looked at.
AcceptableUnconverted(in) == Valid(in)

\* The handler goes on to the service.
Acceptable(in) == Valid(in) /\ ProtoTypeToService(in.type) # ""

\* The service makes every new resource available.
NewRow(in) ==
    [there |-> TRUE, name |-> Kept[255][in.name], type |-> ProtoTypeToService(in.type),
     location |-> Kept[255][in.location], status |-> "available", details |-> Stored(in.details)]

\* Mutant: the details are not carried over into the reply.
CreateReplyBare(in) ==
    [name |-> Kept[255][in.name], type |-> ServiceTypeToProto(ProtoTypeToService(in.type)),
     location |-> Kept[255][in.location], status |-> ServiceStatusToProto("available"),
     details |-> NoDetails]

\* Its reply is put together from the RETURNING clause, which has what was
\* stored, and the details of the request, which are not read again.
CreateReply(in) ==
    [name |-> Kept[255][in.name], type |-> ServiceTypeToProto(ProtoTypeToService(in.type)),
     location |-> Kept[255][in.location], status |-> ServiceStatusToProto("available"),
     details |-> in.details]

CreateResource ==
    /\ ~row.there
    /\ \E in \in CreateRequests :
       LET fits == /\ NameFits(in.name) /\ NameFits(in.location)
                   /\ Bindable(in.details) /\ Fits(in.details)
       IN
       \/ /\ Acceptable(in) /\ fits
          /\ row' = NewRow(in)
          /\ reply' = Ok(CreateReply(in))
          /\ told' = [name |-> in.name, type |-> in.type, location |-> in.location,
                      status |-> "AVAILABLE", details |-> in.details]
       \/ /\ ~Acceptable(in)
          /\ reply' = Refused("InvalidArgument")
          /\ UNCHANGED <<row, told>>
       \/ /\ Acceptable(in) /\ ~fits
          /\ reply' = Refused(CodeFor("create", "error"))
          /\ UNCHANGED <<row, told>>

-----------------------------------------------------------------------------
(* UpdateResource.                                                         *)

NamesDetails(paths) == paths \cap {"details", "details.x"} # {}

\* The address of a field of a resource that is absent.
Panics(in) == ~in.resource.there /\ in.paths \cap {"name", "location"} # {}

\* buildUpdateResourceRequest: which fields to write, and what details, where
\* none means that they stay. Any path into the details stands for all.
Update(in) ==
    [hasName     |-> "name" \in in.paths,
     hasLocation |-> "location" \in in.paths,
     details     |-> IF NamesDetails(in.paths) THEN in.resource.details ELSE NoDetails]

\* The error of the first statement of the transaction that fails.
Error(in) ==
    LET u == Update(in) IN
    CASE in.id = "malformed"                             -> "error"
      [] in.id = "unknown" \/ (in.id = "this" /\ ~row.there) -> "ErrNotFound"
      [] \/ u.hasName /\ ~NameFits(in.resource.name)
         \/ u.hasLocation /\ ~NameFits(in.resource.location) -> "error"
      [] ~Bindable(u.details)                            -> "error"
      [] u.details.kind \notin {"none", row.type}         -> "ErrInvalidType"
      [] ~Fits(u.details)                                -> "error"
      [] OTHER                                           -> "none"

\* The base fields, as updateResourceBaseFields writes them.
Rebased(in) ==
    [row EXCEPT
       !.name     = IF Update(in).hasName     THEN Kept[255][in.resource.name]     ELSE @,
       !.location = IF Update(in).hasLocation THEN Kept[255][in.resource.location] ELSE @]

Updated(in) ==
    [Rebased(in) EXCEPT !.details = IF Update(in).details.kind = "none" THEN @
                                    ELSE Stored(Update(in).details)]

\* Mutant: the details are written after the COMMIT of the base fields.
RefusedHalfway(in, err) ==
    /\ row' = IF err = "ErrInvalidType" THEN Rebased(in) ELSE row
    /\ reply' = Refused(CodeFor("update", err))
    /\ UNCHANGED told

\* The deferred rollback undoes what was written before the error.
RolledBack(in, err) ==
    /\ reply' = Refused(CodeFor("update", err))
    /\ UNCHANGED <<row, told>>

\* The reply is what GetResource reads after the COMMIT. (That the COMMIT, or
\* this read, fails is in ResourceStore.) Clients are told of details.x what
\* the code makes of it, that it is as good as details; nothing says otherwise.
UpdateResource ==
    \E in \in UpdateRequests :
       \/ /\ in.id = "" \/ in.paths = {}
          /\ reply' = Refused("InvalidArgument")
          /\ UNCHANGED <<row, told>>
       \/ /\ in.id # "" /\ in.paths # {} /\ Panics(in)
          /\ reply' = Refused("Internal")
          /\ UNCHANGED <<row, told>>
       \/ /\ in.id # "" /\ in.paths # {} /\ ~Panics(in)
          /\ \/ /\ Error(in) # "none"
                /\ RolledBack(in, Error(in))
             \/ /\ Error(in) = "none"
                /\ row' = Updated(in)
                /\ reply' = Ok(Shown(row'))
                /\ told' = [told EXCEPT
                     !.name = IF "name" \in in.paths THEN in.resource.name ELSE @,
                     !.location = IF "location" \in in.paths THEN in.resource.location ELSE @,
                     !.details = IF NamesDetails(in.paths) /\ in.resource.details # NoDetails
                                 THEN in.resource.details ELSE @]

Next == CreateResource \/ UpdateResource

Spec == Init /\ [][Next]_vars

-----------------------------------------------------------------------------
(* Properties.                                                             *)

\* w is the text v, but for spaces that a column has cut off.
Shortened(v, w) == w = v \/ \E n \in Widths : w = Kept[n][v]

\* The details e are the details d, but for such spaces.
SameDetails(d, e) ==
    \/ d = e
    \/ /\ d.kind = "device" /\ e.kind = "device"
       /\ Shortened(d.deviceType, e.deviceType)
       /\ Shortened(d.serial, e.serial)
       /\ Shortened(d.model, e.model)
       /\ d.description = e.description

\* Whatever a client has written and was told OK for is what everybody is
\* shown, field by field, and the other fields are as they were: no path of
\* conversions, columns and NULLs loses or mixes a value, or shortens one by
\* more than spaces at its end, and no row is written that cannot be shown.
ReadsBackWhatWasWritten ==
    row.there =>
       LET shown == Shown(row) IN
       /\ shown.type = told.type /\ shown.status = told.status
       /\ Shortened(told.name, shown.name) /\ Shortened(told.location, shown.location)
       /\ SameDetails(told.details, shown.details)

\* The reply of a write shows the resource as a read would. Only the details
\* in that of CreateResource, which are not read from the tables, may still
\* have spaces that are not stored.
RepliesShowTheResource ==
    reply.code = "OK" =>
       /\ reply.resource = [Shown(row) EXCEPT !.details = reply.resource.details]
       /\ SameDetails(reply.resource.details, Shown(row).details)

\* A request that is refused, or that makes the handler panic, changes
\* nothing, not even the fields that were valid.
RefusalsChangeNothing == [][reply'.code # "OK" => row' = row]_vars
=============================================================================
