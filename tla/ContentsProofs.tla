--------------------------- MODULE ContentsProofs ---------------------------
(***************************************************************************)
(* Theorems about Contents: what clients were told they have written is    *)
(* what everybody is shown, but for spaces past the width of a column, for *)
(* any texts, capacities and devices. The strengthening names the words    *)
(* the row was made of: they are what clients were told, they fit, and the *)
(* row is what the columns keep of them.                                   *)
(***************************************************************************)
EXTENDS Contents, TLAPS

\* The row of a resource with this name, location, status and details,
Written(n, l, s, d) ==
    [there |-> TRUE, name |-> Kept[255][n], type |-> d.kind, location |-> Kept[255][l],
     status |-> s, details |-> Stored(d)]

\* and the same in the words of a message.
Words(n, l, s, d) ==
    [name |-> n, type |-> ServiceTypeToProto(d.kind), location |-> l,
     status |-> ServiceStatusToProto(s), details |-> d]

\* The row is what the columns keep of what clients were told.
MadeOfWords ==
    \E n \in Texts, l \in Texts, s \in Statuses, d \in Details :
       /\ NameFits(n) /\ NameFits(l) /\ Fits(d)
       /\ told = Words(n, l, s, d)
       /\ row = Written(n, l, s, d)

IInv ==
    /\ TypeOK
    /\ row.there => MadeOfWords
    /\ RepliesShowTheResource

-----------------------------------------------------------------------------
(* Details, messages and rows.                                             *)

\* Details are of one of the three types, and NoDetails are of none.
LEMMA Kinds ==
  /\ \A d \in Details : d.kind \in ResourceTypes
  /\ NoDetails.kind = "none" /\ NoDetails \notin Details
<1>1. \A d \in Details : d.kind \in ResourceTypes
  BY DevicesAssumption DEF Details, Rooms, Workspaces, ResourceTypes
<1>2. NoDetails.kind = "none"
  BY DEF NoDetails
<1>3. QED
  BY <1>1, <1>2 DEF ResourceTypes

\* The parameters of a statement are of the type of what they are made of.
LEMMA StoredKind == \A d \in Details : Stored(d).kind = d.kind
<1>1. ASSUME NEW d \in Details, d.kind = "device"
      PROVE  Stored(d).kind = d.kind
  <2>1. d \in Devices
    BY <1>1 DEF Details, Rooms, Workspaces
  <2>2. d = [kind |-> "device", deviceType |-> d.deviceType, serial |-> d.serial,
             model |-> d.model, description |-> d.description]
    BY <2>1, DevicesAssumption
  <2>3. QED BY <1>1, <2>2 DEF Stored
<1>2. QED
  BY <1>1 DEF Stored

\* An empty text becomes a NULL, the NULL an empty text, and a text that is
\* kept is none of the two.
LEMMA TextsReadBack ==
  ASSUME NEW n \in Widths, NEW v \in Texts, Column(n, nullableString(v)) # TooLong
  PROVE  /\ Text(Column(n, nullableString(v))) = Kept[n][v]
         /\ Kept[n][v] # TooLong
<1>1. CASE v = ""
  <2>1. Kept[n][v] = ""
    BY <1>1, KeptAssumption
  <2>2. Column(n, nullableString(v)) = Null
    BY <1>1 DEF Column, nullableString
  <2>3. QED BY <2>1, <2>2, TextsAssumption DEF Text
<1>2. CASE v # ""
  <2>1. Column(n, nullableString(v)) = Kept[n][v]
    BY <1>2, TextsAssumption DEF Column, nullableString
  <2>2. Kept[n][v] \in Texts
    BY <2>1, KeptAssumption
  <2>3. QED BY <2>1, <2>2, TextsAssumption DEF Text
<1>3. QED
  BY <1>1, <1>2

\* k has the fields of a device, and no others.
DeviceLike(k) ==
    k = [kind |-> "device", deviceType |-> k.deviceType, serial |-> k.serial,
         model |-> k.model, description |-> k.description]

\* The fields of a device, replaced one after the other.
Replaced(k, t, x, y, z) ==
    [k EXCEPT !.deviceType = t, !.serial = x, !.model = y, !.description = z]

LEMMA Columns ==
  ASSUME NEW k, DeviceLike(k), NEW t, NEW x, NEW y, NEW z
  PROVE  Replaced(k, t, x, y, z) =
         [kind |-> "device", deviceType |-> t, serial |-> x, model |-> y, description |-> z]
<1>0. k = [kind |-> "device", deviceType |-> k.deviceType, serial |-> k.serial,
           model |-> k.model, description |-> k.description]
  BY DEF DeviceLike
<1>1. PICK a : a = [k EXCEPT !.deviceType = t]
  OBVIOUS
<1>2. a = [kind |-> "device", deviceType |-> t, serial |-> k.serial, model |-> k.model,
           description |-> k.description]
  BY <1>0, <1>1
<1>3. PICK b : b = [a EXCEPT !.serial = x]
  OBVIOUS
<1>4. b = [kind |-> "device", deviceType |-> t, serial |-> x, model |-> k.model,
           description |-> k.description]
  BY <1>2, <1>3
<1>5. PICK c : c = [b EXCEPT !.model = y]
  OBVIOUS
<1>6. c = [kind |-> "device", deviceType |-> t, serial |-> x, model |-> y,
           description |-> k.description]
  BY <1>4, <1>5
<1>7. [c EXCEPT !.description = z] =
      [kind |-> "device", deviceType |-> t, serial |-> x, model |-> y, description |-> z]
  BY <1>6
<1>8. Replaced(k, t, x, y, z) = [c EXCEPT !.description = z]
  BY <1>1, <1>3, <1>5 DEF Replaced
<1>9. QED
  BY <1>7, <1>8

\* Three of them, as parseResourceDetails does.
Unnulled(k, x, y, z) == [k EXCEPT !.serial = x, !.model = y, !.description = z]

LEMMA Nullables ==
  ASSUME NEW k, DeviceLike(k), NEW x, NEW y, NEW z
  PROVE  Unnulled(k, x, y, z) =
         [kind |-> "device", deviceType |-> k.deviceType, serial |-> x, model |-> y, description |-> z]
<1>0. k = [kind |-> "device", deviceType |-> k.deviceType, serial |-> k.serial,
           model |-> k.model, description |-> k.description]
  BY DEF DeviceLike
<1>1. PICK a : a = [k EXCEPT !.serial = x]
  OBVIOUS
<1>2. a = [kind |-> "device", deviceType |-> k.deviceType, serial |-> x, model |-> k.model,
           description |-> k.description]
  BY <1>0, <1>1
<1>3. PICK b : b = [a EXCEPT !.model = y]
  OBVIOUS
<1>4. b = [kind |-> "device", deviceType |-> k.deviceType, serial |-> x, model |-> y,
           description |-> k.description]
  BY <1>2, <1>3
<1>5. [b EXCEPT !.description = z] =
      [kind |-> "device", deviceType |-> k.deviceType, serial |-> x, model |-> y, description |-> z]
  BY <1>4
<1>6. Unnulled(k, x, y, z) = [b EXCEPT !.description = z]
  BY <1>1, <1>3 DEF Unnulled
<1>7. QED
  BY <1>5, <1>6

\* parseResourceDetails finds details that fit as the columns keep them.
LEMMA DetailsReadBack ==
  ASSUME NEW d \in Details, Fits(d)
  PROVE  SameDetails(d, Parsed(d.kind, Stored(d)))
<1>1. CASE d.kind = "device"
  <2>1. d \in Devices
    BY <1>1 DEF Details, Rooms, Workspaces
  <2>2. PICK t \in Texts, s \in Texts, m \in Texts, text \in Texts :
           d = [kind |-> "device", deviceType |-> t, serial |-> s, model |-> m, description |-> text]
    BY <2>1, DevicesAssumption
  <2>3. DeviceLike(d) /\ d.deviceType = t /\ d.serial = s /\ d.model = m /\ d.description = text
    BY <2>2 DEF DeviceLike
  <2>4. PICK r, x, y, z : /\ r = Kept[100][t] /\ x = Column(255, nullableString(s))
                          /\ y = Column(100, nullableString(m)) /\ z = nullableString(text)
    OBVIOUS
  <2>5. PICK k : k = [kind |-> "device", deviceType |-> r, serial |-> x, model |-> y,
                      description |-> z]
    OBVIOUS
  <2>6. DeviceLike(k) /\ k.kind = "device" /\ k.deviceType = r /\ k.serial = x /\ k.model = y
        /\ k.description = z
    BY <2>5 DEF DeviceLike
  <2>7. Stored(d) = k
    <3>1. Stored(d) = Replaced(d, r, x, y, z)
      BY <1>1, <2>3, <2>4 DEF Stored, Replaced
    <3>2. DeviceLike(d)
      BY <2>3
    <3>3. Replaced(d, r, x, y, z) =
          [kind |-> "device", deviceType |-> r, serial |-> x, model |-> y, description |-> z]
      BY <3>2, Columns
    <3>4. QED BY <2>5, <3>1, <3>3
  <2>8. r # TooLong /\ x # TooLong /\ y # TooLong
    BY <1>1, <2>6, <2>7 DEF Fits
  <2>9. 255 \in Widths /\ 100 \in Widths
    BY DEF Widths
  <2>10. Text(x) = Kept[255][s] /\ Text(y) = Kept[100][m] /\ Text(z) = text
    <3>1. Text(x) = Kept[255][s] /\ Text(y) = Kept[100][m]
      BY <2>4, <2>8, <2>9, TextsReadBack
    <3>2. Text(z) = text
      BY <2>4, TextsAssumption DEF Text, nullableString
    <3>3. QED BY <3>1, <3>2
  <2>11. PICK e : e = [kind |-> "device", deviceType |-> r, serial |-> Kept[255][s],
                       model |-> Kept[100][m], description |-> text]
    OBVIOUS
  <2>12. Parsed("device", k) = e
    <3>1. Parsed("device", k) = Unnulled(k, Kept[255][s], Kept[100][m], text)
      BY <2>6, <2>10 DEF Parsed, Unnulled
    <3>2. DeviceLike(k)
      BY <2>6
    <3>3. Unnulled(k, Kept[255][s], Kept[100][m], text) =
          [kind |-> "device", deviceType |-> k.deviceType, serial |-> Kept[255][s],
           model |-> Kept[100][m], description |-> text]
      BY <3>2, Nullables
    <3>4. QED BY <2>6, <2>11, <3>1, <3>3
  <2>13. e.kind = "device" /\ e.deviceType = Kept[100][t] /\ e.serial = Kept[255][s]
         /\ e.model = Kept[100][m] /\ e.description = text
    BY <2>4, <2>11
  <2>14. SameDetails(d, e)
    BY <1>1, <2>3, <2>9, <2>13 DEF SameDetails, Shortened
  <2>15. QED BY <1>1, <2>7, <2>12, <2>14
<1>2. CASE d.kind # "device"
  <2>1. Stored(d) = d
    BY <1>2 DEF Stored
  <2>2. Parsed(d.kind, d) = d
    BY <1>2 DEF Parsed
  <2>3. QED BY <2>1, <2>2 DEF SameDetails
<1>3. QED
  BY <1>1, <1>2

\* Two fields of a resource are converted, and the others stay.
Converted(b, t, u) == [b EXCEPT !.type = t, !.status = u]

LEMMA TwoConverted ==
  ASSUME NEW b, NEW v, NEW w, NEW x, NEW y, NEW z, NEW t, NEW u,
         b = [name |-> v, type |-> w, location |-> x, status |-> y, details |-> z]
  PROVE  Converted(b, t, u) =
         [name |-> v, type |-> t, location |-> x, status |-> u, details |-> z]
<1>1. PICK a : a = [b EXCEPT !.type = t]
  OBVIOUS
<1>2. a = [name |-> v, type |-> t, location |-> x, status |-> y, details |-> z]
  BY <1>1
<1>3. [a EXCEPT !.status = u] =
      [name |-> v, type |-> t, location |-> x, status |-> u, details |-> z]
  BY <1>2
<1>4. QED
  BY <1>1, <1>3 DEF Converted

\* What a row is shown as.
LEMMA ShownFields ==
  ASSUME NEW d \in Details, NEW n, NEW l, NEW s
  PROVE  Shown(Written(n, l, s, d)) =
         [name |-> Kept[255][n], type |-> ServiceTypeToProto(d.kind), location |-> Kept[255][l],
          status |-> ServiceStatusToProto(s), details |-> Parsed(d.kind, Stored(d))]
<1>1. PICK r : r = Written(n, l, s, d)
  OBVIOUS
<1>2. r.name = Kept[255][n] /\ r.type = d.kind /\ r.location = Kept[255][l] /\ r.status = s
      /\ r.details = Stored(d)
  BY <1>1 DEF Written
<1>3. PICK b : b = [name |-> Kept[255][n], type |-> d.kind, location |-> Kept[255][l], status |-> s,
                    details |-> Parsed(d.kind, Stored(d))]
  OBVIOUS
<1>4. Built(r) = b
  BY <1>2, <1>3 DEF Built
<1>5. Shown(r) = Converted(b, ServiceTypeToProto(d.kind), ServiceStatusToProto(s))
  BY <1>3, <1>4 DEF Shown, Converted
<1>6. Converted(b, ServiceTypeToProto(d.kind), ServiceStatusToProto(s)) =
      [name |-> Kept[255][n], type |-> ServiceTypeToProto(d.kind), location |-> Kept[255][l],
       status |-> ServiceStatusToProto(s), details |-> Parsed(d.kind, Stored(d))]
  BY <1>3, TwoConverted
<1>7. QED
  BY <1>1, <1>5, <1>6

\* Words that fit are shown but for spaces that the columns cut off.
LEMMA WordsReadBack ==
  ASSUME MadeOfWords
  PROVE  ReadsBackWhatWasWritten
<1>1. PICK n \in Texts, l \in Texts, s \in Statuses, d \in Details :
         /\ NameFits(n) /\ NameFits(l) /\ Fits(d)
         /\ told = Words(n, l, s, d)
         /\ row = Written(n, l, s, d)
  BY DEF MadeOfWords
<1>2. /\ told.name = n /\ told.type = ServiceTypeToProto(d.kind) /\ told.location = l
      /\ told.status = ServiceStatusToProto(s) /\ told.details = d
  BY <1>1 DEF Words
<1>3. PICK shown : shown = Shown(row)
  OBVIOUS
<1>4. /\ shown.name = Kept[255][n] /\ shown.type = ServiceTypeToProto(d.kind)
      /\ shown.location = Kept[255][l] /\ shown.status = ServiceStatusToProto(s)
      /\ shown.details = Parsed(d.kind, Stored(d))
  BY <1>1, <1>3, ShownFields
<1>5. SameDetails(told.details, shown.details)
  BY <1>1, <1>2, <1>4, DetailsReadBack
<1>6. Shortened(told.name, shown.name) /\ Shortened(told.location, shown.location)
  BY <1>2, <1>4 DEF Shortened, Widths
<1>7. QED
  BY <1>2, <1>3, <1>4, <1>5, <1>6 DEF ReadsBackWhatWasWritten

\* The type of a request comes back as it was.
LEMMA TypesReadBack ==
  ASSUME NEW p \in ProtoTypes, ProtoTypeToService(p) # ""
  PROVE  /\ ProtoTypeToService(p) \in ResourceTypes
         /\ ServiceTypeToProto(ProtoTypeToService(p)) = p
BY DEF ProtoTypes, ResourceTypes, ProtoTypeToService, ServiceTypeToProto

\* No refusal is answered OK.
LEMMA RefusalsAreCodes ==
  \A op, err : CodeFor(op, err) \in Codes \ {"OK"}
<1>1. \A err : OccupancyCode(err) \in Codes \ {"OK"}
  BY Zenon DEF OccupancyCode, Codes
<1> QED
  BY <1>1, Zenon DEF CodeFor, Codes

-----------------------------------------------------------------------------
(* The inductive invariant.                                                *)

\* What the columns keep of words that fit is one of Rows.
LEMMA RowsAreRows ==
  ASSUME NEW n \in Texts, NEW l \in Texts, NEW s \in Statuses, NEW d \in Details,
         NameFits(n), NameFits(l), Fits(d)
  PROVE  Written(n, l, s, d) \in Rows
<1>1. Kept[255][n] \in Texts /\ Kept[255][l] \in Texts
  BY KeptAssumption DEF NameFits, Widths
<1>2. d.kind \in ResourceTypes
  BY Kinds
<1>3. Stored(d) \in {Stored(e) : e \in {f \in Details : Fits(f)}}
  OBVIOUS
<1>4. QED
  BY <1>1, <1>2, <1>3 DEF Rows, Written

\* What is shown has the field of the details.
LEMMA ShownDetails == \A r : [Shown(r) EXCEPT !.details = Shown(r).details] = Shown(r)
<1> SUFFICES ASSUME NEW r PROVE [Shown(r) EXCEPT !.details = Shown(r).details] = Shown(r)
  OBVIOUS
<1>1. PICK b, t, u : b = Built(r) /\ t = ServiceTypeToProto(b.type) /\ u = ServiceStatusToProto(b.status)
  OBVIOUS
<1>2. b = [name |-> r.name, type |-> r.type, location |-> r.location, status |-> r.status,
           details |-> Parsed(r.type, r.details)]
  BY <1>1 DEF Built
<1>3. PICK a : a = [b EXCEPT !.type = t]
  OBVIOUS
<1>4. a = [name |-> r.name, type |-> t, location |-> r.location, status |-> r.status,
           details |-> Parsed(r.type, r.details)]
  BY <1>2, <1>3
<1>5. PICK s : s = [a EXCEPT !.status = u]
  OBVIOUS
<1>6. s = [name |-> r.name, type |-> t, location |-> r.location, status |-> u,
           details |-> Parsed(r.type, r.details)]
  BY <1>4, <1>5
<1>7. Shown(r) = s
  BY <1>1, <1>3, <1>5 DEF Shown
<1>8. [s EXCEPT !.details = s.details] = s
  BY <1>6
<1>9. QED
  BY <1>7, <1>8

\* Every request that creates leaves a row that reads as the request, or is
\* refused.
LEMMA CreateInv == ASSUME IInv, CreateResource PROVE IInv'
<1>1. PICK in \in CreateRequests :
         \/ /\ Acceptable(in)
            /\ NameFits(in.name) /\ NameFits(in.location) /\ Fits(in.details)
            /\ row' = NewRow(in)
            /\ reply' = Ok(CreateReply(in))
            /\ told' = [name |-> in.name, type |-> in.type, location |-> in.location,
                        status |-> "AVAILABLE", details |-> in.details]
         \/ /\ reply' \in {Refused("InvalidArgument"), Refused(CodeFor("create", "error"))}
            /\ UNCHANGED <<row, told>>
  BY DEF CreateResource
<1>2. CASE UNCHANGED <<row, told>> /\ reply' \in {Refused("InvalidArgument"), Refused(CodeFor("create", "error"))}
  <2>1. reply'.code \in Codes \ {"OK"}
    BY <1>2, RefusalsAreCodes DEF Refused, Codes
  <2>2. QED
    BY <1>2, <2>1 DEF IInv, TypeOK, MadeOfWords, RepliesShowTheResource
<1>3. ASSUME Acceptable(in),
             NameFits(in.name), NameFits(in.location), Fits(in.details),
             row' = NewRow(in),
             reply' = Ok(CreateReply(in)),
             told' = [name |-> in.name, type |-> in.type, location |-> in.location,
                      status |-> "AVAILABLE", details |-> in.details]
      PROVE  IInv'
  <2>1. PICK n, l, d : n = in.name /\ l = in.location /\ d = in.details
    OBVIOUS
  <2>2. /\ n \in Texts /\ l \in Texts /\ in.type \in ProtoTypes
        /\ d \in Details \cup {NoDetails}
    BY <2>1, TextsAssumption DEF CreateRequests
  <2>3. ProtoTypeToService(in.type) \in ResourceTypes /\ ServiceTypeToProto(ProtoTypeToService(in.type)) = in.type
    BY <1>3, <2>2, TypesReadBack DEF Acceptable
  <2>4. d.kind = ProtoTypeToService(in.type) /\ d \in Details
    <3>1. d.kind = ProtoTypeToService(in.type)
      BY <1>3, <2>1, <2>3 DEF Acceptable, Valid
    <3>2. QED BY <2>2, <2>3, <3>1, Kinds DEF ResourceTypes
  <2>5. "available" \in Statuses /\ ServiceStatusToProto("available") = "AVAILABLE"
    BY DEF Statuses, ServiceStatusToProto
  <2>6. NameFits(n) /\ NameFits(l) /\ Fits(d)
    BY <1>3, <2>1
  <2>7. row' = Written(n, l, "available", d)
    BY <1>3, <2>1, <2>4 DEF NewRow, Written
  <2>8. told' = Words(n, l, "available", d)
    BY <1>3, <2>1, <2>3, <2>4, <2>5 DEF Words
  <2>9. row' \in Rows
    BY <2>2, <2>4, <2>5, <2>6, <2>7, RowsAreRows
  <2>10. MadeOfWords'
    BY <2>2, <2>4, <2>5, <2>6, <2>7, <2>8 DEF MadeOfWords
  <2>11. reply'.code = "OK" /\ reply'.resource = CreateReply(in)
    BY <1>3 DEF Ok
  <2>12. TypeOK'
    BY <2>9, <2>11 DEF TypeOK, Codes
  <2>13. RepliesShowTheResource'
    <3>1. PICK e : e = Parsed(d.kind, Stored(d))
      OBVIOUS
    <3>2. PICK b : b = [name |-> Kept[255][n], type |-> in.type, location |-> Kept[255][l],
                        status |-> "AVAILABLE", details |-> e]
      OBVIOUS
    <3>3. Shown(row') = b
      BY <2>3, <2>4, <2>5, <2>7, <3>1, <3>2, ShownFields
    <3>4. CreateReply(in) = [name |-> Kept[255][n], type |-> in.type, location |-> Kept[255][l],
                             status |-> "AVAILABLE", details |-> d]
      BY <2>1, <2>3, <2>5 DEF CreateReply
    <3>5. CreateReply(in) = [b EXCEPT !.details = d] /\ CreateReply(in).details = d
      BY <3>2, <3>4
    <3>6. b.details = e /\ SameDetails(d, e)
      BY <2>4, <2>6, <3>1, <3>2, DetailsReadBack
    <3>7. Shown(row)' = b
      BY <3>3 DEF Shown, Built
    <3>8. QED BY <2>11, <3>5, <3>6, <3>7 DEF RepliesShowTheResource
  <2>14. QED BY <2>10, <2>12, <2>13 DEF IInv
<1>4. QED
  BY <1>1, <1>2, <1>3

\* r has the fields of a row, and no others.
RowLike(r) ==
    r = [there |-> r.there, name |-> r.name, type |-> r.type, location |-> r.location,
         status |-> r.status, details |-> r.details]

\* Two fields of a row, replaced,
Renamed(r, x, y) == [r EXCEPT !.name = x, !.location = y]

LEMMA BaseFields ==
  ASSUME NEW r, RowLike(r), NEW x, NEW y
  PROVE  Renamed(r, x, y) =
         [there |-> r.there, name |-> x, type |-> r.type, location |-> y, status |-> r.status,
          details |-> r.details]
<1>0. r = [there |-> r.there, name |-> r.name, type |-> r.type, location |-> r.location,
           status |-> r.status, details |-> r.details]
  BY DEF RowLike
<1>1. PICK a : a = [r EXCEPT !.name = x]
  OBVIOUS
<1>2. a = [there |-> r.there, name |-> x, type |-> r.type, location |-> r.location,
           status |-> r.status, details |-> r.details]
  BY <1>0, <1>1
<1>3. [a EXCEPT !.location = y] =
      [there |-> r.there, name |-> x, type |-> r.type, location |-> y, status |-> r.status,
       details |-> r.details]
  BY <1>2
<1>4. Renamed(r, x, y) = [a EXCEPT !.location = y]
  BY <1>1 DEF Renamed
<1>5. QED
  BY <1>3, <1>4

\* and a third.
LEMMA DetailsField ==
  ASSUME NEW r, RowLike(r), NEW z
  PROVE  [r EXCEPT !.details = z] =
         [there |-> r.there, name |-> r.name, type |-> r.type, location |-> r.location,
          status |-> r.status, details |-> z]
BY DEF RowLike

\* The words of a request where it names a field, the other ones elsewhere.
Overwrites(in, n, l, d, x, y, new) ==
    /\ x = IF Update(in).hasName THEN in.resource.name ELSE n
    /\ y = IF Update(in).hasLocation THEN in.resource.location ELSE l
    /\ new = IF Update(in).details.kind = "none" THEN d ELSE Update(in).details

\* What an UPDATE leaves in a row made of such words.
LEMMA UpdatedRow ==
  ASSUME NEW in, NEW n, NEW l, NEW s, NEW d, row = Written(n, l, s, d),
         NEW x, NEW y, NEW new, Overwrites(in, n, l, d, x, y, new), new.kind = d.kind
  PROVE  Updated(in) = Written(x, y, s, new)
<1>0. /\ x = IF Update(in).hasName THEN in.resource.name ELSE n
      /\ y = IF Update(in).hasLocation THEN in.resource.location ELSE l
      /\ new = IF Update(in).details.kind = "none" THEN d ELSE Update(in).details
  BY DEF Overwrites
<1>1. /\ RowLike(row)
      /\ row.there = TRUE /\ row.name = Kept[255][n] /\ row.type = d.kind
      /\ row.location = Kept[255][l] /\ row.status = s /\ row.details = Stored(d)
  BY DEF Written, RowLike
<1>2. PICK a : a = Renamed(row, Kept[255][x], Kept[255][y])
  OBVIOUS
<1>3. Rebased(in) = a
  <2>1. Kept[255][x] = IF Update(in).hasName THEN Kept[255][in.resource.name] ELSE row.name
    BY <1>0, <1>1
  <2>2. Kept[255][y] = IF Update(in).hasLocation THEN Kept[255][in.resource.location] ELSE row.location
    BY <1>0, <1>1
  <2>3. QED BY <1>2, <2>1, <2>2 DEF Rebased, Renamed
<1>4. a = [there |-> row.there, name |-> Kept[255][x], type |-> row.type, location |-> Kept[255][y],
           status |-> row.status, details |-> row.details]
  <2>1. RowLike(row)
    BY <1>1
  <2>2. QED BY <1>2, <2>1, BaseFields
<1>5. /\ RowLike(a)
      /\ a.there = TRUE /\ a.name = Kept[255][x] /\ a.type = d.kind /\ a.location = Kept[255][y]
      /\ a.status = s /\ a.details = Stored(d)
  BY <1>1, <1>4 DEF RowLike
<1>6. Updated(in) = [a EXCEPT !.details = Stored(new)]
  <2>1. Stored(new) = IF Update(in).details.kind = "none" THEN a.details ELSE Stored(Update(in).details)
    BY <1>0, <1>5
  <2>2. QED BY <1>3, <2>1 DEF Updated
<1>7. [a EXCEPT !.details = Stored(new)] =
      [there |-> a.there, name |-> a.name, type |-> a.type, location |-> a.location,
       status |-> a.status, details |-> Stored(new)]
  <2>1. RowLike(a)
    BY <1>5
  <2>2. QED BY <2>1, DetailsField
<1>8. [there |-> a.there, name |-> a.name, type |-> a.type, location |-> a.location,
       status |-> a.status, details |-> Stored(new)] = Written(x, y, s, new)
  <2>1. new.kind = d.kind
    OBVIOUS
  <2>2. QED BY <1>5, <2>1 DEF Written
<1>9. QED
  BY <1>6, <1>7, <1>8

\* An update that is answered OK found the row, details of its type, and room
\* for what it writes.
LEMMA NoError ==
  ASSUME NEW in \in UpdateRequests, in.id # "", Error(in) = "none"
  PROVE  /\ row.there
         /\ Update(in).details.kind \in {"none", row.type}
         /\ Update(in).hasName => NameFits(in.resource.name)
         /\ Update(in).hasLocation => NameFits(in.resource.location)
         /\ Fits(Update(in).details)
<1>1. in.id # "malformed"
  BY DEF Error
<1>2. ~(in.id = "unknown" \/ (in.id = "this" /\ ~row.there))
  BY <1>1 DEF Error
<1>3. /\ Update(in).details.kind \in {"none", row.type}
      /\ Update(in).hasName => NameFits(in.resource.name)
      /\ Update(in).hasLocation => NameFits(in.resource.location)
      /\ Fits(Update(in).details)
  BY DEF Error
<1>4. in.id \in {"", "malformed", "unknown", "this"}
  BY DEF UpdateRequests
<1>5. QED
  BY <1>1, <1>2, <1>3, <1>4

\* What clients were told once an update has succeeded.
ToldAfter(in) ==
    [told EXCEPT !.name = IF "name" \in in.paths THEN in.resource.name ELSE @,
                 !.location = IF "location" \in in.paths THEN in.resource.location ELSE @,
                 !.details = IF NamesDetails(in.paths) /\ in.resource.details # NoDetails
                             THEN in.resource.details ELSE @]

\* An update that succeeds leaves a row that reads as it, and as before where
\* it names no field.
LEMMA SuccessInv ==
  ASSUME IInv, NEW in \in UpdateRequests, in.id # "", ~Panics(in), Error(in) = "none",
         row' = Updated(in), reply' = Ok(Shown(row')),
         told' = ToldAfter(in)
  PROVE  IInv'
<1>1. /\ row.there
      /\ Update(in).details.kind \in {"none", row.type}
      /\ Update(in).hasName => NameFits(in.resource.name)
      /\ Update(in).hasLocation => NameFits(in.resource.location)
      /\ Fits(Update(in).details)
  BY NoError
<1>2. PICK n \in Texts, l \in Texts, s \in Statuses, d \in Details :
         /\ NameFits(n) /\ NameFits(l) /\ Fits(d)
         /\ told = Words(n, l, s, d)
         /\ row = Written(n, l, s, d)
  BY <1>1 DEF IInv, MadeOfWords
<1>3. PICK x, y, new :
         /\ x = IF Update(in).hasName THEN in.resource.name ELSE n
         /\ y = IF Update(in).hasLocation THEN in.resource.location ELSE l
         /\ new = IF Update(in).details.kind = "none" THEN d ELSE Update(in).details
  OBVIOUS
<1>4. /\ Update(in).hasName <=> "name" \in in.paths
      /\ Update(in).hasLocation <=> "location" \in in.paths
      /\ Update(in).details = IF NamesDetails(in.paths) THEN in.resource.details ELSE NoDetails
  BY DEF Update
<1>5. /\ in.resource.details \in Details \cup {NoDetails}
      /\ in.resource.there => in.resource.name \in Texts /\ in.resource.location \in Texts
  <2>1. in.resource \in {NoResource} \cup [name : Names, location : Names, there : {TRUE},
                                           details : Details \cup {NoDetails}]
    BY DEF UpdateRequests
  <2>2. NoResource.details = NoDetails /\ NoResource.there = FALSE
    BY DEF NoResource
  <2>3. QED BY <2>1, <2>2, TextsAssumption
<1>6. new \in Details /\ new.kind = d.kind /\ Fits(new)
  <2>1. row.type = d.kind
    BY <1>2 DEF Written
  <2>2. Update(in).details \in Details \cup {NoDetails}
    BY <1>4, <1>5
  <2>3. QED BY <1>1, <1>2, <1>3, <2>1, <2>2, Kinds DEF ResourceTypes
<1>7. x \in Texts /\ y \in Texts
  <2>1. "name" \in in.paths \/ "location" \in in.paths => in.resource.there
    BY DEF Panics
  <2>2. QED BY <1>2, <1>3, <1>4, <1>5, <2>1
<1>8. NameFits(x) /\ NameFits(y)
  BY <1>1, <1>2, <1>3
<1>9. row' = Written(x, y, s, new)
  <2>1. row = Written(n, l, s, d)
    BY <1>2
  <2>2. Overwrites(in, n, l, d, x, y, new)
    BY <1>3 DEF Overwrites
  <2>3. new.kind = d.kind
    BY <1>6
  <2>4. QED BY <2>1, <2>2, <2>3, UpdatedRow
<1>10. told' = Words(x, y, s, new)
  <2>1. PICK t, u : t = ServiceTypeToProto(d.kind) /\ u = ServiceStatusToProto(s)
    OBVIOUS
  <2>2. told = [name |-> n, type |-> t, location |-> l, status |-> u, details |-> d]
    BY <1>2, <2>1 DEF Words
  <2>3. told.name = n /\ told.location = l /\ told.details = d
    BY <2>2
  <2>4. x = IF "name" \in in.paths THEN in.resource.name ELSE told.name
    BY <1>3, <1>4, <2>3
  <2>5. y = IF "location" \in in.paths THEN in.resource.location ELSE told.location
    BY <1>3, <1>4, <2>3
  <2>6. new = IF NamesDetails(in.paths) /\ in.resource.details # NoDetails
              THEN in.resource.details ELSE told.details
    <3>1. Update(in).details.kind = "none" <=> ~(NamesDetails(in.paths) /\ in.resource.details # NoDetails)
      BY <1>4, <1>5, Kinds DEF ResourceTypes
    <3>2. QED BY <1>3, <1>4, <2>3, <3>1
  <2>7. PICK a : a = [told EXCEPT !.name = x]
    OBVIOUS
  <2>8. a = [name |-> x, type |-> t, location |-> l, status |-> u, details |-> d]
    BY <2>2, <2>7
  <2>9. PICK b : b = [a EXCEPT !.location = y]
    OBVIOUS
  <2>10. b = [name |-> x, type |-> t, location |-> y, status |-> u, details |-> d]
    BY <2>8, <2>9
  <2>11. PICK e : e = [b EXCEPT !.details = new]
    OBVIOUS
  <2>12. e = [name |-> x, type |-> t, location |-> y, status |-> u, details |-> new]
    BY <2>10, <2>11
  <2>13. told' = [told EXCEPT !.name = x, !.location = y, !.details = new]
    BY <2>4, <2>5, <2>6 DEF ToldAfter
  <2>14. told' = e
    BY <2>7, <2>9, <2>11, <2>13
  <2>15. QED BY <1>6, <2>1, <2>12, <2>14 DEF Words
<1>11. MadeOfWords'
  BY <1>2, <1>6, <1>7, <1>8, <1>9, <1>10 DEF MadeOfWords
<1>12. row' \in Rows
  BY <1>2, <1>6, <1>7, <1>8, <1>9, RowsAreRows
<1>13. reply'.code = "OK" /\ reply'.resource = Shown(row')
  BY DEF Ok
<1>14. TypeOK'
  BY <1>12, <1>13 DEF TypeOK, Codes
<1>15. RepliesShowTheResource'
  <2>1. PICK shown : shown = Shown(row')
    OBVIOUS
  <2>2. shown = [shown EXCEPT !.details = shown.details]
    BY <2>1, ShownDetails
  <2>3. Shown(row)' = shown
    BY <2>1 DEF Shown, Built
  <2>4. reply'.resource = [shown EXCEPT !.details = reply'.resource.details]
    BY <1>13, <2>1, <2>2
  <2>5. SameDetails(reply'.resource.details, shown.details)
    BY <1>13, <2>1 DEF SameDetails
  <2>6. QED BY <1>13, <2>3, <2>4, <2>5 DEF RepliesShowTheResource
<1>16. QED
  BY <1>11, <1>14, <1>15 DEF IInv

\* An update that is refused leaves row and told as they were.
LEMMA RefusedInv ==
  ASSUME IInv, NEW code \in Codes \ {"OK"}, reply' = Refused(code), UNCHANGED <<row, told>>
  PROVE  IInv'
<1>1. reply'.code = code
  BY DEF Refused
<1>2. QED
  BY <1>1 DEF IInv, TypeOK, MadeOfWords, RepliesShowTheResource

\* Every update is refused or succeeds.
LEMMA UpdateInv == ASSUME IInv, UpdateResource PROVE IInv'
<1>1. PICK in \in UpdateRequests :
         \/ reply' = Refused("InvalidArgument") /\ UNCHANGED <<row, told>>
         \/ reply' = Refused("Internal") /\ UNCHANGED <<row, told>>
         \/ reply' = Refused(CodeFor("update", Error(in))) /\ UNCHANGED <<row, told>>
         \/ /\ in.id # "" /\ ~Panics(in) /\ Error(in) = "none"
            /\ row' = Updated(in)
            /\ reply' = Ok(Shown(row'))
            /\ told' = ToldAfter(in)
  BY DEF UpdateResource, RolledBack, ToldAfter
<1>2. {"InvalidArgument", "Internal", CodeFor("update", Error(in))} \subseteq Codes \ {"OK"}
  BY RefusalsAreCodes DEF Codes
<1>3. QED
  BY <1>1, <1>2, RefusedInv, SuccessInv

\* Before the first request there is nothing to show.
LEMMA InitInv == Init => IInv
BY DEF Init, IInv, TypeOK, NoRow, Nothing, RepliesShowTheResource

\* The invariant is inductive.
LEMMA Inductive == IInv /\ [Next]_vars => IInv'
<1>1. ASSUME IInv, UNCHANGED vars PROVE IInv'
  BY <1>1 DEF vars, IInv, TypeOK, MadeOfWords, RepliesShowTheResource
<1>2. QED
  BY <1>1, CreateInv, UpdateInv DEF Next

\* The invariant holds in every state that is reached.
THEOREM Invariance == Spec => []IInv
<1>1. QED
  BY InitInv, Inductive, PTL DEF Spec

\* The row is one of Rows, and a reply has a code.
THEOREM TypeCorrectness == Spec => []TypeOK
<1>1. IInv => TypeOK
  BY DEF IInv
<1>2. QED
  BY <1>1, Invariance, PTL

\* No conversion, column or NULL between the request of a client and the
\* reply to another loses or mixes a value, or shortens one by more than the
\* spaces past the width of its column, and fields that a mask does not name
\* stay as they were.
THEOREM WritesReadBack == Spec => []ReadsBackWhatWasWritten
<1>1. IInv => ReadsBackWhatWasWritten
  <2>1. ~row.there => ReadsBackWhatWasWritten
    BY DEF ReadsBackWhatWasWritten
  <2>2. QED BY <2>1, WordsReadBack DEF IInv
<1>2. QED
  BY <1>1, Invariance, PTL

\* The reply of CreateResource, of which the details are those of the request,
\* shows what a later read does but for spaces at the end of the texts in
\* them, and that of UpdateResource, which is read, exactly that.
THEOREM RepliesAreReads == Spec => []RepliesShowTheResource
<1>1. IInv => RepliesShowTheResource
  BY DEF IInv
<1>2. QED
  BY <1>1, Invariance, PTL

\* A create or an update that is not answered OK has changed nothing.
THEOREM RefusalsAreWithoutEffect == Spec => RefusalsChangeNothing
<1> DEFINE A == reply'.code # "OK" => row' = row
<1>1. CreateResource => A
  BY DEF CreateResource, Ok
<1>2. UpdateResource => A
  <2>1. Ok(Shown(row')).code = "OK"
    BY DEF Ok
  <2>2. UpdateResource => UNCHANGED row \/ reply' = Ok(Shown(row'))
    BY DEF UpdateResource, RolledBack
  <2>3. QED BY <2>1, <2>2
<1>3. [Next]_vars => [A]_vars
  BY <1>1, <1>2 DEF Next
<1>4. QED
  BY <1>3, PTL DEF Spec, RefusalsChangeNothing
=============================================================================
