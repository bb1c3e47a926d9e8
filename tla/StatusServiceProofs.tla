------------------------ MODULE StatusServiceProofs ------------------------
(***************************************************************************)
(* The invariants of StatusService hold for any number of resources, calls *)
(* in flight and stray statements.                                         *)
(*                                                                         *)
(* CallInv is the strengthening that makes them inductive: where a call    *)
(* stands tells what its request is, that its row has been born and is     *)
(* among the values the call has witnessed, and whether it has written.    *)
(***************************************************************************)
EXTENDS StatusService, TLAPS

AtPc(c) ==
    /\ pc[c] = "select" => req[c].op = "occupy" /\ req[c].want \in Statuses
    /\ pc[c] = "update" => req[c].op \in {"change", "occupy"} /\ req[c].want \in Statuses
    /\ pc[c] = "reload" => req[c].op \in {"change", "occupy"} /\ wrote[c]
    /\ pc[c] = "read"   => req[c].op = "read"
    /\ pc[c] = "delete" => req[c].op = "delete"
    /\ pc[c] = "insert" => req[c].op = "create" /\ req[c].want = "available"
    /\ pc[c] \notin {"reload", "done"} => ~wrote[c]

RowSeen(c) ==
    pc[c] \in Running =>
       req[c].id \in Ids /\ row[req[c].id] \in held[c] \ {"unborn"}

Unspoiled(c) ==
    pc[c] = "update" /\ req[c].op = "occupy" /\ calm[c] =>
       row[req[c].id] \in {"available", "occupied"} \ {req[c].want}

Answered(c) ==
    pc[c] = "done" =>
       /\ reply[c].code = "OK" /\ req[c].op \in {"change", "create", "delete"} => wrote[c]
       /\ reply[c].code = "OK" /\ req[c].op = "occupy" => wrote[c] \/ req[c].want \in held[c]
       /\ reply[c].code = "OK" /\ req[c].op \in {"change", "occupy", "read", "create"} =>
             \E s \in held[c] \cap Statuses : reply[c].status = ServiceStatusToProto(s)
       /\ reply[c].code = "FailedPrecondition" => ~wrote[c]
       /\ reply[c].code = "FailedPrecondition" /\ req[c].op = "occupy" => held[c] \cap Hold # {}
       /\ reply[c].code = "InvalidArgument" /\ req[c].op # "create" => ~wrote[c]
       /\ reply[c].code = "NotFound" => req[c].id \in Ids /\ row[req[c].id] = "gone"

CallInv(c) == AtPc(c) /\ RowSeen(c) /\ Unspoiled(c) /\ Answered(c)

IInv == TypeOK /\ \A c \in Calls : CallInv(c)

-----------------------------------------------------------------------------
(* Lemmas about the vocabulary and the building blocks.                    *)

\* The answers of the conversions and of the handlers stay in their types.
LEMMA VocabularyType ==
    /\ \A s \in Statuses : ServiceStatusToProto(s) \in ProtoStatuses
    /\ \A op, err : CodeFor(op, err) \in Codes \ {"OK"}
    /\ \A op, err : op # "create" /\ op # "update" => CodeFor(op, err) # "InvalidArgument"
    /\ \A op, err : err # "ErrInvalidStatus" => CodeFor(op, err) # "FailedPrecondition"
    /\ \A op, err : err # "ErrNotFound" => CodeFor(op, err) # "NotFound"
<1>1. ASSUME NEW s \in Statuses PROVE ServiceStatusToProto(s) \in ProtoStatuses
  BY Zenon DEF Statuses, ServiceStatusToProto, ProtoStatuses
<1>2. ASSUME NEW err
      PROVE  /\ OccupancyCode(err) \in Codes \ {"OK", "InvalidArgument"}
             /\ err # "ErrInvalidStatus" => OccupancyCode(err) # "FailedPrecondition"
             /\ err # "ErrNotFound" => OccupancyCode(err) # "NotFound"
  BY Zenon DEF OccupancyCode, Codes
<1>3. ASSUME NEW op, NEW err
      PROVE  /\ CodeFor(op, err) \in Codes \ {"OK"}
             /\ op # "create" /\ op # "update" => CodeFor(op, err) # "InvalidArgument"
             /\ err # "ErrInvalidStatus" => CodeFor(op, err) # "FailedPrecondition"
             /\ err # "ErrNotFound" => CodeFor(op, err) # "NotFound"
  <2>1. CASE op = "occupy"
    BY <1>2, <2>1, Zenon DEF CodeFor
  <2>2. CASE op # "occupy"
    BY <2>2, Zenon DEF CodeFor, Codes
  <2> QED
    BY <2>1, <2>2
<1> QED
  BY <1>1, <1>3

\* What a write by somebody else, or no write at all, leaves of the
\* invariant of a call that does not move.
LEMMA Bystander ==
    ASSUME TypeOK, NEW d \in Calls, CallInv(d),
           pc'[d] = pc[d], req'[d] = req[d], reply'[d] = reply[d], wrote'[d] = wrote[d],
           \/ row' = row /\ held'[d] = held[d] /\ calm'[d] = calm[d]
           \/ \E id \in Ids, v \in Statuses \cup {"gone"} :
                 /\ row[id] # "gone"
                 /\ row' = [row EXCEPT ![id] = v]
                 /\ held'[d] = Witness(id, v)[d]
                 /\ calm'[d] = Disturb(id)[d]
    PROVE  CallInv(d)'
<1>1. CASE row' = row /\ held'[d] = held[d] /\ calm'[d] = calm[d]
  BY <1>1 DEF CallInv, AtPc, RowSeen, Unspoiled, Answered
<1>2. ASSUME NEW id \in Ids, NEW v \in Statuses \cup {"gone"},
             row[id] # "gone",
             row' = [row EXCEPT ![id] = v],
             held'[d] = Witness(id, v)[d],
             calm'[d] = Disturb(id)[d]
      PROVE  CallInv(d)'
  <2>1. held'[d] = IF pc[d] \in Running /\ req[d].id = id
                   THEN held[d] \cup {v} ELSE held[d]
    BY <1>2 DEF Witness
  <2>2. calm'[d] = (calm[d] /\ req[d].id # id)
    BY <1>2 DEF Disturb
  <2>3. AtPc(d)'
    BY DEF CallInv, AtPc
  <2>4. RowSeen(d)'
    BY <1>2, <2>1 DEF CallInv, RowSeen, TypeOK, Statuses
  <2>5. Unspoiled(d)'
    BY <1>2, <2>2 DEF CallInv, Unspoiled, RowSeen, TypeOK, Running
  <2>6. Answered(d)'
    BY <1>2, <2>1 DEF CallInv, Answered, TypeOK, Running
  <2> QED
    BY <2>3, <2>4, <2>5, <2>6 DEF CallInv
<1> QED
  BY <1>1, <1>2

\* A write of c leaves the invariant of every other call.
LEMMA LandBystander ==
    ASSUME IInv, NEW c \in Calls, NEW id \in Ids, NEW v \in Statuses \cup {"gone"},
           row[id] # "gone", Land(c, id, v),
           NEW d \in Calls, d # c,
           pc'[d] = pc[d], req'[d] = req[d], reply'[d] = reply[d]
    PROVE  CallInv(d)'
<1>1. held'[d] = Witness(id, v)[d] /\ calm'[d] = Disturb(id)[d] /\ wrote'[d] = wrote[d]
  BY DEF Land, IInv, TypeOK, Witness
<1> QED
  BY <1>1, Bystander DEF Land, IInv

\* A call that only moves its own registers leaves every other call alone.
LEMMA LocalBystander ==
    ASSUME IInv, NEW d \in Calls,
           pc'[d] = pc[d], req'[d] = req[d], reply'[d] = reply[d], wrote'[d] = wrote[d],
           row' = row, held'[d] = held[d], calm'[d] = calm[d]
    PROVE  CallInv(d)'
BY Bystander DEF IInv

\* What other calls see of a write is well typed.
LEMMA WitnessType ==
    ASSUME TypeOK, NEW id \in Ids, NEW v \in Statuses \cup {"gone"}
    PROVE  /\ Witness(id, v) \in [Calls -> SUBSET RowStates]
           /\ Disturb(id) \in [Calls -> BOOLEAN]
BY DEF TypeOK, Witness, Disturb, RowStates

\* A write keeps the variables it touches in their types.
LEMMA LandType ==
    ASSUME TypeOK, NEW c \in Calls, NEW id \in Ids, NEW v \in Statuses \cup {"gone"},
           Land(c, id, v)
    PROVE  /\ row'   \in [Ids -> RowStates]
           /\ stray' = stray
           /\ held'  \in [Calls -> SUBSET RowStates] /\ held'[c] = {v}
           /\ wrote' \in [Calls -> BOOLEAN] /\ wrote'[c] = TRUE
           /\ calm'  \in [Calls -> BOOLEAN]
BY WitnessType DEF TypeOK, Land, RowStates

\* A reply keeps the variables it touches in their types.
LEMMA AnswerType ==
    ASSUME TypeOK, NEW c \in Calls, NEW code \in Codes,
           NEW status \in ProtoStatuses \cup {"none"}, Answer(c, code, status)
    PROVE  /\ pc' \in [Calls -> PCs] /\ pc'[c] = "done"
           /\ \A d \in Calls \ {c} : pc'[d] = pc[d] /\ reply'[d] = reply[d]
           /\ reply' \in [Calls -> [code : Codes \cup {"none"},
                                    status : ProtoStatuses \cup {"none"}]]
           /\ reply'[c].code = code /\ reply'[c].status = status
BY DEF TypeOK, Answer, Goto, PCs

\* An error changes nothing but the program counter and the reply, and the
\* reply is not OK.
LEMMA FailType ==
    ASSUME TypeOK, NEW c \in Calls, NEW err, Fail(c, err)
    PROVE  /\ pc' \in [Calls -> PCs] /\ pc'[c] = "done"
           /\ \A d \in Calls \ {c} : pc'[d] = pc[d] /\ reply'[d] = reply[d]
           /\ reply' \in [Calls -> [code : Codes \cup {"none"},
                                    status : ProtoStatuses \cup {"none"}]]
           /\ reply'[c].code = CodeFor(req[c].op, err)
           /\ reply'[c].code # "OK"
<1>1. CodeFor(req[c].op, err) \in Codes \ {"OK"}
  BY VocabularyType
<1> QED
  BY <1>1, AnswerType DEF Fail, Codes

-----------------------------------------------------------------------------
(* One lemma per action.                                                   *)

\* A call that reaches the repository has a witness of its row, and wrote nothing.
LEMMA BeginInv ==
    ASSUME IInv, NEW c \in Calls, NEW op \in Ops, NEW id \in Ids,
           NEW want \in Statuses \cup {"none"}, NEW label \in Running \ {"reload"},
           pc[c] = "idle", Begin(c, op, id, want, label),
           label = "select" => op = "occupy" /\ want \in Statuses,
           label = "update" => op = "change" /\ want \in Statuses,
           label = "read" => op = "read",
           label = "delete" => op = "delete"
    PROVE  IInv'
<1>1. TypeOK'
  BY DEF IInv, TypeOK, Begin, Goto, store, PCs, RowStates
<1>2. CallInv(c)'
  <2>1. pc'[c] = label /\ req'[c] = [op |-> op, id |-> id, want |-> want]
        /\ held'[c] = {row[id]} /\ row' = row /\ wrote' = wrote /\ row[id] # "unborn"
    BY DEF IInv, TypeOK, Begin, Goto, store
  <2>2. ~wrote[c]
    BY DEF IInv, CallInv, AtPc
  <2> QED
    BY <2>1, <2>2 DEF CallInv, AtPc, RowSeen, Unspoiled, Answered, Running
<1>3. ASSUME NEW d \in Calls \ {c} PROVE CallInv(d)'
  BY <1>3, LocalBystander DEF Begin, Goto, store, IInv, TypeOK
<1> QED
  BY <1>1, <1>2, <1>3 DEF IInv

\* A call refused at once names no resource and wrote nothing.
LEMMA RefuseInv ==
    ASSUME IInv, NEW c \in Calls, NEW op \in Ops,
           NEW code \in {"InvalidArgument", "FailedPrecondition"},
           code = "FailedPrecondition" => op # "occupy",
           pc[c] = "idle", Refuse(c, op, code)
    PROVE  IInv'
<1>1. code \in Codes
  BY DEF Codes
<1>2. req' = [req EXCEPT ![c] = [op |-> op, id |-> NoId, want |-> "none"]]
  BY DEF Refuse
<1>3. TypeOK'
  BY <1>1, <1>2, AnswerType DEF IInv, TypeOK, Refuse, store, ghost
<1>4. CallInv(c)'
  <2>1. pc'[c] = "done" /\ reply'[c].code = code /\ wrote' = wrote
    BY <1>1, AnswerType DEF IInv, Refuse, ghost
  <2>2. ~wrote[c] /\ req'[c].op = op
    BY <1>2 DEF IInv, TypeOK, CallInv, AtPc
  <2> QED
    BY <2>1, <2>2 DEF CallInv, AtPc, RowSeen, Unspoiled, Answered, Running
<1>5. ASSUME NEW d \in Calls \ {c} PROVE CallInv(d)'
  <2>1. pc'[d] = pc[d] /\ reply'[d] = reply[d]
    BY <1>1, AnswerType DEF IInv, Refuse
  <2> QED
    BY <1>2, <2>1, LocalBystander DEF Refuse, store, ghost, IInv, TypeOK
<1> QED
  BY <1>3, <1>4, <1>5 DEF IInv

\* A call of which nothing but the reply changes.
LEMMA FailInv ==
    ASSUME IInv, NEW c \in Calls, NEW err, Fail(c, err),
           UNCHANGED <<req, store, held, wrote, calm>>,
           err = "ErrInvalidStatus" =>
              ~wrote[c] /\ (req[c].op = "occupy" => held[c] \cap Hold # {}),
           err = "ErrNotFound" => req[c].id \in Ids /\ row[req[c].id] = "gone"
    PROVE  IInv'
<1>1. TypeOK'
  BY FailType DEF IInv, TypeOK, store
<1>2. CallInv(c)'
  <2>1. pc'[c] = "done" /\ reply'[c].code = CodeFor(req[c].op, err) /\ reply'[c].code # "OK"
    BY FailType DEF IInv
  <2>2. req' = req /\ row' = row /\ held' = held /\ wrote' = wrote
    BY DEF store
  <2>3. req[c].op # "create" => reply'[c].code # "InvalidArgument"
    BY <2>1, VocabularyType DEF IInv, TypeOK, Ops
  <2>4. /\ reply'[c].code = "FailedPrecondition" => err = "ErrInvalidStatus"
        /\ reply'[c].code = "NotFound" => err = "ErrNotFound"
    BY <2>1, VocabularyType
  <2>5. Answered(c)'
    BY <2>1, <2>2, <2>3, <2>4 DEF Answered
  <2> QED
    BY <2>1, <2>5 DEF CallInv, AtPc, RowSeen, Unspoiled, Running
<1>3. ASSUME NEW d \in Calls \ {c} PROVE CallInv(d)'
  BY <1>3, FailType, LocalBystander DEF IInv, store
<1> QED
  BY <1>1, <1>2, <1>3 DEF IInv

\* The SELECT of UpdateResourceOccupancy and the four decisions it leads to.
LEMMA SelectForOccupancyInv ==
    ASSUME IInv, NEW c \in Calls, SelectForOccupancy(c) PROVE IInv'
<1> USE DEF SelectForOccupancy
<1> DEFINE status == row[req[c].id]
<1>1. /\ pc[c] = "select" /\ req[c].op = "occupy" /\ req[c].want \in Statuses
      /\ req[c].id \in Ids /\ status \in held[c] \ {"unborn"} /\ ~wrote[c]
  BY DEF Decide, IInv, CallInv, AtPc, RowSeen, Running
<1>2. CASE Fail(c, "ErrNotFound") /\ status \notin Statuses /\ UNCHANGED calm
  BY <1>1, <1>2, FailInv DEF Decide, IInv, TypeOK, RowStates
<1>3. CASE Fail(c, "ErrInvalidStatus") /\ status \in Hold /\ UNCHANGED calm
  BY <1>1, <1>3, FailInv DEF Decide
<1>4. CASE /\ status \in {req[c].want} \ Hold
           /\ Answer(c, "OK", ServiceStatusToProto(req[c].want))
           /\ UNCHANGED calm
  <2>1. ServiceStatusToProto(req[c].want) \in ProtoStatuses
    BY <1>1, VocabularyType
  <2>2. TypeOK'
    BY <1>4, <2>1, AnswerType DEF Decide, IInv, TypeOK, store, Codes
  <2>3. /\ pc'[c] = "done" /\ reply'[c].code = "OK"
        /\ reply'[c].status = ServiceStatusToProto(req[c].want)
    BY <1>4, <2>1, AnswerType DEF IInv, Codes
  <2>4. req' = req /\ held' = held /\ wrote' = wrote /\ row' = row
    BY DEF Decide, store
  <2>5. Answered(c)'
    BY <1>1, <1>4, <2>3, <2>4 DEF Answered
  <2>6. CallInv(c)'
    BY <2>3, <2>5 DEF CallInv, AtPc, RowSeen, Unspoiled, Running
  <2>7. ASSUME NEW d \in Calls \ {c} PROVE CallInv(d)'
    BY <1>4, <2>1, <2>4, <2>7, AnswerType, LocalBystander DEF IInv, Codes
  <2> QED
    BY <2>2, <2>6, <2>7 DEF IInv
<1>5. CASE /\ status \in Statuses \ (Hold \cup {req[c].want})
           /\ Goto(c, "update")
           /\ calm' = [calm EXCEPT ![c] = TRUE]
           /\ UNCHANGED reply
  <2>1. TypeOK'
    BY <1>5 DEF Decide, IInv, TypeOK, store, Goto, PCs, Running
  <2>2. /\ pc'[c] = "update" /\ req' = req /\ held' = held /\ wrote' = wrote /\ row' = row
    BY <1>5 DEF Decide, store, Goto, IInv, TypeOK
  <2>3. CallInv(c)'
    BY <1>1, <1>5, <2>2 DEF CallInv, AtPc, RowSeen, Unspoiled, Answered, Running, Hold, Statuses
  <2>4. ASSUME NEW d \in Calls \ {c} PROVE CallInv(d)'
    BY <1>5, <2>2, <2>4, LocalBystander DEF Goto, IInv, TypeOK
  <2> QED
    BY <2>1, <2>3, <2>4 DEF IInv
<1> QED
  BY <1>2, <1>3, <1>4, <1>5 DEF Decide

\* The UPDATE of ChangeResourceStatus finds the row or does not.
LEMMA UpdateStatusInv ==
    ASSUME IInv, NEW c \in Calls, UpdateStatus(c) PROVE IInv'
<1> DEFINE id == req[c].id
<1>1. /\ pc[c] = "update" /\ req[c].op \in {"change", "occupy"} /\ req[c].want \in Statuses
      /\ id \in Ids /\ row[id] \in held[c] \ {"unborn"}
  BY DEF UpdateStatus, IInv, CallInv, AtPc, RowSeen, Running
<1>2. CASE Exists(id) /\ Land(c, id, req[c].want) /\ Goto(c, "reload") /\ UNCHANGED <<req, reply>>
  <2>1. row[id] # "gone"
    BY <1>2 DEF Exists, Statuses
  <2>2. TypeOK'
    BY <1>1, <1>2, LandType DEF IInv, TypeOK, Goto, PCs, Running
  <2>3. pc'[c] = "reload" /\ req' = req
    BY <1>2 DEF IInv, TypeOK, Goto
  <2>4. wrote'[c] = TRUE /\ held'[c] = {req[c].want} /\ row'[id] = req[c].want
    <3>1. wrote'[c] = TRUE /\ held'[c] = {req[c].want}
      BY <1>1, <1>2, LandType DEF IInv
    <3>2. row'[id] = req[c].want
      BY <1>1, <1>2 DEF Land, IInv, TypeOK
    <3> QED
      BY <3>1, <3>2
  <2>5. CallInv(c)'
    BY <1>1, <2>3, <2>4 DEF CallInv, AtPc, RowSeen, Unspoiled, Answered, Running, Statuses
  <2>6. ASSUME NEW d \in Calls \ {c} PROVE CallInv(d)'
    BY <1>1, <1>2, <2>1, <2>6, LandBystander DEF Goto, IInv, TypeOK
  <2> QED
    BY <2>2, <2>5, <2>6 DEF IInv
<1>3. CASE ~Exists(id) /\ Fail(c, "ErrNotFound") /\ UNCHANGED <<req, store, ghost>>
  BY <1>1, <1>3, FailInv DEF Exists, ghost, IInv, TypeOK, RowStates
<1> QED
  BY <1>2, <1>3 DEF UpdateStatus

\* The SELECT of GetResource reports a status that the call has witnessed.
LEMMA SelectAndAnswerInv ==
    ASSUME IInv, NEW c \in Calls, SelectAndAnswer(c) PROVE IInv'
<1> DEFINE id == req[c].id
<1>1. /\ pc[c] \in {"read", "reload"} /\ req[c].op \in {"change", "occupy", "read"}
      /\ req[c].op \in {"change", "occupy"} => wrote[c]
      /\ id \in Ids /\ row[id] \in held[c] \ {"unborn"}
  BY DEF SelectAndAnswer, IInv, CallInv, AtPc, RowSeen, Running
<1>2. CASE Exists(id) /\ Answer(c, "OK", ServiceStatusToProto(row[id]))
  <2>1. row[id] \in Statuses /\ ServiceStatusToProto(row[id]) \in ProtoStatuses
    BY <1>2, VocabularyType DEF Exists
  <2>2. /\ pc'[c] = "done" /\ reply'[c].code = "OK"
        /\ reply'[c].status = ServiceStatusToProto(row[id])
    BY <1>2, <2>1, AnswerType DEF IInv, Codes
  <2>3. UNCHANGED <<req, row, stray, held, wrote, calm>>
    BY DEF SelectAndAnswer, store, ghost
  <2>4. TypeOK'
    BY <1>2, <2>1, <2>3, AnswerType DEF IInv, TypeOK, Codes
  <2>5. Answered(c)'
    BY <1>1, <2>1, <2>2, <2>3 DEF Answered
  <2>6. CallInv(c)'
    BY <2>2, <2>5 DEF CallInv, AtPc, RowSeen, Unspoiled, Running
  <2>7. ASSUME NEW d \in Calls \ {c} PROVE CallInv(d)'
    BY <1>2, <2>1, <2>3, <2>7, AnswerType, LocalBystander DEF IInv, Codes
  <2> QED
    BY <2>4, <2>6, <2>7 DEF IInv
<1>3. CASE ~Exists(id) /\ Fail(c, "ErrNotFound")
  BY <1>1, <1>3, FailInv DEF SelectAndAnswer, Exists, ghost, IInv, TypeOK, RowStates
<1> QED
  BY <1>2, <1>3 DEF SelectAndAnswer

\* The DELETE finds the row or does not.
LEMMA DeleteRowInv ==
    ASSUME IInv, NEW c \in Calls, DeleteRow(c) PROVE IInv'
<1> DEFINE id == req[c].id
<1>1. /\ pc[c] = "delete" /\ req[c].op = "delete" /\ req' = req
      /\ id \in Ids /\ row[id] \in held[c] \ {"unborn"}
  BY DEF DeleteRow, IInv, CallInv, AtPc, RowSeen, Running
<1>2. CASE Exists(id) /\ Land(c, id, "gone") /\ Answer(c, "OK", "none")
  <2>1. row[id] # "gone"
    BY <1>2 DEF Exists, Statuses
  <2>2. /\ pc'[c] = "done" /\ reply'[c].code = "OK" /\ wrote'[c]
    BY <1>1, <1>2, AnswerType, LandType DEF IInv, Codes
  <2>3. TypeOK'
    BY <1>1, <1>2, LandType, AnswerType DEF IInv, TypeOK, Codes
  <2>4. CallInv(c)'
    BY <1>1, <2>2 DEF CallInv, AtPc, RowSeen, Unspoiled, Answered, Running
  <2>5. ASSUME NEW d \in Calls \ {c} PROVE CallInv(d)'
    BY <1>1, <1>2, <2>1, <2>5, AnswerType, LandBystander DEF IInv, Codes
  <2> QED
    BY <2>3, <2>4, <2>5 DEF IInv
<1>3. CASE ~Exists(id) /\ Fail(c, "ErrNotFound") /\ UNCHANGED <<store, ghost>>
  BY <1>1, <1>3, FailInv DEF Exists, ghost, IInv, TypeOK, RowStates
<1> QED
  BY <1>2, <1>3 DEF DeleteRow

\* The INSERT of CreateResource draws an id that no other call names.
LEMMA InsertRowInv ==
    ASSUME IInv, NEW c \in Calls, InsertRow(c) PROVE IInv'
<1>1. PICK id \in Ids :
         /\ FreshId(id) /\ Land(c, id, req[c].want)
         /\ req' = [req EXCEPT ![c].id = id]
         /\ Answer(c, "OK", ServiceStatusToProto(req[c].want))
  BY DEF InsertRow
<1>2. pc[c] = "insert" /\ req[c].op = "create" /\ req[c].want = "available"
  BY DEF InsertRow, IInv, CallInv, AtPc
<1>3. /\ row[id] # "gone" /\ req[c].want \in Statuses
      /\ ServiceStatusToProto(req[c].want) \in ProtoStatuses
  BY <1>1, <1>2, VocabularyType DEF FreshId, Statuses
<1>4. /\ pc'[c] = "done" /\ reply'[c].code = "OK"
      /\ reply'[c].status = ServiceStatusToProto(req[c].want)
      /\ wrote'[c] = TRUE /\ held'[c] = {req[c].want} /\ req'[c].op = "create"
  <2>1. /\ pc'[c] = "done" /\ reply'[c].code = "OK"
        /\ reply'[c].status = ServiceStatusToProto(req[c].want)
    BY <1>1, <1>3, AnswerType DEF IInv, Codes
  <2>2. wrote'[c] = TRUE /\ held'[c] = {req[c].want}
    BY <1>1, <1>3, LandType DEF IInv
  <2>3. req'[c].op = "create"
    BY <1>1, <1>2 DEF IInv, TypeOK
  <2> QED
    BY <2>1, <2>2, <2>3
<1>5. TypeOK'
  <2>1. /\ row' \in [Ids -> RowStates] /\ stray' = stray
        /\ held' \in [Calls -> SUBSET RowStates]
        /\ wrote' \in [Calls -> BOOLEAN] /\ calm' \in [Calls -> BOOLEAN]
    BY <1>1, <1>3, LandType DEF IInv
  <2>2. /\ pc' \in [Calls -> PCs]
        /\ reply' \in [Calls -> [code : Codes \cup {"none"},
                                 status : ProtoStatuses \cup {"none"}]]
    BY <1>1, <1>3, AnswerType DEF IInv, Codes
  <2>3. req' \in [Calls -> [op   : Ops \cup {"none"},
                           id   : Ids \cup {NoId},
                           want : Statuses \cup {"none"}]]
    <3>1. req[c] \in [op : Ops \cup {"none"}, id : Ids \cup {NoId},
                      want : Statuses \cup {"none"}]
      BY DEF IInv, TypeOK
    <3>2. [req[c] EXCEPT !.id = id] \in [op : Ops \cup {"none"}, id : Ids \cup {NoId},
                                         want : Statuses \cup {"none"}]
      BY <3>1
    <3>3. req' = [req EXCEPT ![c] = [req[c] EXCEPT !.id = id]]
      BY <1>1
    <3> QED
      BY <3>2, <3>3 DEF IInv, TypeOK
  <2> QED
    BY <2>1, <2>2, <2>3 DEF IInv, TypeOK
<1>6. CallInv(c)'
  <2>1. Answered(c)'
    BY <1>3, <1>4 DEF Answered
  <2> QED
    BY <1>4, <2>1 DEF CallInv, AtPc, RowSeen, Unspoiled, Running
<1>7. ASSUME NEW d \in Calls \ {c} PROVE CallInv(d)'
  <2>1. pc'[d] = pc[d] /\ reply'[d] = reply[d] /\ req'[d] = req[d]
    BY <1>1, <1>3, AnswerType DEF IInv, TypeOK, Codes
  <2> QED
    BY <1>1, <1>3, <2>1, LandBystander
<1> QED
  BY <1>5, <1>6, <1>7 DEF IInv

\* Whatever a call is about to write names a resource and a proper value.
LEMMA WritesType ==
    ASSUME IInv, NEW c \in Calls
    PROVE  Writes(c) \subseteq Ids \X (Statuses \cup {"gone"})
<1>1. pc[c] \in {"update", "delete"} => req[c].id \in Ids
  BY DEF IInv, CallInv, RowSeen, Running
<1>2. pc[c] = "update" => req[c].want \in Statuses
  BY DEF IInv, CallInv, AtPc
<1>3. pc[c] = "insert" => req[c].want \in Statuses
  BY DEF IInv, CallInv, AtPc, Statuses
<1>4. CASE pc[c] = "update"
  <2>1. Writes(c) = {<<req[c].id, req[c].want>>}
    BY <1>4, Zenon DEF Writes
  <2> QED
    BY <1>1, <1>2, <1>4, <2>1
<1>5. CASE pc[c] = "delete"
  <2>1. Writes(c) = {<<req[c].id, "gone">>}
    BY <1>5, Zenon DEF Writes
  <2> QED
    BY <1>1, <1>5, <2>1
<1>6. CASE pc[c] = "insert"
  <2>1. Writes(c) = {<<id, req[c].want>> : id \in {i \in Ids : FreshId(i)}}
    BY <1>6, Zenon DEF Writes
  <2> QED
    BY <1>3, <1>6, <2>1
<1>7. CASE pc[c] \notin {"update", "delete", "insert"}
  <2>1. Writes(c) = {}
    BY <1>7, Zenon DEF Writes
  <2> QED
    BY <2>1
<1> QED
  BY <1>4, <1>5, <1>6, <1>7

\* A statement that fails without effect.
LEMMA StatementFailsInv ==
    ASSUME IInv, NEW c \in Calls, StatementFails(c) PROVE IInv'
BY FailInv DEF StatementFails, ghost

\* A statement whose effect is left to the server.
LEMMA ConnectionLostInv ==
    ASSUME IInv, NEW c \in Calls, ConnectionLost(c) PROVE IInv'
<1>1. PICK w \in Writes(c) : stray' = stray \cup {w}
  BY DEF ConnectionLost
<1>2. stray' \in SUBSET (Ids \X (Statuses \cup {"gone"}))
  BY <1>1, WritesType DEF IInv, TypeOK
<1>3. Fail(c, "error") /\ UNCHANGED <<row, req, held, wrote, calm>>
  BY DEF ConnectionLost, ghost
<1>4. TypeOK'
  BY <1>2, <1>3, FailType DEF IInv, TypeOK
<1>5. CallInv(c)'
  <2>1. pc'[c] = "done" /\ reply'[c].code = CodeFor(req[c].op, "error") /\ reply'[c].code # "OK"
    BY <1>3, FailType DEF IInv
  <2>2. /\ req[c].op # "create" => reply'[c].code # "InvalidArgument"
        /\ reply'[c].code # "FailedPrecondition" /\ reply'[c].code # "NotFound"
    BY <2>1, VocabularyType DEF IInv, TypeOK, Ops
  <2> QED
    BY <1>3, <2>1, <2>2 DEF CallInv, AtPc, RowSeen, Unspoiled, Answered, Running
<1>6. ASSUME NEW d \in Calls \ {c} PROVE CallInv(d)'
  BY <1>3, <1>6, FailType, LocalBystander DEF IInv
<1> QED
  BY <1>4, <1>5, <1>6 DEF IInv

\* A statement that is sent again, while the first is on its way.
LEMMA ResendInv ==
    ASSUME IInv, NEW c \in Calls, Resend(c) PROVE IInv'
<1>1. stray' \in SUBSET (Ids \X (Statuses \cup {"gone"}))
  BY WritesType DEF Resend, IInv, TypeOK
<1>2. /\ row' = row /\ pc' = pc /\ req' = req /\ reply' = reply
      /\ held' = held /\ wrote' = wrote /\ calm' = calm
  BY DEF Resend, ghost
<1>3. TypeOK'
  BY <1>1, <1>2 DEF IInv, TypeOK
<1>4. ASSUME NEW d \in Calls PROVE CallInv(d)'
  BY <1>2 DEF IInv, CallInv, AtPc, RowSeen, Unspoiled, Answered
<1> QED
  BY <1>3, <1>4 DEF IInv

\* A stray write is seen by every running call, as any other write.
LEMMA StrayLandsInv ==
    ASSUME IInv, StrayLands PROVE IInv'
<1>1. PICK w \in stray :
         /\ stray' = stray \ {w}
         /\ IF row[w[1]] \in Statuses \cup {"unborn"}
            THEN /\ row'  = [row EXCEPT ![w[1]] = w[2]]
                 /\ held' = Witness(w[1], w[2])
                 /\ calm' = Disturb(w[1])
            ELSE UNCHANGED <<row, held, calm>>
         /\ UNCHANGED <<pc, req, reply, wrote>>
  BY DEF StrayLands
<1>2. w[1] \in Ids /\ w[2] \in Statuses \cup {"gone"}
  BY DEF IInv, TypeOK
<1>3. CASE row[w[1]] \in Statuses \cup {"unborn"}
  <2>1. row[w[1]] # "gone"
    BY <1>3 DEF Statuses
  <2>2. held' \in [Calls -> SUBSET RowStates] /\ calm' \in [Calls -> BOOLEAN]
    BY <1>1, <1>2, <1>3, WitnessType DEF IInv
  <2>3. row' \in [Ids -> RowStates]
    BY <1>1, <1>2, <1>3 DEF IInv, TypeOK, RowStates
  <2>4. TypeOK'
    BY <1>1, <2>2, <2>3 DEF IInv, TypeOK
  <2>5. ASSUME NEW d \in Calls PROVE CallInv(d)'
    BY <1>1, <1>2, <1>3, <2>1, Bystander DEF IInv
  <2> QED
    BY <2>4, <2>5 DEF IInv
<1>4. CASE row[w[1]] \notin Statuses \cup {"unborn"}
  <2>1. TypeOK'
    BY <1>1, <1>4 DEF IInv, TypeOK
  <2> QED
    BY <1>1, <1>4, <2>1, LocalBystander DEF IInv
<1> QED
  BY <1>3, <1>4

\* A call that is forgotten leaves nothing behind.
LEMMA ForgetInv ==
    ASSUME IInv, NEW C \in SUBSET Calls, Forget(C), row' = row,
           stray' \in SUBSET (Ids \X (Statuses \cup {"gone"}))
    PROVE  IInv'
<1>1. TypeOK'
  BY DEF IInv, TypeOK, Forget, PCs, NoReq, NoReply
<1>2. ASSUME NEW d \in C PROVE CallInv(d)'
  <2>1. pc'[d] = "idle" /\ wrote'[d] = FALSE
    BY DEF Forget
  <2> QED
    BY <2>1 DEF CallInv, AtPc, RowSeen, Unspoiled, Answered, Running
<1>3. ASSUME NEW d \in Calls \ C PROVE CallInv(d)'
  BY <1>3, LocalBystander DEF Forget, IInv, TypeOK
<1> QED
  BY <1>1, <1>2, <1>3 DEF IInv

\* A crash forgets every call.
LEMMA CrashInv ==
    ASSUME IInv, Crash PROVE IInv'
<1>1. PICK W \in SUBSET UNION {Writes(c) : c \in Calls} : stray' = stray \cup W
  BY DEF Crash
<1>2. stray' \in SUBSET (Ids \X (Statuses \cup {"gone"}))
  BY <1>1, WritesType DEF IInv, TypeOK
<1> QED
  BY <1>2, ForgetInv DEF Crash

-----------------------------------------------------------------------------

\* The invariant holds at first.
LEMMA InitInv == Init => IInv
BY DEF Init, IInv, TypeOK, CallInv, AtPc, RowSeen, Unspoiled, Answered, Running,
       PCs, NoReq, NoReply

\* Every step preserves the invariant, action by action.
LEMMA StepInv == IInv /\ [Next]_vars => IInv'
<1> SUFFICES ASSUME IInv, [Next]_vars PROVE IInv'
  OBVIOUS
<1> USE DEF Ops, Statuses, Running
<1>1. ASSUME NEW c \in Calls, ChangeResourceStatus(c) PROVE IInv'
  <2>1. PICK id \in Ids \cup {NoId}, p \in ProtoStatuses :
           \/ Refuse(c, "change", "InvalidArgument")
           \/ Refuse(c, "change", CodeFor("change", "ErrInvalidStatus"))
           \/ /\ id # NoId /\ ProtoStatusToService(p) \in Statuses
              /\ Begin(c, "change", id, ProtoStatusToService(p), "update")
    BY <1>1 DEF ChangeResourceStatus
  <2>2. CodeFor("change", "ErrInvalidStatus") = "FailedPrecondition"
    BY Zenon DEF CodeFor
  <2> QED
    BY <1>1, <2>1, <2>2, RefuseInv, BeginInv DEF ChangeResourceStatus
<1>2. ASSUME NEW c \in Calls, UpdateResourceOccupancy(c) PROVE IInv'
  BY <1>2, RefuseInv, BeginInv DEF UpdateResourceOccupancy, NewStatus
<1>3. ASSUME NEW c \in Calls, GetResource(c) PROVE IInv'
  BY <1>3, RefuseInv, BeginInv DEF GetResource
<1>4. ASSUME NEW c \in Calls, DeleteResource(c) PROVE IInv'
  BY <1>4, RefuseInv, BeginInv DEF DeleteResource
<1>5. ASSUME NEW c \in Calls, CreateResource(c) PROVE IInv'
  <2>1. CASE Refuse(c, "create", "InvalidArgument")
    BY <1>5, <2>1, RefuseInv DEF CreateResource
  <2>2. CASE /\ req' = [req EXCEPT ![c] = [op |-> "create", id |-> NoId, want |-> "available"]]
             /\ Goto(c, "insert")
             /\ UNCHANGED <<reply, store, ghost>>
    <3>1. TypeOK'
      BY <2>2 DEF IInv, TypeOK, Goto, store, ghost, PCs
    <3>2. /\ pc'[c] = "insert" /\ req'[c].op = "create" /\ req'[c].want = "available"
          /\ wrote' = wrote
      BY <2>2 DEF IInv, TypeOK, Goto, ghost
    <3>3. ~wrote[c]
      BY <1>5 DEF CreateResource, IInv, CallInv, AtPc
    <3>4. CallInv(c)'
      BY <3>2, <3>3 DEF CallInv, AtPc, RowSeen, Unspoiled, Answered
    <3>5. ASSUME NEW d \in Calls \ {c} PROVE CallInv(d)'
      BY <2>2, <3>5, LocalBystander DEF Goto, store, ghost, IInv, TypeOK
    <3> QED
      BY <3>1, <3>4, <3>5 DEF IInv
  <2> QED
    BY <1>5, <2>1, <2>2 DEF CreateResource
<1>6. ASSUME NEW c \in Calls,
             \/ SelectForOccupancy(c) \/ UpdateStatus(c) \/ SelectAndAnswer(c)
             \/ DeleteRow(c) \/ InsertRow(c)
             \/ StatementFails(c) \/ ConnectionLost(c) \/ Resend(c)
      PROVE IInv'
  BY <1>6, SelectForOccupancyInv, UpdateStatusInv, SelectAndAnswerInv, DeleteRowInv,
     InsertRowInv, StatementFailsInv, ConnectionLostInv, ResendInv
<1>7. ASSUME NEW c \in Calls, Return(c) PROVE IInv'
  BY <1>7, ForgetInv DEF Return, store, IInv, TypeOK
<1>8. CASE StrayLands
  BY <1>8, StrayLandsInv
<1>9. CASE Crash
  BY <1>9, CrashInv
<1>10. CASE UNCHANGED vars
  BY <1>10 DEF vars, IInv, TypeOK, CallInv, AtPc, RowSeen, Unspoiled, Answered
<1> QED
  BY <1>1, <1>2, <1>3, <1>4, <1>5, <1>6, <1>7, <1>8, <1>9, <1>10 DEF Next, Step

\* The strengthened invariant, from which the others follow.
THEOREM InductiveInvariant == Spec => []IInv
BY InitInv, StepInv, PTL DEF Spec

\* Every variable keeps its type: in particular no row ever holds a status
\* that parseResourceStatus does not know.
THEOREM TypeCorrect == Spec => []TypeOK
<1>1. IInv => TypeOK
  BY DEF IInv
<1> QED
  BY <1>1, InductiveInvariant, PTL

\* A call answered OK did what it was asked to do
\* (Service.ChangeResourceStatus, UpdateResourceOccupancy, CreateResource,
\* DeleteResource).
THEOREM SuccessIsReal == Spec => []OkMeansItHappened
<1>1. IInv => OkMeansItHappened
  BY DEF IInv, CallInv, Answered, OkMeansItHappened, Replied
<1> QED
  BY <1>1, InductiveInvariant, PTL

\* A reported status was the row's while the call ran, and never one from
\* before the call's own write (the reload in Repository.ChangeResourceStatus).
THEOREM ReportsAreCurrent == Spec => []ReportedStatusWasCurrent
<1>1. IInv => ReportedStatusWasCurrent
  BY DEF IInv, CallInv, Answered, ReportedStatusWasCurrent, Replied
<1> QED
  BY <1>1, InductiveInvariant, PTL

\* Booking is refused only for a resource that was on hold during the call
\* (the check that Service.UpdateResourceOccupancy makes before its UPDATE).
THEOREM RefusalsAreJustified == Spec => []RefusalWasJustified
<1>1. IInv => RefusalWasJustified
  BY DEF IInv, CallInv, Answered, RefusalWasJustified, Replied
<1> QED
  BY <1>1, InductiveInvariant, PTL

\* A call that a handler refused has written nothing: every error that is
\* answered so comes before the UPDATE or the DELETE.
THEOREM RefusalsLeaveNoTrace == Spec => []RefusedCallsWroteNothing
<1>1. IInv => RefusedCallsWroteNothing
  BY DEF IInv, CallInv, Answered, RefusedCallsWroteNothing, Replied, Ops
<1> QED
  BY <1>1, InductiveInvariant, PTL

\* NotFound is never a passing condition (sql.ErrNoRows and zero affected
\* rows in the repository).
THEOREM NotFoundIsCertain == Spec => []NotFoundIsFinal
<1>1. IInv => NotFoundIsFinal
  BY DEF IInv, CallInv, Answered, NotFoundIsFinal, Replied
<1> QED
  BY <1>1, InductiveInvariant, PTL

\* Without a concurrent write of the same row, UpdateResourceOccupancy only
\* turns a free resource into an occupied one or back.
THEOREM UndisturbedWritesAreLegal == Spec => []UndisturbedWriteIsLegal
<1>1. IInv => UndisturbedWriteIsLegal
  BY DEF IInv, CallInv, Unspoiled, UndisturbedWriteIsLegal
<1> QED
  BY <1>1, InductiveInvariant, PTL
=============================================================================
