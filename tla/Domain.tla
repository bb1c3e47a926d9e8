------------------------------- MODULE Domain -------------------------------
(***************************************************************************)
(* The vocabulary that the layers of the resource service share: the       *)
(* statuses of a resource, their protobuf counterparts, and the gRPC code  *)
(* each handler answers for each error of the service.                     *)
(***************************************************************************)

\* The statuses of models.ResourceStatus; the enum resource_status of the
\* database has the same four members.
Statuses == {"available", "occupied", "maintenance", "emergency"}

\* The statuses under which booking may not touch a resource
\* (the rejection in Service.UpdateResourceOccupancy).
Hold == {"maintenance", "emergency"}

\* resourcev1.ResourceStatus is an open protobuf3 enum: a request may carry
\* a number without a name, which UNKNOWN stands for.
ProtoStatuses ==
    {"UNSPECIFIED", "AVAILABLE", "OCCUPIED", "MAINTENANCE", "EMERGENCY",
     "UNKNOWN"}

ServiceStatusToProto(s) ==
    CASE s = "available"   -> "AVAILABLE"
      [] s = "occupied"    -> "OCCUPIED"
      [] s = "maintenance" -> "MAINTENANCE"
      [] s = "emergency"   -> "EMERGENCY"
      [] OTHER             -> "UNSPECIFIED"

\* "" is the zero value of models.ResourceStatus.
ProtoStatusToService(p) ==
    CASE p = "AVAILABLE"   -> "available"
      [] p = "OCCUPIED"    -> "occupied"
      [] p = "MAINTENANCE" -> "maintenance"
      [] p = "EMERGENCY"   -> "emergency"
      [] OTHER             -> ""

\* The types of models.ResourceType. Each has a table of details of its own.
ResourceTypes == {"meeting_room", "workspace", "device"}

\* resourcev1.ResourceType is open in the same way.
ProtoTypes == {"UNSPECIFIED", "MEETING_ROOM", "WORKSPACE", "DEVICE", "UNKNOWN"}

ServiceTypeToProto(t) ==
    CASE t = "meeting_room" -> "MEETING_ROOM"
      [] t = "workspace"    -> "WORKSPACE"
      [] t = "device"       -> "DEVICE"
      [] OTHER              -> "UNSPECIFIED"

\* "" stands for the error "invalid resource type".
ProtoTypeToService(p) ==
    CASE p = "MEETING_ROOM" -> "meeting_room"
      [] p = "WORKSPACE"    -> "workspace"
      [] p = "DEVICE"       -> "device"
      [] OTHER              -> ""

-----------------------------------------------------------------------------

\* The errors that a handler tells apart; "error" is every other one.
Errors == {"ErrNotFound", "ErrInvalidStatus", "ErrInvalidType", "error"}

Codes == {"OK", "InvalidArgument", "NotFound", "FailedPrecondition", "Internal"}

\* What the booking API answers for an error of UpdateResourceOccupancy.
OccupancyCode(err) ==
    CASE err = "ErrNotFound"      -> "NotFound"
      [] err = "ErrInvalidStatus" -> "FailedPrecondition"
      [] OTHER                    -> "Internal"

\* The code that the handler of operation op answers for err: those of the
\* public API but for "occupy" (for "read" both APIs answer alike). Every error
\* of CreateResource is InvalidArgument, whatever its cause.
CodeFor(op, err) ==
    CASE op = "create"                                          -> "InvalidArgument"
      [] op = "occupy"                                          -> OccupancyCode(err)
      [] op \notin {"create", "occupy"} /\ err = "ErrNotFound"  -> "NotFound"
      [] op = "change" /\ err = "ErrInvalidStatus"              -> "FailedPrecondition"
      [] op = "update" /\ err = "ErrInvalidType"                -> "InvalidArgument"
      [] OTHER                                                  -> "Internal"
=============================================================================
