----------------------------- MODULE MCListing -----------------------------
(***************************************************************************)
(* Instances of Listing for TLC.                                           *)
(***************************************************************************)
EXTENDS Listing

CONSTANTS NoId, Other

Request(op, type, mask, val, id) ==
    [op |-> op, type |-> type, kind |-> "none", mask |-> mask, serial |-> "", val |-> val, id |-> id]

\* New resources are available, in the place that lists ask for; the others
\* change their place or their status, touch nothing, or delete.
MCRequests ==
    {Request("create", t, Columns, Wanted, NoId) : t \in {"device", "workspace"}}
    \cup {Request("update", "none", {"location"}, Other, id) : id \in Ids}
    \cup {Request("update", "none", {}, Other, id) : id \in Ids}
    \cup {Request("change", "none", {"status"}, Other, id) : id \in Ids}
    \cup {Request("delete", "none", {}, Other, id) : id \in Ids}

\* Those that are stamped in different ways, for the order of the stamps.
MCStamped ==
    {r \in MCRequests : r.op = "update" \/ (r.op = "create" /\ r.type = "device")}

\* No definition distinguishes two resources, or two calls.
Symmetry == Permutations(Ids) \cup Permutations(Calls)
=============================================================================
