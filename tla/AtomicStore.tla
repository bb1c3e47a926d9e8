---------------------------- MODULE AtomicStore ----------------------------
(***************************************************************************)
(* What the repository promises: a store of whole resources, on which the  *)
(* request of a call takes effect in one step, completely, at most once,   *)
(* or not at all. ResourceStore, with its tables, transactions and locks,  *)
(* is shown to implement it. (A statement that database/sql sends again    *)
(* after an error of the connection counts as a request that is made       *)
(* twice.)                                                                 *)
(***************************************************************************)
EXTENDS Domain

CONSTANTS
    Ids,       \* the resources
    Calls,     \* those who ask
    Columns,   \* the columns common to all resources
    Requests,  \* what may be asked
    NoJob      \* nothing asked, which is no request

VARIABLES
    store,   \* store[id]: the resource, with its details
    job      \* job[c]: the request of call c that has not taken effect

vars == <<store, job>>

\* A resource that is not there; why says whether it may still be created.
Absent(why) == [life |-> why, type |-> "none", cols |-> <<>>, details |-> <<>>]

Live(id) == store[id].life = "live"

\* The values in cols of the columns that request r names, old elsewhere.
Overwrite(cols, r) ==
    [k \in DOMAIN cols |-> IF k \in r.mask THEN r.val ELSE cols[k]]

Created(r) ==
    [life |-> "live", type |-> r.type,
     cols |-> [k \in Columns |-> r.val],
     details |-> [val |-> r.val, serial |-> r.serial]]

\* details of a type the resource does not have are never written.
Updated(res, r) ==
    [res EXCEPT !.cols = Overwrite(res.cols, r),
                !.details = IF r.kind = "none" THEN @
                            ELSE [val |-> r.val, serial |-> r.serial]]

Init ==
    /\ DOMAIN store = Ids
    /\ \A id \in Ids : store[id].life \in {"unborn", "live"}
    /\ job = [c \in Calls |-> NoJob]

Ask(c) ==
    /\ job[c] = NoJob
    /\ \E r \in Requests : job' = [job EXCEPT ![c] = r]
    /\ UNCHANGED store

\* Requests are refused or lost without a trace, a crash loses many at once.
Drop ==
    /\ \E C \in SUBSET Calls :
          job' = [c \in Calls |-> IF c \in C THEN NoJob ELSE job[c]]
    /\ UNCHANGED store

\* The request of c takes effect.
Apply(c) ==
    LET r == job[c] IN
    /\ r # NoJob
    /\ job' = [job EXCEPT ![c] = NoJob]
    /\ \/ /\ r.op = "create"
          /\ \E id \in Ids : /\ store[id].life = "unborn"
                             /\ store' = [store EXCEPT ![id] = Created(r)]
       \/ /\ r.op = "update"
          /\ Live(r.id)
          /\ r.kind \in {"none", store[r.id].type}
          /\ store' = [store EXCEPT ![r.id] = Updated(@, r)]
       \/ /\ r.op = "change"
          /\ Live(r.id)
          /\ store' = [store EXCEPT ![r.id].cols = Overwrite(@, r)]
       \/ /\ r.op = "delete"
          /\ Live(r.id)
          /\ store' = [store EXCEPT ![r.id] = Absent("gone")]

Next == Drop \/ \E c \in Calls : Ask(c) \/ Apply(c)

Spec == Init /\ [][Next]_vars
=============================================================================
