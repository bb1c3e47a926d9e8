# Specifications of the Oregon resource service

The service keeps the resources of an office (meeting rooms, workspaces,
devices) in PostgreSQL and offers them through two gRPC APIs: a public one for
administration and one for the booking service. This directory holds TLA+
specifications of it, configurations that check them with TLC, and proofs for
TLAPS. Paths below are relative to `src/`.

    tlc -config MCStatusService.cfg MCStatusService.tla
    tlapm StatusServiceProofs.tla

## 1. The system

| component | source | state | operations |
|---|---|---|---|
| booking API | `internal/grpc/resource/booking` | none | GetResource, CheckResourceStatus, GetAvailableResources, UpdateResourceOccupancy |
| public API | `internal/grpc/resource/public` | none | CreateResource, GetResource, GetResourcesList, GetAvailableResources, UpdateResource (with a field mask), DeleteResource, ChangeResourceStatus |
| converters | `internal/grpc/resource/utils` | none | protobuf enums and details to models and back |
| service | `internal/service/resource` | none; no lock | one method per RPC; UpdateResourceOccupancy decides from the status it reads |
| repository | `internal/repository/postgres` | the pool of connections | CreateResource and UpdateResource in a transaction, the rest in single statements |
| database | `migrations/0001_resources.sql` | `resources` and three tables of details | row locks, the unique index on serial numbers, cascading deletes |
| gRPC servers | `internal/app/grpc` | two listeners, two `grpc.Server`s, an errgroup | Run, Stop, interceptors (recovery, logging, in-flight gauge) |
| metrics server | `internal/app/metrics`, `internal/metrics` | an HTTP server, a gauge | Run, Stop |
| application, main | `internal/app`, `cmd/resource` | goroutines | start, signal, stop, exit code |
| configuration, logging, tracing | `internal/config`, `oregon-infra` | none that changes | read at the start |

How they interact. gRPC runs every RPC in a goroutine of its own, which goes
from the handler through the service into the repository and back; the layers
share nothing but the pool. What two RPCs share is the database, so they
interleave between any two SQL statements, and wait for each other there only.
The repository's errors travel back wrapped and each handler tells apart three
of them (`ErrNotFound`, `ErrInvalidStatus`, `ErrInvalidType`). Beside the RPCs
run the goroutines of the process: main() inside `errgroup.Wait`, two that
serve, one that waits for a signal and then stops everything, one for metrics.

What is hard:

- check then act: UpdateResourceOccupancy reads, decides, and writes by id
  alone (`resource.go:214-240`); nothing holds the row in between;
- every write is followed by a reload in a statement of its own
  (`postgres.go:318`, `:388`), which may see another call's work or no row;
- a statement or a COMMIT may take effect although its caller sees an error,
  even after the caller has been answered; outside a transaction `database/sql`
  may send a statement twice; a session keeps its locks when its client is gone;
- transactions over two tables, with a deferred rollback that depends on a
  named result; row locks, index locks, circles of waiting transactions;
- one resource without details makes every list fail (`postgres.go:420-424`);
  a connection that breaks between two rows looks like the last row;
- stamps are the *start* of a transaction (`now()`), so transactions that wait
  for each other stamp out of order, and lists are ordered by stamps;
- details pass through three representations and two sets of conversions, with
  NULLs and widths that the tables check late in a transaction, or cut a text to;
- four interceptors around every unary handler, two around every stream, whose
  order decides what a panic does to metrics, log and process;
- two servers, a signal and main() stop each other; `main.go:84` races with
  the goroutine of `main.go:72`;
- crashes: `docker-compose.yml` restarts the process over the same database.

What makes each part correct:

- *status RPCs*: a reply says what was true of the row while the call ran; a
  refused call changed nothing; a booking does not touch a resource under
  maintenance or in emergency;
- *repository*: requests take effect whole and, unless sent twice, at most once; every resource
  keeps the details of its type; no transaction, and no lock, is left behind;
  every call ends;
- *contents*: what was written is what everybody reads, field by field;
- *lists*: all that matched at one moment, once each, in the order of creation;
- *interceptors*: every call is counted and every failure logged, panics too;
- *process*: no RPC finds the database closed or is cut off; told to stop, the
  process stops, and its exit code says why.

`PROJECT.json` lists the hazards one by one, at their lines.

## 2. The modules

| module | what it is |
|---|---|
| `Domain` | statuses, types, errors; their conversions; the code per operation and error |
| `StatusService`, `MCStatusService` | RPCs on the status of resources, one SQL statement per step |
| `AtomicStore` | abstract: requests that take effect in one step |
| `ResourceStore`, `MCResourceStore` | the repository's tables, transactions and waits; implements `AtomicStore` |
| `Contents`, `MCContents` | requests, conversions and columns: what a resource contains |
| `Listing`, `MCListing` | lists and time stamps, over `AtomicStore` |
| `Interceptors`, `MCInterceptors` | the chain around every handler |
| `Lifecycle`, `MCLifecycle` | the process from start to end |
| `Process`, `MCProcess` | `Lifecycle` with RPCs that pass through `Interceptors` |
| `StatusServiceProofs`, `ResourceStoreProofs`, `ContentsProofs`, `ListingProofs`, `InterceptorsProofs`, `LifecycleProofs`, `ProcessProofs` | theorems about the properties of the module that each is named after |
| `ResourceStoreRefinement` | the theorem that `ResourceStore` implements `AtomicStore` |

Beside the definitions stand *mutants*, marked as such: the definition that
follows with a plausible bug in it. No specification uses them; substituted
for the original they make the property named in `PROJECT.json` fail.

### StatusService

`row[id]` is the committed status of a resource, `unborn` before its uuid was
drawn, `gone` after its deletion. A call `c` is at the statement `pc[c]`:

| `pc` | statement | action | code |
|---|---|---|---|
| `select` | SELECT of UpdateResourceOccupancy and its decision | `SelectForOccupancy` | `resource.go:208-240` |
| `update` | UPDATE of the status | `UpdateStatus` | `postgres.go:355-386` |
| `reload`, `read` | SELECT of GetResource | `SelectAndAnswer` | `postgres.go:119-191` |
| `delete` | DELETE | `DeleteRow` | `postgres.go:327-353` |
| `insert` | the COMMIT of CreateResource | `InsertRow` | `postgres.go:60-117` |

`ChangeResourceStatus`, `UpdateResourceOccupancy`, `GetResource`,
`DeleteResource` and `CreateResource` are the arrivals of RPCs, with what their
handlers refuse. A protobuf enum is open, so a status may be a number without
a name (`UNKNOWN`). `StatementFails` fails without effect. `ConnectionLost`
fails while the write is on its way: it stays in `stray` until `StrayLands`,
which nobody orders with anything. `Resend` is what `ExecContext` does when it takes
the error of a connection for a stale one (`driver.ErrBadConn`): it sends the
statement again, and the first one is stray. `Crash` forgets all calls and may leave their
writes in `stray`. CreateResource is one step here, since its transaction shows
at its COMMIT only; `ResourceStore` takes it apart.

Three history variables serve the properties: `held[c]` collects what the row
has been since `c` began, or since its own write; `wrote[c]` says that a write
of `c` landed; `calm[c]` that nobody else wrote the row since its SELECT.

### ResourceStore and AtomicStore

`ResourceStore` splits CreateResource and UpdateResource into the statements of
their transactions. A transaction keeps its executed statements in `tx[c]` and
shows them at its COMMIT (`Install`), as READ COMMITTED does. A value is the
mark of the request that wrote it. Calls wait (`WaitsFor`) for

- the row, while another transaction has updated it;
- the unique index on `devices.serial_number`, while an open transaction has
  made or outdated an entry of the same value.

`nullableString` keeps devices without a serial number out of the index. Every
error has its own action, since each is a return of its own in the code:
`BeginFails`, `InsertBaseFails`, `InsertDetailsFails`, `UpdateBaseFails`,
`UpdateDetailsFails` and `CommitFails` of the transactions, where all but the first
end in `Rollback`; `WriteFails` and `ReloadFails` outside them. `CommitUnheard` is a
COMMIT that took place and is reported as failed; `DeadlockDetected` is PostgreSQL's
choice of a victim.

A slot of `Calls` is a call with its session of the database, and the session may
outlive the call. When the connection breaks, or the process dies, `Abandon` leaves
behind what `Remains`: a COMMIT or a statement outside transactions that was sent
(`sent`) waits its turn and lands (`SessionLands`) or never arrives (`Undelivered`);
an open transaction (`left`) keeps its locks until PostgreSQL finds that nobody
is there (`SessionEnds`). `SentBefore` is the first copy of a statement that
`ExecContext` sends again: a session with the same request and no caller, which
lands before the second copy, after it, or not at all.

`validateCreateResourceRequest` only lets details of the resource's own type
pass, so the repository's own check of them never fails and has no disjunct.

`AtomicStore` knows whole resources and requests that are asked, dropped or
applied. `ImplementsAtomicStore` maps each row and its details to a resource,
and a call that has not committed, or a session with something sent in it, to a
request not yet applied. A statement sent twice is a request made twice: *at most
once* is true of what reaches the database, not of what the client asked for.

### Contents

One resource, one call at a time, every create and update request that can be
put together from the bounds. `Valid` and `Acceptable` are the checks of the
handler, `Update` what `buildUpdateResourceRequest` makes of the mask (any path
`details.x` stands for all details; details left out stay), `Panics` its nil
dereference. `Kept[n][v]` is what a `VARCHAR(n)` makes of a text: PostgreSQL refuses
one that is too long, unless all that is beyond the width are spaces, which it
cuts off without an error. `Stored`, `Fits` and `NameFits` are the columns, with their
NULLs and widths, the `SMALLINT` and the CHECK, `Parsed` and `Built` the way back,
`Shown` the reply of a read and `CreateReply` that of CreateResource, which has the
details of the request and not those of the table (`postgres.go:115`).
`Error` follows the order of the statements, since it decides the code. `told`
is what clients were told in so many words: it is kept in the terms of the API
and never converted. For `details.x` it follows the code, so overwritten fields of
the details are recorded and not called a fault; no document says what the path
should do. A COMMIT or a reload that fails is in `ResourceStore`. An update may empty the name that a creation insists on;
no document says whether it should, so this is part of the model and not called
a fault.

### Listing

A reader asks (`List`), one SELECT sees what is committed (`Select`) and its rows
come one by one (`NextRow`) while the writers of `AtomicStore` go on; the
connection may break anywhere (`RowsBreak`). Over the steps of `AtomicStore` lie
the stamps: `Begin` notes `now()`, `Apply`, the COMMIT, shows it. `now()` is the wall
clock of the database server: the model assumes that it is never set back and that
a COMMIT takes at least a tick of it (a microsecond). `seen` keeps the
answers that would have been right since the list arrived; `saw` and `older` what
a client could know when it asked. Filters are in the words of the API (`Asks`)
and, apart from them, in those of the SQL (`Matches`).

### Interceptors

`at[c]` is the interceptor where the goroutine of an RPC is, on its way in while
`outcome[c]` is `none` and on its way out after. `Chain` is the order of
`grpcapp.New`: unary RPCs pass prometheus, in-flight, logging and recovery, streams
only the first two. Each `Enter...` and `Leave...` is what an interceptor does
before and after it calls the next; a panic skips what is not deferred. The only
streams are those of the reflection service.

### Lifecycle and Process

Before it serves, main() reads the configuration, opens the log, builds the
tracer, connects to the database; each may fail, by a panic (code 2), with code 1,
or, the tracer, without consequence until its deferred Shutdown, where it may
panic. Until `NotifyContext`, and after its deferred `stop()`, a signal kills.

`main`, `sig` and `serve[s]` say where the goroutines are, `server[s]` how far
a `grpc.Server` is stopped, `flying[s]` which RPCs it handles. The end of main()
and os.Exit end everything in one step (`exit`). Of gRPC-go (1.81) the model
takes what the code relies on: GracefulStop sends GOAWAY, waits for the RPCs in
flight and lets Serve return nil only then; Serve on a server that was stopped
first returns ErrServerStopped, which Run treats as nil; after a failure of
Accept the connections stay open until Stop. A server being served can be
stopped by the signal, by the other server's failure and by its own at the same
time; the model lets whoever is inside `Stop` make the steps of GracefulStop,
which has no effect the second time. A failure in one server is reported by
Run only after `stopOnce` is over, for the second failing server as well.

`Process` runs `Lifecycle` and `Interceptors` together: an RPC arrives at a server
and enters the chain in one step, is answered and leaves its server in one step,
and a panic that comes out of the chain is `HandlerPanics`. `Interceptors!alive` is
`Lifecycle!Alive`, so nothing moves in an RPC once the process has ended.

## 3. What the runs check

| run | cfg | distinct states | asks |
|---|---|---|---|
| `status` | `MCStatusService.cfg` | 1.0 million | do replies tell the truth? |
| `hold` | `MCHoldRespected.cfg` | counterexample of 6 states | does a booking respect maintenance? *No.* |
| `transactions` | `MCResourceStore.cfg` | 2.1 million | are tables whole, transactions closed, replies true? |
| `refinement` | `MCStoreRefinement.cfg` | 2.5 million | do transactions implement the atomic store? |
| `waiting` | `MCStoreLiveness.cfg` | 0.2 million | does every call end? |
| `contents` | `MCContents.cfg` | 556, with 36 million requests tried | is what was written what is read? |
| `lists` | `MCListing.cfg` | 1.2 million | is a list complete? |
| `stamps` | `MCTimeline.cfg` | 0.9 million | do stamps, and the order of lists, agree with what clients saw? |
| `interceptors` | `MCInterceptors.cfg` | 9000 | do metrics, log and recovery agree? |
| `lifecycle` | `MCProcess.cfg` | 1 million | does the process with its RPCs end cleanly, for the right reason? |
| `shutdown` | `MCProcessLiveness.cfg` | 42 thousand | does the process stop when told to? |
| `stop_race` | `MCStopRace.cfg` | counterexample | is the application stopped when the process ends? *No.* |

`status`. `OkMeansItHappened`: success is never reported for a write that did
not land. `ReportedStatusWasCurrent`: the status in a reply is one the row had
during the call, and after the call's own write if it made one. `NotFoundIsFinal`:
NotFound means gone for good, whatever failed on the way. `RefusalWasJustified`,
`RefusedCallsWroteNothing`: a FailedPrecondition has a hold behind it and no
write. `UndisturbedWriteIsLegal`: the check of UpdateResourceOccupancy is still
right at its UPDATE if no other call wrote the row; its counterpart without that
condition is `HoldRespected`, which fails.

`transactions`, `refinement`, `waiting`. `RowsAreWhole` is what the lists need;
`ReplyTellsTheOutcome` relates each code to what was committed, also where a DELETE
that was sent twice is answered NotFound after its first copy did the work;
`NoTransactionLeftOpen` is the deferred rollback at each of the returns;
`SerialsAreUnique` that two devices never share a serial number, which no check in
the service but only the wait for the index ensures.
`ImplementsAtomicStore` says that no interleaving mixes the base fields of one
request with the details of another, or writes a column the mask does not name.

`contents`. `ReadsBackWhatWasWritten` compares every row, shown, with `told`: the
same, but for spaces at the end of a text that its column has cut off (`Shortened`,
`SameDetails`). `RepliesShowTheResource` compares replies with reads, since
CreateResource builds its reply from the request: all its other fields are what a
read shows, and its details are so but for such spaces, which a client sees in
the reply and nowhere after; `RefusalsChangeNothing` is the rollback of requests
that fail late and the panic of one that names an absent resource.

`lists`, `stamps`. `ListIsASnapshot`: a list answered OK is exactly what matched at
one moment between its arrival and its SELECT, not a mixture and not a beginning.
`YoungerComesFirst`: a resource asked for when another was already there is listed
above it. Two that were created by overlapping transactions come in either order,
with equal stamps in any. `StampsFollowCausality`: `updated_at` may go back, when a
transaction that waited for the row commits last, but never behind a stamp that its
client had seen before it asked. `UpdatedAfterCreated` relates the two stamps.

`interceptors`. `GaugeCountsCalls` and `EveryCallIsCounted` hold through errors and
panics; `EveryFailureIsLogged` depends on recovery being innermost;
`OnlyStreamsEndTheProcess` says what the missing recovery of streams costs.

`lifecycle`, `shutdown`. `RepositoryOpenWhileServing` and `NoCallCutShort` cover every
way out; `ExitCodeTellsWhy` is the errgroup with `stopOnce`, the deferred calls and
the signals; `NothingInFlightAtTheEnd` and `OnlyStreamsCutCallsShort` need both
halves: what the last scrape shows, and what panics do during a shutdown.
`StopsUnlessStreamStays` is the one thing that keeps a process: GracefulStop has no
deadline, and a client that leaves a reflection stream open is waited for.

### Two disagreements with the code

- `HoldRespected`. The test `TestServiceUpdateResourceOccupancy_RejectMaintenance`
  expects that a resource under maintenance is not changed. A booking that has
  read `available` writes `occupied` after ChangeResourceStatus has set
  `maintenance`: the hold is lost and both calls are answered OK. An UPDATE with
  a condition on the status, or a SELECT FOR UPDATE in a transaction, would
  keep it.
- `StopCompletesBeforeExit`. main() returns when both gRPC servers have stopped
  and does not wait for the goroutine that goes on to close the repository and
  the metrics server and to log "application stopped". `logs/resource.log` shows
  both outcomes.

### Bounds

- *Calls*: two. Every property of `status` speaks about one call against what
  others do to its row, and one other slot, used again and again, produces any
  sequence of writes; a slot is used again after its reply, so histories are
  not limited to two calls. A circle of waiting transactions needs two. In
  `ResourceStore` a session without a client takes a slot until it ends, so a call
  meets one such session at a time, its own first copy or another's remains.
- *Ids*: one in `status`, where calls meet on one row only and a created one is
  that same row while unborn; two where serial numbers collide. A row may
  already be there, or gone, in the initial states.
- *MaxStray* = 1 stray statement at a time; landed, there may be another.
- *Types*: two of the three, one with a unique index and one without; that is
  enough for details of the wrong type. The refinement run has no serial
  numbers (`Serials = {}`), the liveness run has two and one type.
- *Fields*: `name` only; the mask is then empty, `name`, details, or both.
- *Vals*: one value besides the initial one.
- *Texts*, *Capacities*, *Devices* (`contents`): the empty text, an ordinary one, one
  too long for 100 characters, one too long for 255, and one that is too long by
  spaces alone, with what both widths keep of it; capacities at 0 and 1 and on
  both sides of the bounds of a `SMALLINT` that matter (-32769, 32767, 32768); devices
  with each text absent, present, too long and cut.
- *MaxTime*: the number of writes, since every COMMIT moves the clock: four in
  `lists` by one writer, three in `stamps` by two. Two writers that overlap, and a
  third write before or after them, are the shortest disagreement of stamps.
- *Readers*: one; lists do not disturb each other.
- *Calls* (`interceptors`, `lifecycle`): three, and two together with the whole
  process; slots are used again. One in `shutdown`, which has no symmetry and asks
  of one RPC whether it keeps the process. *Methods*: one per kind in `lifecycle`.

`SYMMETRY` is used for calls and resources in runs without liveness.

### Fairness

`Process`: weak fairness of goroutines that can run (Go schedules them), of
clients that see a GOAWAY, and of unary handlers. The last is justified by
`EveryCallEnds`, as far as statements end: the code sets no deadline of its own.
Handlers of streams have none: their clients end them, or not. There is no
fairness on signals, failures, arrivals and metrics.

`ResourceStore`: weak fairness of a session's own statements, and of `SessionEnds`:
PostgreSQL ends a session when it finds the connection closed. Strong fairness of
statements that may wait, those without a client included, since PostgreSQL queues
who waits for a row or an index entry. Weak fairness of `DeadlockDetected`, which is
`deadlock_timeout`.
Arrivals, failures and crashes happen by chance: no liveness relies on a failure.

## 4. What is proved

Every invariant and every action property that a run checks, except the two
that the code violates, is a theorem for all values of the constants, and so is
the refinement. Each proof module has an inductive invariant (`IInv`; `PInv` in
`ProcessProofs`), the lemmas that it holds at first and that every action keeps
it, and theorems that draw the properties from it. TLC confirms each `IInv` on the
instances of the runs.

### Status RPCs

`StatusServiceProofs` proves, for any sets of resources and calls and any bound
on stray statements, from the single assumption that the empty id is not a
resource (`NoIdAssumption`):

| theorem | property |
|---|---|
| `TypeCorrect` | `TypeOK` |
| `SuccessIsReal` | `OkMeansItHappened` |
| `ReportsAreCurrent` | `ReportedStatusWasCurrent` |
| `RefusalsAreJustified` | `RefusalWasJustified` |
| `RefusalsLeaveNoTrace` | `RefusedCallsWroteNothing` |
| `NotFoundIsCertain` | `NotFoundIsFinal` |
| `UndisturbedWritesAreLegal` | `UndisturbedWriteIsLegal` |

These invariants are not inductive: that a reply is true depends on what the
call knew before it. `IInv` is `TypeOK` with four facts about every call
(`CallInv`): which operation its statement belongs to, and that it has written
exactly when it is past its write (`AtPc`); that a running call names a row that
is not unborn and whose present value is in `held[c]` (`RowSeen`); that a calm
call at its UPDATE still sees a row that is neither held nor what it wants
(`Unspoiled`); and what its reply says (`Answered`).

The proof of `StepInv` has one lemma per action. Most of each is about the
*other* calls, and that part is done once: `LocalBystander` for calls that move
only their own registers, `LandBystander` for a write, by which the row changes
under everybody's eyes and `Witness` and `Disturb` say so.

### The repository

`ResourceStoreProofs` proves, for any calls, resources, values, serial numbers and
fields,

| theorem | property |
|---|---|
| `TypeCorrectness` | `TypeOK` |
| `NoResourceInHalves` | `RowsAreWhole` |
| `TransactionsEnd` | `NoTransactionLeftOpen` |
| `RepliesAreTrue` | `ReplyTellsTheOutcome` |
| `SerialsStayUnique` | `SerialsAreUnique` |

The assumptions are that types are types (`TypesAssumption`), that the empty text
is not a serial number, since `nullableString` makes a NULL of it
(`SerialsAssumption`), and `NoIdAssumption`. That a COMMIT leaves whole rows is true
only because of what no other call could do since the transaction's first
statement. `IInv` says so in three groups: `Registers`, what a call has executed
when it is at a statement (`AtStatement`); `Tables`, that an update that has
written its base row holds a live row with details of its type (`Locked`), alone
(`OneWriter`), and that nobody knows the id a creation has drawn (`Fresh`); `Index`,
that an entry that was made is of a serial number which no committed row has
(`Entered`) and no other open transaction (`OneEntry`). A session that was left
behind keeps the facts of the statement where its call was (`Complete`, for a COMMIT
that was sent), so that what lands late finds what it holds. The lemmas go statement
by statement; that each way to fail ends as a rollback would is `FailureAborts`, that
the victim of a deadlock does, `VictimAborts`, and `Abandon...` are for calls that are
over for the service.

`ResourceStoreRefinement` proves `Refinement`, which is `ImplementsAtomicStore`: under
the mapping of the INSTANCE, initial states are initial states of `AtomicStore`; a
COMMIT, and a statement outside a transaction, is `Apply`, with or without a client;
an arrival, and the first copy of a statement that is sent twice, is `Ask`; every way
to fail before the COMMIT, and the end of the process for what was not sent, is
`Drop`; all other steps change nothing (`StoreKept`). The mapped store is one of whole
resources by `Tables`, so the mapping rests on the invariant.

### Contents and lists

`ContentsProofs` proves, for any texts, capacities and devices,

| theorem | property |
|---|---|
| `TypeCorrectness` | `TypeOK` |
| `WritesReadBack` | `ReadsBackWhatWasWritten` |
| `RepliesAreReads` | `RepliesShowTheResource` |
| `RefusalsAreWithoutEffect` | `RefusalsChangeNothing` |

from three assumptions: a device in a message has its five fields
(`DevicesAssumption`); no text of a message is a NULL (`TextsAssumption`); a text that a
column keeps, whole or cut, it keeps as it is the next time, and only the empty text
becomes empty (`KeptAssumption`, which a cut of trailing spaces fulfils, since a
column is at least one character wide). `IInv` adds that the row is made, column by
column, of what clients were told (`MadeOfWords`). The rest is in lemmas about the
conversions: what goes through the columns comes back but for what they cut off
(`TextsReadBack`, `DetailsReadBack`), and so do types (`TypesReadBack`); what an UPDATE
leaves in a row (`UpdatedRow`); that one which finds no error has found the row, with
details of its type (`NoError`).

`ListingProofs` proves, for any writers, readers and requests,

| theorem | property |
|---|---|
| `TypeCorrectness` | `TypeOK` |
| `ListsAreSnapshots` | `ListIsASnapshot` |
| `YoungerFirst` | `YoungerComesFirst` |
| `StampsMakeSense` | `UpdatedAfterCreated` |
| `StampsAreCausal` | `StampsFollowCausality` |

The assumptions: finitely many uuids (there are 2^128), a clock that is a number, and
that handlers let resources of the known types in only; and, in `Apply`, a clock that is
never set back. `IInv` has a part for
writers, `Timeline`: the clock is ahead of every stamp; what a client saw is not
after its own `now()` (`Saw`), which is what `StampsFollowCausality` needs, since a
transaction of that client begins after it asked; `older` agrees with `created`. And
one for readers, `Right`: while the SELECT is to come, what matches now is among the
right answers; while rows come, those that came and those that are left are together
a right answer without repetitions (`Complete`). That commits do not spoil lists that
are on their way is `StaysComplete`.

### Interceptors

`InterceptorsProofs` proves, for any RPCs, even infinitely many slots, and any
methods that are unary or streams (`MethodsAssumption`),

| theorem | property |
|---|---|
| `TypeCorrectness` | `TypeOK` |
| `GaugeIsRight` | `GaugeCountsCalls` |
| `CountersMeet` | `EveryCallIsCounted` |
| `UnaryPanicsAreRecovered` | `OnlyStreamsEndTheProcess` |
| `FailuresAreLogged` | `EveryFailureIsLogged` |

`Path` is how far an RPC can be for its outcome, and that a failed unary one below
the logging interceptor is logged. `Sums` says which RPCs the two metrics are the
number of: those between Inc and Dec, and those started and not yet handled. The
sets grow and shrink by one RPC at a time, so that they are finite needs no
assumption.

### The process

`LifecycleProofs` proves, for any set of RPCs and without an assumption,

| theorem | property |
|---|---|
| `TypeCorrect` | `TypeOK` |
| `PoolOutlivesCalls` | `RepositoryOpenWhileServing` |
| `CallsAreFinished` | `NoCallCutShort` |
| `ExitCodeIsTrue` | `ExitCodeTellsWhy` |

and `ProcessProofs` that `Process` implements `Lifecycle` (`ProcessIsALife`), so that
they hold of a process with its interceptors too (`ProcessIsSafe`). The properties
speak of what is left when the process has ended, and say nothing of the way
there; `IInv` adds how far main() must have come for a server to run (`ByMain`), what
a goroutine knows of the servers once its Serve has returned (`ByServer`), that
whatever is stopped had a reason to be and in which order (`ByStop`), and where
main() was at the end (`ByExit`). Ends of the process change nothing else and are
done once, in `EndInv`; the other lemmas go goroutine by goroutine.

`ProcessProofs` also proves

| theorem | property |
|---|---|
| `MetricsEndAtZero` | `NothingInFlightAtTheEnd` |
| `OnlyStreamsCut` | `OnlyStreamsCutCallsShort` |

for methods that are unary or streams (`UnaryOrStreams`). `PInv` joins the two
modules: the invariant of `Lifecycle`; that of `Interceptors` but for
`OnlyStreamsEndTheProcess` (`Counted`), since a process has other ends as well and
does not implement `Interceptors`; that an RPC is in its chain exactly while one
server, and one only, has it in flight (`Linked`); and that a panic which ended the
process is still there, in a stream (`StreamPanicked`).

### Only model-checked

`EveryCallEnds` and `StopsUnlessStreamStays`, which are liveness and out of the prover's
reach, and the two violations, of which TLC shows the counterexamples.

## 5. What is not modelled

- *Values of the settings*, and the libraries of the logger and the tracer, which
  belong to another repository: what goes wrong with a setting is modelled where
  it shows (no file, no database, a port that is taken).
- *The pool of connections* has no limits: `sql.Open` sets none, so no call ever
  waits for a connection. That the driver rolls a transaction back when the
  context of its call is cancelled comes to the same as the rollback of
  `rollbackTxOnErr`, and as a failure of a statement for the client.
- *A clock that is set back*: `created_at` and `updated_at` then order nothing.
- *Scanning* of rows column by column, wording of errors (`mapSQLError`), log texts.
- *Scrapes*: promhttp answers them; that Shutdown gets a cancelled context and
  waits for none (`app.go:78`) is in `StopMetrics`, but no property is about it.
- *Indexes* on type and status, which change no result; *Docker, CI*, except for
  the restart after a crash.

## 6. Plan

Every operation that the repository's code performs is an action of some module,
and every safety property that holds is proved. What is left:

1. `StatusService` under an abstract specification of its own: a status cell per
   resource, with one step per call between its arrival and its reply.
2. The serial numbers of `ResourceStore` in `AtomicStore`: requests that take effect
   keep them unique, so that clients of the abstract store may rely on it.
