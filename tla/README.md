# A TLA+ model of the app-ecosystem transaction core

This directory holds TLA+ modules that model how this repository changes shared
records safely: the durable decision ledger of `service-foundation`, the
Connection Hub as a participant of its transactions with the Card versions and
fenced rows it keeps itself, and the keyed mutations of the project board client.
TLC checks the modules on small instances, and TLAPS proves their safety properties
for every size; liveness is only model-checked.

## 1. The system

The repository has three layers.

*Foundations* (`src/packages`). `service-foundation/coordination` is a durable
decision log: a PostgreSQL ledger with one row per transaction and a
`Coordinator` that prepares participants, records a decision and finishes them.
`service-foundation/host_relay` supervises relay tasks. `app-foundation` has a
data bus client, A2A and MCP adapters, a SQLite index and native secrets.
`capabilities-`, `economics-` and `harness-foundation` are names without code.

*Connection Hub* (`src/products/connection-hub`). It keeps delegated credential
Cards. A Card is a chain of revision files and a pointer to the current one. A
change is either an ordinary commit under the Card's mutation section or the
Hub's part of a coordinated transaction (`cards/transaction_store.py`, driven by
`cards/service.py` and `cards/card_participant.py`). Around it are the serving
cache in Redis, OAuth flows, policy evaluation, catalogs, devices and a web app.

*Applications*. The KDCube services app and the project board client with its
local store, relay and queues.

### State, operations and what makes them hard

| Part | State that survives | Operations | Hard behaviour |
|---|---|---|---|
| Decision ledger | row: state, prepared and finished receipts, witness, expiry | begin, record_prepared, decide, abort_expired, record_finished, listing | workers with stale rows, expiry racing a commit |
| Coordinator | none (locals only) | prepare, decide, finish, recover | lost replies, late calls, crash between call and record |
| Participant, one Card | receipt, marker, read fences, revision and its marker, pointer, index entry, tombstone, effect records | STAGE, FINISH | crash after each write; replay; a fence in three phases |
| Participant, group | aggregate receipt with its staged flag, the members' files | begin, stage members, complete, FINISH | one visibility point over many files |
| Participant, read set | receipt, fences, index entry, tombstone | PREPARE, FINISH | FINISH runs outside the Cards' sections |
| Reader | none | pointer, receipt, decision, effects, revision | takes no section at all |
| Ordinary writer | pointer, updating marker | commit | must respect every fence |
| Serving cache | one Redis key per Card, epoch, sweep lock | claim, finalize, restore, reconcile, sweep | expiry, restart from an old snapshot, late read-throughs |
| Pointer and marker rows | row with revision, incarnation and fence; a file hint | locked read with a claim, adopt, write, delete | leases that end under a running holder |
| Card versions | marker, base reservations, revision files, sidecars, pointers | STAGE, PUBLISH, ROLLBACK, compensate | calls cut after any write, repeated in any order |
| Coordinate queue | ledger record of a key, request and response files | call, claim, dispatch, settle | a request whose outcome is unknown, leases, late answers |
| Recovery | caller-held cursor | one page of in-doubt rows | rows that fail, rows inserted behind the cursor |

The parts meet at few places. The coordinator calls the participant's `prepare`
and `finish`; the participant asks the coordinator for a decision when a reader
meets a prepared pointer; recovery walks the ledger on one side and the
participant's in-flight index on the other. Every section of the Hub is a leased
lock, and the rows of `CardRows` are what makes losing one harmless for pointers
and markers. Card versions are a second protocol over the same pointers, with the
marker in place of a coordinator. The board client shares no state with the Hub.

`PROJECT.json` lists every component with its sources, including those without
a module, and every hazard at the line where it bites.

## 2. Modules

| Module | Models |
|---|---|
| `AtomicCommit` | abstract: what the ledger promises its users |
| `DurableDecision` | `durable_decision_v2.py`: ledger, Coordinator, unreliable calls |
| `DurableDecisionProofs` | the inductive invariant, its consequences, the refinement |
| `RecoveryPaging` | the paged recovery loop: `list_in_doubt_page`, `recover_page`, the caller's cursor |
| `RecoveryProofs` | paging skips no row; a swept Redis run holds nothing older than what was acknowledged |
| `CardTransaction` | STAGE, FINISH and ordinary commits of single Cards, one step per durable write |
| `CardRead` | extends it with a reader that takes no section |
| `CardTransactionProofs` | single Cards and their readers: sections, content, exclusion, reservation |
| `CardGroup` | a group of Cards under one decision |
| `CardGroupProofs` | a group is one change to every reader |
| `CardReadSet` | transactions that only hold Cards at the revisions read |
| `CardReadSetProofs` | a read set commits at the revisions it read and is released |
| `CardServing` | the Redis projection of a Card: mutations, read-through, sweep after a restart |
| `CardRows` | one pointer or marker as a fenced row with a file beside it, under leased locks |
| `CardRowsProofs` | the present lease holder keeps its row, no update is lost |
| `CardVersion` | STAGE, PUBLISH, ROLLBACK and compensation of Card versions |
| `CardVersionProofs` | versions that were current keep their file; publications complete, what is served is final, nothing remains |
| `Coordinate` | one idempotency key: calls, ledger, file queue, relay, board |
| `CoordinateProofs` | a key is held while a request under it may apply, and its outcomes are true |
| `MC...` | the instances TLC checks |

Definitions keep the source's names where they can: `MergePrepared` is the UPDATE
in `record_prepared`, `Replaceable` is `assert_replaceable`, `LiveFence` is
`_live_read_fence`. Operators that begin with the comment "Mutant" are defective
variants that show which property notices which mistake. No specification uses
them. `TypeOK` gives the types of a module's variables. It holds on the instances of
all runs and is part of the proofs; no run lists it.

### DurableDecision

`row[t]` is the ledger row, `held[t][p]` what participant `p` durably holds.
Each worker has a program counter, the transaction it works on, its copy `rec`
of the row and the participant it is calling. Every store operation is one
database transaction in the code and one step in the model. Everything between
two of them interleaves. `Fail` ends an operation at any point for any reason
and moves its outstanding call to `stray`; `Deliver` executes such a call later,
any number of times. The participant is external to the package and modelled by
the `Participant` protocol.

The loops of `prepare_existing` and `finish` go through the participants in the
intent's order. The model lets them pick any, which covers every order.

### CardTransaction

The state is the set of files: receipt, pointer, marker, read fence, index
entry, tombstone, revision, revision marker and effect records. `world` is what
effects did outside. A revision is its number and the set of transactions whose
change it contains, which is all the properties tell apart. `st` and `fin` say
which durable write a STAGE or a FINISH does next; `StageCrash` and
`FinishCrash` stop them there. `mark` is the updating marker of the serving
cache, with an expiry of its own. The decision port answers the recorded
decision or, when the coordinator cannot be reached, nothing (`PortAnswers`).

STAGE may stop after each of its writes, also between the receipt and the marker,
where the Card is prepared but not fenced. A replay of such a stage does not ask
`assert_replaceable`. `overrun` is a history variable: the Cards with which a replay
went on although another transaction held or had reserved them. Section 4 says what
happens there; the properties that depend on exclusion speak of the other Cards.

What is folded together: a fresh stage that is refused releases the updating
marker it claimed, which is a claim followed by `MarkExpires`. A failing effect
or port is a `FinishCrash`. An effect preparer that fails is a `StageCrash`
before the answer.

What is left out: the `candidate_link` form, in which the candidate revision is
written before the transaction; catalog reservations; Cards that do not exist
yet (revision 0); account bindings; the fences of the lifecycle and UPDATE stores.

### CardRead

`read_current_authority` reads the pointer, the receipt, the decision and the
effect records one after the other. Each is a step of its own. `floor` is a
history variable: the Card's revision when the read began. `Named` is what a
read returns when it comes to load the revision.

### CardGroup

A member's staging is the protocol of `CardTransaction`, reduced to two writes:
receipt with marker, and revision with pointer. A crash between receipt and marker is
the business of `CardTransaction`. One group against ordinary writers loses nothing by it:
a writer that moves a prepared member without a marker makes its replay refuse, so that the
group is never staged and can only abort. The aggregate receipt, its
staged flag, the index entry and the tombstone are separate. `complete_group` is
two steps because it reads the aggregate, checks the members and writes what it
read. A FINISH call may start while a STAGE call of the same group is in flight:
nothing in the code prevents that, since a caller may time out while the server
still works, and recovery may run on another replica. `overlapped` is a history
variable that records that this happened.

### CardReadSet

PREPARE holds the sections of all its Cards; FINISH holds none. `overlapped` is
the set of transactions whose FINISH found no receipt while a PREPARE was in
flight. `retire_intent`, which refuses unless storage
shows a terminal state, is part of `FinishAnswer`.

### CardServing

`key` is the Card's Redis key and `dur` the durable current revision. The scripts
of `cache.py` are functions of the key's value (`Claimable`, `Finalized`,
`Restored`, `Reconciled`), each used in one atomic step. A mutation is `commit` or
`revoke`: reconcile, mark, commit durably, install, with the release of the
marker when the durable commit fails. It holds the Card's section, so there is
one at a time, and it may die anywhere. A resolve that finds an entry answers
from the Redis transaction that read it and changes nothing; one that finds none
is the read-through `ReadMiss`, `ReadDurable`, `Restore`. A sweep reads the run
and the epoch, takes the lock, scans, repairs, records the epoch and releases
the lock, each in a step of its own; it may fail or die. Redis may save a
snapshot at any time and restart from it as a new run. `acked` is a history
variable: the last revision whose mutation returned.

Nothing in the code limits how long a read-through or a repair is on its way, and nothing
in the model does. Two history variables note when one was overtaken. `late`: an entry newer
than what the read-through holds was removed from the key. `revived`: a write that was
overtaken has changed the key. That is a `Restore` when `late` holds, or when the
read-through is of an older run and the live run has been scanned, and a `Repair` of an
older run's sweep that puts a projection over a tombstone which the live run's sweep has
scanned. `EntryIsAcknowledged` speaks up to the first such write, `NoOldAuthority` says the
same without that condition and is false (section 4).

Left out: the lifecycle scripts over two Cards, which also clear the epoch;
projections that expire with their credential; unusable values; the index of
Cards by grantor. A sweep of one Card never renews its lock.

### CardRows

The object is a Card's pointer or the marker of a version transaction (`kind`).
`row` is the database row, `hint` the file beside it, tagged when it was written
next to a row. `redis` is the value of each lock key and `keys[o]` the sections an
operation believes it is in: they differ once a lease has expired (`Expire`). Every
claim and write is three steps as in the code, which draws the fence token, checks
the keys and then runs one statement, and the operation may stall, lose its leases
or die between any two. `token`, `claim` and `obs` are the fields of
`CardRowOperation`. A locked read claims the row in the same statement; a read of a
pointer inside another Card's section (`Peek`) only observes it. `docs` numbers
the documents; number 1 is the file from before the rows were turned on.

Folded: a renewal that fails sets a flag the guard reads, which is a guard that
refuses. Left out: re-entry of a section the operation already holds, and the
marker that a ROLLBACK without links creates outside every lock, which only inserts.
The operations run on different hosts, so the container-local lock file does not
exclude them.

### CardVersion

A version is its transaction and number. `marker[t]` is the transaction's marker
with the base it observed for each member and the effects recorded; `slot[c]` is a
Card's base reservation, `fenced` the sidecars. `pc` and `todo` say which durable
write the running call does next and for which members; `Stop` ends the call there,
so the next call meets any prefix of it. The locks are taken as exclusive (see
`CardRows` for what a lost one does). `LocalWrite` is any other writer of the Hub.
`plan` is what the caller keeps of STAGE's answer and passes to a later ROLLBACK or
compensation (its links), `said` a history variable of the answers. Compensation is
planned under the locks, releases them, and then stages and publishes like any
other transaction (`undo`). `rd` is a reader that takes no lock.

A caller that meets the pointer of a publication without its marker marks it
(`finalize_current_version`). In the model only a Card that is read leads there
(`Finalize`): on a member, and for any other writer, `assert_base_available` comes first
and refuses, since the publication keeps its reservations until its marker is written.

Left out: `card_version_outcome`, which reads only; the scope binding and the check
of the active catalog; markers written before reservations existed; two concurrent
compensations of one transaction; the cache steps of PUBLISH.

### Coordinate

`rec` is the ledger's record of the key, `queue` and `resp` the request and response
files, `at` one dispatch for every lease handed out, `net` and `board` the message
on the Data Bus and the board's record. A call of `pb coordinate` publishes at most
one request, so its request id is the call itself. Ledger and queue have a lock
each, so each of their operations is one step, but nothing holds between two of
them, and taking a response holds neither lock: reading the file and removing it are
two steps. A dispatch goes on although its lease expired and the request was claimed
again. A call or relay that dies is one that takes no further step.

`over` is a history variable. It becomes true when an answer that frees the key is
given for a request that was sent before and not refused, or when its row stays in
the queue behind such an answer. The code has four ways to do this (section 4).
A relay that dies between its response and the removal of the row is modelled for the
answers that free the key. After the other answers the row that stays behind belongs to
a request the key is still held for, and claiming it again is what an expired lease does.

Taken from how the client uses it: the Data Bus delivers a message under one identity
at most once, the board keeps one record for a key and does not change a settled one.
Left out: reads, mutations without a key and agent-services actions; the pruning of
ledger and queue after days; the queue request by which a receipt itself is read.

### RecoveryPaging

The ledger is reduced to which rows are in doubt and which of them fail whenever
they are recovered (`Stuck`). A tick reads the stored cursor, lists at most
`MaxPages` pages after it, recovers the rows of each page, and stores the cursor
it stopped at, which is empty after the last page. New rows may appear anywhere,
also behind the cursor; a row may be closed by someone else. A tick may die
before it stores its cursor, and the store may lose the cursor, at most
`MaxFaults` times together. `due` is a history variable: the rows that were in
doubt when the current walk over the ledger began. Its specification is called
`PagingSpec`, since `RecoveryProofs` extends this module and `CardServing`, which shares
no state with it.

## 3. What TLC checks

| Run | Question | Instance |
|---|---|---|
| `ledger` | atomic outcomes, agreement, refinement of `AtomicCommit` | 1 transaction, 2 participants, 2 workers, 2 witnesses, clock 0..1 |
| `ledger_closes` | is every transaction closed in the end | 1 fair recovery worker |
| `recovery` | does paging reach every row although others fail | 4 rows, pages of 1, 2 pages a pass, 1 stuck row, 1 fault |
| `card_cross` | a change that depends on another changing Card | 2 Cards, 2 transactions, 1 effect |
| `card_finishes` | does FINISH end although it may die after each write | 2 Cards, 1 transaction |
| `card_read` | two changes of one Card, ordinary writers, and what a reader without a section returns | 1 Card, 2 transactions with an effect each, 3 revisions |
| `group` | is a group one change to every reader, and does FINISH close it | 3 members |
| `read_set` | is a commit made at the revisions read, and is everything released | 2 Cards, 2 read sets sharing one, which ordinary commits change |
| `serving` | does a swept Redis run serve anything older than what was acknowledged, until an overtaken write | 1 Card, 3 revisions, 2 runs, 1 read-through, 2 sweeps |
| `rows` | does a lost lease hurt the next holder, is an update lost, does a deleted marker return | 2 operations, one with 2 nested keys; 3 tokens, 2 documents; pointer and marker |
| `versions` | what do cut and repeated calls of version transactions leave | 2 Cards, 3 transactions: a group with 2 effects, its compensation, one that writes one Card and reads the other; 2 other writes a Card |
| `coordinate` | is a key freed only on proof, and is what the ledger records true | 3 calls under one key, 2 of them of the same request; 2 leases |

Why the bounds are enough. Two workers are the smallest number that can race, and
a worker that fails can start again with fresh locals, so a long history of
callers is covered by two. Two participants are needed for atomicity, two
witnesses for disagreement. Transactions do not share rows, so one suffices in the
ledger. Expiry needs one boundary: the clock before it and at it. For the Cards,
two transactions on two Cards give every relation between a target and a
dependency; three revisions allow a commit, a transaction over it and another
commit. `card_read` follows a behaviour up to an overrun (`NoOverrun`), after which only
`ReadReturnsCommitted` says anything of its one Card; without that constraint the run
passes as well, with 2.1 million states instead of 1.2. Its two transactions are alike, so
they are symmetric. `card_cross` has no such constraint. Three members give a lead, a
middle and a last one. In `read_set` the Card that both read sets hold is the one that moves (`Written`); the
other one makes the first read set fence in two steps.
For serving, three revisions allow a revocation and a re-consent, two runs one
restart, two sweeps a takeover of the lock; the snapshot of the last run is not
kept because no restart reads it. `NotRevived` follows a behaviour up to the first
overtaken write.
For the rows, two operations give a stalled holder and its successor, the nested one
enters the Card's section twice with one context, and three tokens let the first
draw again after the second. For the versions,
each transaction may be called any number of times; two transactions share a member,
and one reads what the other writes. For the queue, two calls of one request and one
of another give every relation between a key and its users; two leases let one
request be dispatched twice or two requests once each. `UpToOver` follows a
behaviour up to the first unproved freeing answer, where the properties of
the run stop to speak. None of these bounds limits the safety properties, which section 5
proves for every size.

Deadlock is not checked where the system may stop: when every transaction is
finished, the clock and the revision numbers are at their bound, nothing is left
to do.

### Fairness

`ledger_closes` assumes that time passes, that a recovery worker keeps listing
rows (the hosting service runs recovery periodically) and that a call retried
for ever succeeds in the end. Strong fairness is used because a failure can
disable a step again and again. A direct call of `finish` is not assumed: only
rows that recovery lists are finished. `card_finishes` assumes that FINISH is
retried until it answers, which is what recovery does for a decided row that is
not finished, and that the holder of a section goes on or dies. `recovery`
assumes that ticks keep being made and go on, that they die or lose the cursor
only so often, and that some attempt to recover a row that is not stuck
succeeds.

## 4. Where code and comments disagree

Each of these has a configuration of its own that ends with a counterexample. They
are not among the runs of `PROJECT.json`; run them with
`tlc -config <cfg> <module>`.

* `MCCardReplay.cfg` (`MCCardTransaction`, `ResumeOnlyOverBefore`). A stage dies
  between its receipt and its marker. The Card is
  not fenced in that window. After the updating marker has expired, a second
  transaction stages on the Card and is committed. A replay of the first then
  resolves the second's pointer without asking for its decision, finds BEFORE
  and overwrites the pointer. The docstring of `stage` says that a replay resumes "only
  while the Card is still exactly the receipt's BEFORE". A reservation suffers in the same
  way: a transaction reserves a Card whose prepared transaction has no marker, the replay
  does not look at the read fence and moves the Card, and the reader's commit is decided
  on a state that is gone. The passing runs have this crash point too. Their properties
  speak of every Card but those a replay went on with while they were held or reserved
  (`overrun`), so the replay is the one step that does harm: a stage that was cut there and
  is aborted, or replayed on a Card that is free or has moved, breaks nothing.
* `MCCardGroupLateMember.cfg` (`MCCardGroup`, `EveryMemberFenceIsIndexed`). The
  abort of a group passes over members without a
  receipt. A member whose stage is in flight is prepared afterwards, while the
  group's index entry is gone.
* `MCCardReadSetLate.cfg` (`MCCardReadSet`, `EveryFinishedHoldsNothing`). The abort
  of a read set looks for a receipt and writes the
  tombstone outside the sections; a prepare in flight writes its receipt later,
  and its fences stay live with no index entry.
* `MCCardRowsReader.cfg` (`MCCardRows`, `MarkerReadIsCurrent`). A read of a marker
  without a lock finds no row; a writer then creates the row and its tagged file; the
  read finds the file and answers that the marker is absent. `read_marker_document`
  says: "A tagged hint with no row is a hint of a row that was DELETED". The row and
  the file are two reads.
* `MCCardVersionCut.cfg` (`MCCardVersion`, `ReleasedIsNotPublished`). ROLLBACK
  releases the effects, is cut before it writes the retired marker, and a later
  PUBLISH finds the staged marker and publishes. The comment in
  `_release_and_forget` says: "A cut during cleanup must never let an old STAGED
  marker publish after ABORT". The publication can then not complete its effects, so
  its version is current and not served.
* `MCCoordinateFaults.cfg` (`MCCoordinate`, `OnlyProofFrees`). The comment on
  `NOT_SENT_CODES` says that these codes "prove this request id never reached the
  service", and `error_outcome` that "Only proof frees a key". Four answers free the
  key of a request that was sent before: the relay answers a worker mismatch without
  a look at earlier attempts; the evidence of a receipt read takes a deferred row over
  the queue's limit and it is answered as too large; the ingress refuses a second send
  of a request whose first send it accepted; a relay dies between writing the response
  and removing the leased row, the response frees the key and the row, whose lease
  expires, is sent. The docstring of `_settle_unknown_by_receipt` also says that "no
  mutation is ever resent automatically". A request is sent again when its lease
  expired without a recorded error, or when a changed session overwrote that error.

Groups and read sets need two overlapping calls for one transaction. Runs `group` and
`read_set` show that the same properties hold for every transaction whose calls
did not overlap, and that the decision itself stays correct even with overlap:
nothing is committed on a state that was not read, and no reader sees half a
group. What is lost is the release of a fence. `complete_group` has the same
kind of window: it writes back the aggregate it read earlier, over a FINISH that
happened in between.

Two more about Card versions, both about progress, which no run claims. A ROLLBACK
"that finds the txn published finishes that PUBLISH"; a Card that the transaction
only reads is not reserved, and when it moves after the first pointer did, every later
PUBLISH refuses (`ReadsHold`), and ROLLBACK with it, because versions only grow; if all
pointers had moved, a transaction that reads one of the Cards still marks the publication,
and then it can be finished. And `compensate_card_version` says
"a retry is idempotent"; a compensation whose STAGE was cut leaves a `staging` marker,
after which the retry skips STAGE and its PUBLISH is refused every time.

Two about serving, `NoOldAuthority` of `MCCardServing`. `MCCardServingLate.cfg`:
`restore_projection` says that "a delayed restoration cannot revive old authority". That
holds while an entry of the newer revision is in the key. TLC shows a read-through that
read the Card before its revocation, finds the key empty and installs the revoked
revision. There are four ways to it: the tombstone expires; a later mutation displaces
it by a marker, which expires; that mutation's durable commit fails and it drops
its marker; a sweep that began before another one recorded the run removes the
tombstone. The first two need a read-through longer than a residency (60 seconds for a
tombstone, 15 for a marker by default), the last two only an unlucky order.

The other one was found by the proof. `reconcile.py` says that "after a data loss, every
projection is compared with its durable pointer once, and no projection is served until
that comparison has completed". A sweep compares the entry it scanned, and a repair of an
older run's sweep may still change the key. `MCCardServingOldRepair.cfg` shows it with
three runs and four revisions, in about twenty minutes. A sweep scans a projection and
reads the durable revision 3. A mutation revokes the Card with revision 4 and is
acknowledged. Redis restarts from a snapshot with the tombstone of revision 2, and the new
run's sweep scans that tombstone. Now the old repair replaces it by revision 3; the new
sweep removes only what is not newer than the tombstone it scanned, and records the run.
Revision 3 is served after 4 was acknowledged. Two runs and three revisions, the instance
of `serving`, are too few for it.

## 5. What is proved

`DurableDecisionProofs` proves, for any sets of transactions, participants,
workers and witnesses, any expiry times and any bound on the clock:

* `Inductive`, `TypeCorrect`: the inductive invariant and the types;
* `OutcomesFollowDecisions`, `AtomicOutcomes`, `CommitsAreHeld`,
  `FinishedIsClosed`, `DecideAnswersAgree`: the invariants of run `ledger`;
* `RowsOnlyGrow`: decisions, witnesses and receipts are never withdrawn;
* `Refinement`: the ledger implements `AtomicCommit`.

The assumptions are that the empty witness is not a witness, that the placeholder
for "no participant" is not a participant, and that times are natural numbers.

Why a strengthening is needed. Atomicity follows from "an outcome is the row's
decision", but that is not inductive: a worker finishes participants with the
decision of its *copy* of the row. `WorkerInv` says that a terminal copy agrees
with the row, which holds because a decided row never changes (`RowStep`).
`StrayInv` says the same of calls whose caller is gone. `LedgerInv` says that a
recorded receipt stands for state the participant took, so a commit is over held
state: a participant that took its side can leave it only by a decision, and the
row has none yet. `ToldInv` ties the answers given to the row.

The step proofs are organised by what a step changes: the lemmas `BegunRow`,
`MergedRow`, `DecidedRow`, `ExpiredRow` and `FinishedRow` say how each store
operation changes a row, `RowStep` and `HeldStep` collect them, and the proof for
workers that did not move (`WorkerKept`) uses only those.

`RecoveryProofs` proves `NeverSkips`: for any number of rows, any page
size, any number of pages of a pass and any number of faults, a row that was in
doubt when the walk began and still is lies ahead of the stored cursor
(`NothingSkipped`). `PageFacts` is the heart of it: the rows of a page come before
every row the page leaves out, and a page with rows behind it is not empty. Its
cursor is therefore not the empty one, which would end the walk. The inductive
invariant adds that last fact, and that a row that is due has begun, since
otherwise an insertion could make a row due that the walk has passed.

The same module proves `ServedIsAcknowledged`, the property of run `serving`, for any
sweepers, revisions, mutations and Redis runs, with no assumption on how long a call is on
its way; the sweep lock is not needed for it. The invariant `ServingInv` holds until
`revived`. `EntryIsAcknowledged` speaks only of a run recorded as swept, so `ServingInv` must say how a run comes to be one. An entry is `Bad` when it is
older than what was acknowledged, or a tombstone under a mutation that has claimed the
key, since that mutation's finalizer will be refused by it. `RepairInv`: while a sweep of
the live run is under way, what it has seen will make it repair what is bad, because a bad
entry is still the tombstone it scanned, or a projection not older than the scanned one
and older than the durable revision it read. `KeyInv`: once a sweep is at its end, or the
run is recorded, or a read-through of the run is under way, the entry is not bad, and no
script makes it bad. `TakenInv`: a read-through that is behind, and not `late`, finds the key taken by
an entry that is newer than what it read, since only a removal could free the key. A
read-through or repair of an older run can break `KeyInv` and `RepairInv` only by a write
that sets `revived`: `RestoreStep` and `RepairStep` are the two places that use it. The
proof thus shows that the overtaken writes of section 4 are the only ones that do harm.

`CardReadSetProofs` proves the four properties of run `read_set` for any Cards,
any read sets over them and any number of revisions: `PreparedSetsHold`,
`CommitsOnReadState`, `PreparedSetsAreIndexed` and `FinishedSetsAreReleased`. The
first two hold whatever calls overlap. They rest on the section: a fence is set
inside it, PREPARE keeps it until the receipt exists (`PrepareInv`), so a Card
that is fenced but not yet live cannot move or be taken over (`HoldInv`); once the
receipt exists the live fence itself refuses. The other two need `CalmInv`: without
overlap the tombstone of an abort is on disk before the next PREPARE looks for it,
and an index entry is dropped only after the receipt is decided.
`MCCardReadSetLate.cfg` shows that they are false with overlap. Assumed: the placeholder
for "no transaction" is not one, a read set holds Cards that exist, and revisions
start at 1.

`CardRowsProofs` proves the three properties of run `rows` for any operations, keys,
nestings, tokens and documents: `OwnerKeeps`, `DeletedMarkersStay` and
`NoLostUpdate`. `OwnerKeepsTheRow` is not inductive: it must exclude the late
statement of an operation that passed the guard while it still owned the key.
`FenceInv` does: such an operation drew its token before it lost the key, and whoever
owns the key now drew after acquiring it, so every statement still in flight carries
a smaller token. A late claim then leaves the fence alone and a late write does not
match it. `SectionInv` and `TokenInv` say where tokens come from and that no two
operations share one. `NoLostUpdate` needs `SeenInv` instead: a revision of one
incarnation names one document, whoever holds the lease. Assumed: the placeholder for
"no operation" is not one, keys are numbers, and the bounds are natural numbers.

`CardTransactionProofs` proves the safety properties of runs `card_cross` and
`card_read` for any Cards, transactions, effects, dependencies, crash points and bound
on revisions. The argument has four layers, and each uses only the ones before it.

1. *Sections* (`BaseInv`, theorem `BaseInductive`). STAGE, FINISH and ordinary commits
   of a Card exclude each other, so the write a call is at says what the receipt is. A
   transaction pointer is the one its transaction wrote on its Card. From this follow
   `FenceFound`, `FinishedStays` and `HistoryIsCommitted`. `FinishedHoldsNothing` alone
   is not inductive: a late STAGE must be refused by the decided receipt or by the
   tombstone, and `FinishOK` says that one of them is there and stays.
2. *Content* (`ContentInv`, `ContentInductive`). A pointer or a plan names only
   revisions whose transactions are committed with all effects. A reader holds a pointer
   it read earlier; `ReadOK` says what it may still conclude from it, since receipts and
   decisions only move forward. Hence `ReadsCommitted`.
3. *Exclusion* (`CardInv`, `CardInductive`). On a Card outside `overrun` at most one
   transaction runs a STAGE or is prepared with its marker or its pointer on the Card
   (`Holds`, `HoldInv`), and what its pointer replaces is settled and shows its BEFORE. A
   prepared transaction without either holds nothing: it gets the Card back only by a
   replay, which finds it free or makes it an overrun. So the Card's revision only grows (`Logical` never loses a committed
   transaction), which gives `CommitKept`, `CommitFinishes`, `StagesOverBefore` and,
   with `FloorOK`, `ReadsCurrent`.
4. *Reservation* (`ReserveInv`, `ReserveInductive`). A Card that a prepared transaction
   reads has its fence and, outside `overrun`, its expected revision and no transaction
   of its own that holds it.
   The section covers the time from the check to the receipt, the live fence the time
   after it. Hence `CommitsOnPlan`: a commit is decided only on the state that was planned.

Nothing is assumed but the shape of the constants: the placeholder for "no transaction"
is not one, targets and dependencies are Cards, revisions are natural numbers. STAGE may
be cut after any of its writes. The first two layers hold of every Card, the other two of
the Cards outside `overrun`; `MCCardReplay.cfg` shows that exclusion is false on the others
(section 4).

`CardGroupProofs` proves the four invariants of run `group` for any number of members,
with or without an effect: `OneChange`, `EffectFirst`, `PreparedIsIndexed` and
`FinishedIsClosed`. `GroupIsOneChange` is about what a reader sees of one member, and
the decision is about all of them; `WholeInv` connects them. Once the group was seen
staged, every member stays ready until an abort, because an ordinary commit is refused
over a prepared receipt and STAGE writes only behind its own. `EffectInv` says that
FINISH passes the lead only with the effect recorded. The last two theorems need
`CalmInv`, which speaks while STAGE and FINISH have not overlapped.

`CardVersionProofs` proves all six properties of run `versions`, for any Cards,
transactions, effects and sequence of cut or repeated calls, in two layers.

1. *Files* (`VersionInv`, theorem `VersionsInductive`). Hence `PublishedKept` and
   `RolledBackWasNeverCurrent`. ROLLBACK deletes files, so its marker must tell the truth:
   `MarkOK` says that a retired marker's versions were never current, and that a staged
   version that was current still is. The second part holds because the pointer names the
   highest version there ever was (`CardInv`) and every writer publishes what it replaces
   first. `CallAt` says what a call has found and done at each of its steps.
2. *Outcomes* (`OutcomeInv`, `RestInductive`). Hence `StartedCompletes`, `ServedFinal`,
   `NothingLeft`, `PublishedFinal` and `CompensatesOnly`. These relate a transaction's
   marker to the files, sidecars, reservations, effects and answers of all its Cards, and
   a marker may be gone. `NumberInv` says that a number of a Card names one version, so
   what a compensation or a caller's links find at a pointer is what they mean. `PlanOK`
   says that the plan fixes the numbers of its transaction: a STAGE repeated after the
   publication was forgotten does not fit the pointers and is refused. `PubOK` is the
   publication under way, with the reservations and unsettled pointers that keep other
   writers off. `EffOK` says that effects are applied behind a published marker only, and
   `RestOK` that whatever is on disk is named by the marker, which is deleted last, or was
   current; `StepOK` says how far each call has come with it. `ReadInv` says that the
   effects of what a reader holds are applied once it has passed the sidecar. A step
   concerns one transaction, and `ApartKept` says once what the others need of it: their
   marker, files, reservations and pointers stay.

Assumed: Cards are natural numbers and finitely many, "no transaction" is not a
transaction, a transaction writes at least one Card and none that it only reads, and a
compensation writes the Cards of the one it undoes, without effects.

`CoordinateProofs` proves all four properties of run `coordinate` for any calls,
requests and leases: `QueuedRegistered`, `HeldWhileLive`, `OutcomesTrue` and
`AppliedFinal`, and that the types hold also after an unproved answer (`TypesKept`).
The properties speak as long as `over` is false, and so does the inductive invariant
`KInv`, types and ids aside. None of them is inductive alone. The record is deleted when
every attempt has an outcome without effect, so such an outcome must mean that the
attempt is dead: published, out of the queue and never to be admitted. `RefusalInv` says
this of every place an outcome passes through: the response file, the answer in a call's
hands, the record. It holds when the relay gives the answer because a row no relay
claimed was never sent (`RowInv`), and because a dispatch that was refused and still has
the lease is the last one that could have sent (`DispatchInv`): a later claim would have
drawn a new lease. A dead request stays dead because a call publishes once, and its
answer can be looked up only after that (`PhaseInv`). `KeyInv` is the conclusion: what is
queued or live is an attempt the key is held for. `AppliedFinal` needs it as well:
`abandon_attempt` deletes a record without looking at its outcome, and only the attempt
that was applied, being registered, keeps it from deleting a receipt. The step proofs
first say field by field what each action does (`...Is`), then sort a call's steps by
what they do to the record, the queue and the call (`KeySteps`, `RowSteps`, `CallMoves`).
Assumed: every call has a request, and there is at least one lease.

Only model-checked is liveness (`EventuallyClosed`, `DecidedIsFinished`,
`OthersAreRecovered`), which is out of this prover's reach.

## 6. Not modelled

The modules stand for a small part of the repository: its transaction and fencing
core. By lines most of the repository is web user interface, command line tools,
request handling, policy and configuration, wire formats and tests of them.

Left out although they have protocol state, and why:

* Card lifecycle, updates, credential handles and their cleanup claims. The
  participant reaches them as effects, and the modules take an effect as a step that
  may fail, repeat or be cut from its record. Each store is a protocol of the size of
  `CardTransaction`.
* Read collections, effects-only transactions, catalog reservations, transaction
  authorities in the database. They repeat the fences of `CardReadSet` and
  `CardTransaction` or the compare-and-set of `CardRows` with other names.
* The rest of serving: the lifecycle scripts over two Cards, which clear the epoch,
  the projections of coordinated transactions, expiry with a credential.
* The project board's outbox, which has the claim and lease pattern of the coordinate
  queue, and its local store.
* Host relay supervision and the Data Bus client: state of one process that no
  restart keeps. `Coordinate` uses what a caller of the client may rely on.

Left out because nothing interleaves or survives: policy evaluation, registries and
discovery, encoding of wire messages, A2A and MCP adapters, SQLite index and key store
access, the web user interface, the command line tools, packages without code.

The composition of single Cards, groups, versions and serving in one model is out of
TLC's reach: each of them alone has hundreds of thousands of states. They meet at
`Decide`, `PortAnswers`, `LocalWrite` and `OrdinaryCommit`, which stand for each other's
module.
