--------------------------- MODULE DurableDecision ---------------------------
(***************************************************************************)
(* The durable decision log of service_foundation/coordination: one ledger *)
(* row per transaction (PostgresDecisionStore), the Coordinator operations *)
(* that any number of request and recovery workers run over it, and the    *)
(* participants they call.                                                 *)
(*                                                                         *)
(* Every store operation is one database transaction and one step here.    *)
(* Everything a worker does between two store operations is interleaved:   *)
(* its copy of the row grows stale, its calls are executed late, twice or  *)
(* never, their replies are lost, and it may die at any point.             *)
(*                                                                         *)
(* A participant is external to this package.  It is modelled by the       *)
(* Participant protocol (prepare is replayed, finish is idempotent, an     *)
(* abort of a transaction never staged leaves a tombstone).                *)
(***************************************************************************)
EXTENDS Naturals, FiniteSets

CONSTANTS Txns,          \* transaction identities
          Participants,  \* intent.participants, the same for every transaction
          Workers,       \* concurrent callers of the Coordinator
          Witnesses,     \* commit witness digests
          NoWitness,     \* the empty witness digest
          NoParticipant, \* target of a worker that is not calling anyone
          Expiries,      \* expiry times a draft may carry
          MaxTime        \* bound on the database clock

ASSUME WitnessAssumption == NoWitness \notin Witnesses
ASSUME TargetAssumption == NoParticipant \notin Participants
ASSUME ExpiryAssumption == Expiries \subseteq Nat
ASSUME MaxTimeAssumption == MaxTime \in Nat

VARIABLES row,      \* row[t]: the ledger row of t
          expires,  \* expires[t]: its expires_at_epoch
          now,      \* PostgreSQL's clock_timestamp(), in seconds
          held,     \* held[t][p]: what participant p durably holds for t
          pc,       \* pc[w]: where worker w is inside a Coordinator operation
          txn,      \* txn[w]: the transaction it works on
          rec,      \* rec[w]: its copy of the row (a DecisionRecord)
          target,   \* target[w]: the participant it is calling
          want,     \* want[w]: the decision it asks for
          stray,    \* participant calls whose caller gave up on them
          told      \* decisions that Coordinator.decide has returned

ledger == <<row, expires, now>>
worker == <<pc, txn, rec, target, want>>
vars == <<row, expires, now, held, pc, txn, rec, target, want, stray, told>>

TERMINAL == {"committed", "aborted"}
States == {"none", "preparing", "prepared", "committed", "aborted"}
Outcomes == {"none", "prepared", "committed", "aborted"}
Stages == {"idle", "preparing", "awaitPrepare", "gotPrepare", "deciding",
           "recovering", "toFinish", "finishing", "awaitFinish", "gotFinish"}

Rows == [state : States, prepared : SUBSET Participants,
         finished : SUBSET Participants, witness : Witnesses \cup {NoWitness}]
Wants == [state : TERMINAL, witness : Witnesses \cup {NoWitness}]
Answers == [t : Txns, state : TERMINAL, witness : Witnesses \cup {NoWitness}]
Calls == [kind : {"prepare"} \cup TERMINAL, t : Txns, p : Participants]

\* There is no row: `read` returns None.
NoRow == [state |-> "none", prepared |-> {}, finished |-> {}, witness |-> NoWitness]

\* A worker that is not deciding asks for nothing.
NoWant == [state |-> "aborted", witness |-> NoWitness]

\* DecisionRecord.terminal
Terminal(r) == r.state \in TERMINAL

\* Mutant: a decided row counts as closed before every participant finished.
InDoubtUndecidedOnly(r) == r.state \in {"preparing", "prepared"}

\* The WHERE clause of list_in_doubt: undecided, or decided and not finished by all.
InDoubt(r) == \/ r.state \in {"preparing", "prepared"}
              \/ Terminal(r) /\ r.finished # Participants

\* expires_at_epoch > clock_timestamp()
Live(t) == expires[t] > now

\* The answer `decide` gives from a terminal row, and its refusal otherwise.
Agrees(r, d) == r.state = d.state /\ (d.state = "committed" => r.witness = d.witness)
----------------------------------------------------------------------------
Init == /\ row = [t \in Txns |-> NoRow]
        /\ expires = [t \in Txns |-> 0]
        /\ now = 0
        /\ held = [t \in Txns |-> [p \in Participants |-> "none"]]
        /\ pc = [w \in Workers |-> "idle"]
        /\ txn \in [Workers -> Txns]
        /\ rec = [w \in Workers |-> NoRow]
        /\ target = [w \in Workers |-> NoParticipant]
        /\ want = [w \in Workers |-> NoWant]
        /\ stray = {}
        /\ told = {}

\* PostgreSQL's clock moves by itself.
Tick == /\ now < MaxTime
        /\ now' = now + 1
        /\ UNCHANGED <<row, expires, held, worker, stray, told>>

\* PostgresDecisionStore.begin: a new row, only while the draft is not expired.
Begin(t) == /\ row[t].state = "none"
            /\ \E e \in Expiries : e > now /\ expires' = [expires EXCEPT ![t] = e]
            /\ row' = [row EXCEPT ![t].state = "preparing"]
            /\ UNCHANGED <<now, held, worker, stray, told>>
----------------------------------------------------------------------------
\* The end of an operation, by a return or by an exception: its locals are gone.
Leave(w) == /\ pc' = [pc EXCEPT ![w] = "idle"]
            /\ rec' = [rec EXCEPT ![w] = NoRow]
            /\ target' = [target EXCEPT ![w] = NoParticipant]
            /\ want' = [want EXCEPT ![w] = NoWant]
            /\ UNCHANGED txn

\* Coordinator.prepare_existing: a missing row is refused, a terminal one is returned.
PrepareExisting(w, t) ==
    /\ pc[w] = "idle"
    /\ row[t].state \in {"preparing", "prepared"}
    /\ pc' = [pc EXCEPT ![w] = "preparing"]
    /\ txn' = [txn EXCEPT ![w] = t]
    /\ rec' = [rec EXCEPT ![w] = row[t]]
    /\ UNCHANGED <<ledger, held, target, want, stray, told>>

\* One iteration of its loop: call a participant the copy does not show as prepared.
CallPrepare(w, p) ==
    /\ pc[w] = "preparing"
    /\ p \notin rec[w].prepared
    /\ pc' = [pc EXCEPT ![w] = "awaitPrepare"]
    /\ target' = [target EXCEPT ![w] = p]
    /\ UNCHANGED <<ledger, held, txn, rec, want, stray, told>>

\* The loop is over.
PrepareDone(w) == /\ pc[w] = "preparing"
                  /\ rec[w].prepared = Participants
                  /\ Leave(w)
                  /\ UNCHANGED <<ledger, held, stray, told>>

\* Mutant: a late prepare stages again after the abort.
StageAfterAbort(t, p) == /\ held[t][p] # "committed"
                         /\ held' = [held EXCEPT ![t][p] = "prepared"]

\* Participant.prepare: stage, or replay the staged receipt; a decided or
\* tombstoned transaction is never staged.
Stage(t, p) == /\ held[t][p] \in {"none", "prepared"}
               /\ held' = [held EXCEPT ![t][p] = "prepared"]

AnswerPrepare(w) ==
    /\ pc[w] = "awaitPrepare"
    /\ \/ /\ Stage(txn[w], target[w])
          /\ pc' = [pc EXCEPT ![w] = "gotPrepare"]
          /\ UNCHANGED <<txn, rec, target, want>>
       \/ /\ held[txn[w]][target[w]] \in TERMINAL
          /\ Leave(w)
          /\ UNCHANGED held
    /\ UNCHANGED <<ledger, stray, told>>

\* Mutants: prepared after any receipt; one receipt counted for everybody.
MergePreparedEarly(r, p) == [r EXCEPT !.prepared = @ \cup {p}, !.state = "prepared"]
MergePreparedAll(r, p) == [r EXCEPT !.prepared = Participants, !.state = "prepared"]

\* The UPDATE of record_prepared: merge one receipt into a preparing, unexpired row.
MergePrepared(r, p) ==
    [r EXCEPT !.prepared = @ \cup {p},
              !.state = IF r.prepared \cup {p} = Participants THEN "prepared" ELSE "preparing"]

\* The worker's copy becomes the row the store returned, and its loop goes on.
Reload(w, r, stage) == /\ rec' = [rec EXCEPT ![w] = r]
                       /\ pc' = [pc EXCEPT ![w] = stage]
                       /\ target' = [target EXCEPT ![w] = NoParticipant]
                       /\ UNCHANGED <<txn, want>>

\* PostgresDecisionStore.record_prepared: merged, found already merged, or late.
RecordPrepared(w) ==
    LET t == txn[w]  r == row[t]  p == target[w] IN
    /\ pc[w] = "gotPrepare"
    /\ \/ /\ r.state = "preparing" /\ p \notin r.prepared /\ Live(t)
          /\ row' = [row EXCEPT ![t] = MergePrepared(r, p)]
          /\ Reload(w, MergePrepared(r, p), "preparing")
       \/ /\ p \in r.prepared
          /\ Reload(w, r, "preparing")
          /\ UNCHANGED row
       \/ /\ p \notin r.prepared /\ ~(r.state = "preparing" /\ Live(t))
          /\ Leave(w)
          /\ UNCHANGED row
    /\ UNCHANGED <<expires, now, held, stray, told>>
----------------------------------------------------------------------------
\* Coordinator.decide up to the call of the store: a terminal row answers at
\* once or refuses, a commit needs every participant in the copy just read.
DecideRead(w, t, d) ==
    /\ pc[w] = "idle"
    /\ row[t].state # "none"
    /\ \/ /\ Terminal(row[t]) /\ Agrees(row[t], d)
          /\ told' = told \cup {[t |-> t, state |-> row[t].state, witness |-> row[t].witness]}
          /\ UNCHANGED worker
       \/ /\ ~Terminal(row[t])
          /\ d.state = "committed" => row[t].prepared = Participants /\ d.witness # NoWitness
          /\ pc' = [pc EXCEPT ![w] = "deciding"]
          /\ txn' = [txn EXCEPT ![w] = t]
          /\ want' = [want EXCEPT ![w] = d]
          /\ UNCHANGED <<rec, target, told>>
    /\ UNCHANGED <<ledger, held, stray>>

\* The row `decide` writes; an abort carries no witness.
Decided(r, d) ==
    [r EXCEPT !.state = d.state,
              !.witness = IF d.state = "committed" THEN d.witness ELSE NoWitness]

\* The store's conditions on the row it locked: aborting is always possible,
\* committing needs every receipt and an unexpired row.
MayDecide(t, d) == d.state = "committed" => /\ row[t].state = "prepared"
                                            /\ row[t].prepared = Participants
                                            /\ Live(t)

\* Mutant: the row is written without looking whether it is already decided.
DecideStoreOverwrites(w) ==
    LET t == txn[w]  d == want[w] IN
    /\ pc[w] = "deciding"
    /\ MayDecide(t, d)
    /\ row' = [row EXCEPT ![t] = Decided(row[t], d)]
    /\ told' = told \cup {[t |-> t, state |-> row'[t].state, witness |-> row'[t].witness]}
    /\ Leave(w)
    /\ UNCHANGED <<expires, now, held, stray>>

\* PostgresDecisionStore.decide, with the comparison of its result.
DecideStore(w) ==
    LET t == txn[w]  d == want[w] IN
    /\ pc[w] = "deciding"
    /\ \/ /\ ~Terminal(row[t]) /\ MayDecide(t, d)
          /\ row' = [row EXCEPT ![t] = Decided(row[t], d)]
       \/ /\ Terminal(row[t]) \/ ~MayDecide(t, d)
          /\ UNCHANGED row
    /\ told' = IF Terminal(row'[t]) /\ Agrees(row'[t], d)
                 THEN told \cup {[t |-> t, state |-> row'[t].state, witness |-> row'[t].witness]}
                 ELSE told
    /\ Leave(w)
    /\ UNCHANGED <<expires, now, held, stray>>
----------------------------------------------------------------------------
\* Coordinator.finish: read the row again, refuse an undecided one.
FinishRead(w, t) ==
    /\ pc[w] \in {"idle", "toFinish"}
    /\ pc[w] = "toFinish" => t = txn[w]
    /\ Terminal(row[t])
    /\ pc' = [pc EXCEPT ![w] = "finishing"]
    /\ txn' = [txn EXCEPT ![w] = t]
    /\ rec' = [rec EXCEPT ![w] = row[t]]
    /\ UNCHANGED <<ledger, held, target, want, stray, told>>

\* One iteration of its loop, with the decision of the copy.
CallFinish(w, p) ==
    /\ pc[w] = "finishing"
    /\ p \notin rec[w].finished
    /\ pc' = [pc EXCEPT ![w] = "awaitFinish"]
    /\ target' = [target EXCEPT ![w] = p]
    /\ UNCHANGED <<ledger, held, txn, rec, want, stray, told>>

FinishDone(w) == /\ pc[w] = "finishing"
                 /\ rec[w].finished = Participants
                 /\ Leave(w)
                 /\ UNCHANGED <<ledger, held, stray, told>>

\* Participant.finish: a commit needs the staged side, an abort leaves a
\* tombstone where nothing was staged, and both are idempotent.
Materialize(t, p, d) ==
    /\ held[t][p] \in IF d = "committed" THEN {"prepared", "committed"}
                                         ELSE {"none", "prepared", "aborted"}
    /\ held' = [held EXCEPT ![t][p] = d]

AnswerFinish(w) ==
    /\ pc[w] = "awaitFinish"
    /\ Materialize(txn[w], target[w], rec[w].state)
    /\ pc' = [pc EXCEPT ![w] = "gotFinish"]
    /\ UNCHANGED <<ledger, txn, rec, target, want, stray, told>>

\* PostgresDecisionStore.record_finished: merge the receipt, or find it there.
RecordFinished(w) ==
    LET t == txn[w]  done == [row[t] EXCEPT !.finished = @ \cup {target[w]}] IN
    /\ pc[w] = "gotFinish"
    /\ Terminal(row[t])
    /\ row' = [row EXCEPT ![t] = done]
    /\ Reload(w, done, "finishing")
    /\ UNCHANGED <<expires, now, held, stray, told>>
----------------------------------------------------------------------------
\* recover / recover_page list a row; _recover_rows gets to it later.
ListInDoubt(w, t) ==
    /\ pc[w] = "idle"
    /\ InDoubt(row[t])
    /\ pc' = [pc EXCEPT ![w] = "recovering"]
    /\ txn' = [txn EXCEPT ![w] = t]
    /\ rec' = [rec EXCEPT ![w] = row[t]]
    /\ UNCHANGED <<ledger, held, target, want, stray, told>>

\* The row abort_expired writes; the witness column keeps its empty default.
Expired(r) == [r EXCEPT !.state = "aborted"]

\* Mutant: an expired row is aborted on the evidence of the listed copy.
RecoverRowStale(w) ==
    LET t == txn[w] IN
    /\ pc[w] = "recovering"
    /\ \/ /\ Terminal(rec[w])
          /\ Reload(w, NoRow, "toFinish")
          /\ UNCHANGED row
       \/ /\ ~Terminal(rec[w]) /\ ~Live(t)
          /\ row' = [row EXCEPT ![t] = Expired(row[t])]
          /\ Reload(w, NoRow, "toFinish")
    /\ UNCHANGED <<expires, now, held, stray, told>>

\* _recover_rows on one row: finish a terminal copy, otherwise abort_expired,
\* which answers a terminal row, aborts an expired one and refuses the rest.
RecoverRow(w) ==
    LET t == txn[w] IN
    /\ pc[w] = "recovering"
    /\ \/ /\ Terminal(rec[w]) \/ Terminal(row[t])
          /\ Reload(w, NoRow, "toFinish")
          /\ UNCHANGED row
       \/ /\ ~Terminal(row[t]) /\ ~Live(t)
          /\ row' = [row EXCEPT ![t] = Expired(row[t])]
          /\ Reload(w, NoRow, "toFinish")
       \/ /\ ~Terminal(row[t]) /\ Live(t)
          /\ Leave(w)
          /\ UNCHANGED row
    /\ UNCHANGED <<expires, now, held, stray, told>>
----------------------------------------------------------------------------
\* The call a waiting worker has outstanding.
Outstanding(w) == CASE pc[w] = "awaitPrepare" -> {[kind |-> "prepare", t |-> txn[w], p |-> target[w]]}
                    [] pc[w] = "awaitFinish" -> {[kind |-> rec[w].state, t |-> txn[w], p |-> target[w]]}
                    [] OTHER -> {}

\* A worker dies, is cancelled, times out or is refused for a reason of the
\* participant's own.  Its outstanding call may still arrive.
Fail(w) == /\ pc[w] # "idle"
           /\ Leave(w)
           /\ stray' = stray \cup Outstanding(w)
           /\ UNCHANGED <<ledger, held, told>>

\* A call nobody waits for is executed, late and possibly again.
Deliver(c) == /\ c \in stray
              /\ IF c.kind = "prepare" THEN Stage(c.t, c.p) ELSE Materialize(c.t, c.p, c.kind)
              /\ UNCHANGED <<ledger, worker, stray, told>>
----------------------------------------------------------------------------
WorkerStep(w) == \/ \E t \in Txns : PrepareExisting(w, t) \/ FinishRead(w, t) \/ ListInDoubt(w, t)
                 \/ \E t \in Txns, d \in Wants : DecideRead(w, t, d)
                 \/ \E p \in Participants : CallPrepare(w, p) \/ CallFinish(w, p)
                 \/ AnswerPrepare(w) \/ RecordPrepared(w) \/ PrepareDone(w)
                 \/ DecideStore(w)
                 \/ AnswerFinish(w) \/ RecordFinished(w) \/ FinishDone(w)
                 \/ RecoverRow(w)
                 \/ Fail(w)

Next == \/ Tick
        \/ \E t \in Txns : Begin(t)
        \/ \E w \in Workers : WorkerStep(w)
        \/ \E c \in stray : Deliver(c)

Spec == Init /\ [][Next]_vars

\* What the hosting service keeps doing: the clock runs, a recovery worker
\* keeps listing and finishing rows, and a step of it that is retried for ever
\* succeeds in the end.
RecoveryFairness(w) ==
    /\ WF_vars(Tick)
    /\ \A t \in Txns : SF_vars(ListInDoubt(w, t))
                     /\ SF_vars(pc[w] = "toFinish" /\ FinishRead(w, t))
    /\ SF_vars(RecoverRow(w))
    /\ \A p \in Participants : SF_vars(CallFinish(w, p))
    /\ SF_vars(AnswerFinish(w))
    /\ SF_vars(RecordFinished(w))
    /\ WF_vars(\/ PrepareDone(w) \/ FinishDone(w) \/ DecideStore(w)
               \/ AnswerPrepare(w) \/ RecordPrepared(w)
               \/ \E p \in Participants : CallPrepare(w, p))
----------------------------------------------------------------------------
TypeOK == /\ row \in [Txns -> Rows]
          /\ expires \in [Txns -> Nat]
          /\ now \in Nat
          /\ held \in [Txns -> [Participants -> Outcomes]]
          /\ pc \in [Workers -> Stages]
          /\ txn \in [Workers -> Txns]
          /\ rec \in [Workers -> Rows]
          /\ target \in [Workers -> Participants \cup {NoParticipant}]
          /\ want \in [Workers -> Wants]
          /\ stray \subseteq Calls
          /\ told \subseteq Answers

\* Two participants never end a transaction differently, whatever calls were
\* lost, repeated or late (Coordinator.finish, Participant.finish).
Atomicity == \A t \in Txns, p, q \in Participants :
                ~(held[t][p] = "committed" /\ held[t][q] = "aborted")

\* A participant has committed or aborted only what the ledger has decided, so
\* a worker never acts on a decision from a copy that the row does not have.
OutcomeIsDecision == \A t \in Txns, p \in Participants :
                        held[t][p] \in TERMINAL => row[t].state = held[t][p]

\* A commit is recorded only over state every participant still holds: an abort
\* or a tombstone can never have overtaken a recorded preparation.
CommitIsHeld == \A t \in Txns : row[t].state = "committed" =>
                   \A p \in Participants : held[t][p] \in {"prepared", "committed"}

\* Once the ledger shows a transaction finished by a participant, that
\* participant is not left holding a prepared fence, not even by a prepare call
\* that arrives after the abort (the lost-prepare-reply case).
FinishedMeansClosed == \A t \in Txns : \A p \in row[t].finished : held[t][p] = row[t].state

\* Every caller that `decide` has answered for a transaction was given the same
\* decision and, for a commit, the same witness.
AnswersAgree == \A a, b \in told : a.t = b.t => a = b

\* A decided row keeps its decision and its witness for ever, and no recorded
\* receipt disappears from a row.
RowOnlyGrows ==
    [][\A t \in Txns : /\ Terminal(row[t]) => /\ row'[t].state = row[t].state
                                              /\ row'[t].witness = row[t].witness
                       /\ row[t].prepared \subseteq row'[t].prepared
                       /\ row[t].finished \subseteq row'[t].finished]_vars

\* The ledger's part of the inductive invariant: a row that is prepared or
\* committed has every receipt, a recorded receipt stands for state the
\* participant really took, outcomes follow the row, a finish record is true.
LedgerInv ==
    \A t \in Txns :
        /\ row[t].state \in {"prepared", "committed"} => row[t].prepared = Participants
        /\ \A p \in row[t].prepared : held[t][p] # "none"
        /\ \A p \in row[t].finished : held[t][p] = row[t].state /\ Terminal(row[t])

\* What a worker inside an operation may rely on although its copy is stale.
WorkerOK(w) ==
    /\ pc[w] # "idle" => row[txn[w]].state # "none"
    /\ pc[w] \in {"awaitPrepare", "gotPrepare", "awaitFinish", "gotFinish"} => target[w] \in Participants
    /\ pc[w] = "gotPrepare" => held[txn[w]][target[w]] # "none"
    /\ pc[w] \in {"recovering", "finishing", "awaitFinish", "gotFinish"} /\ Terminal(rec[w]) =>
          rec[w].state = row[txn[w]].state
    /\ pc[w] \in {"finishing", "awaitFinish", "gotFinish"} => Terminal(rec[w])
    /\ pc[w] = "gotFinish" => held[txn[w]][target[w]] = row[txn[w]].state

WorkerInv == \A w \in Workers : WorkerOK(w)

\* Late calls belong to begun transactions and carry their recorded decision.
StrayInv == \A c \in stray : /\ row[c.t].state # "none"
                             /\ c.kind \in TERMINAL => row[c.t].state = c.kind

\* Every answer of `decide` is what the row says now.
ToldInv == \A a \in told : row[a.t].state = a.state /\ row[a.t].witness = a.witness

\* The inductive invariant: together with the types it is kept by every step of
\* the coordinator, of the store and of the participants they call.
IndInv == TypeOK /\ LedgerInv /\ OutcomeIsDecision /\ WorkerInv /\ StrayInv /\ ToldInv

\* What the ledger and the participants hold, seen as the abstract protocol.
Decision == [t \in Txns |-> IF row[t].state \in {"preparing", "prepared"} THEN "undecided"
                                                                          ELSE row[t].state]
AC == INSTANCE AtomicCommit WITH decision <- Decision, outcome <- held

\* The ledger, its workers and their unreliable calls implement atomic commit.
ImplementsAtomicCommit == AC!Spec

\* Every transaction that began is eventually decided and finished by every
\* participant: recovery closes what crashed or abandoned workers left open.
EventuallyClosed == \A t \in Txns :
    row[t].state # "none" ~> (Terminal(row[t]) /\ row[t].finished = Participants)
=============================================================================
