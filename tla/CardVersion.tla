----------------------------- MODULE CardVersion -----------------------------
(***************************************************************************)
(* STAGE, PUBLISH and ROLLBACK of Card versions, and the compensation of a *)
(* published one: a group of Cards moves to its next versions with no      *)
(* decision record but the transaction's marker and the Cards' pointers.   *)
(*                                                                         *)
(* A call holds its transaction's section and every member's and read      *)
(* Card's lock.  Every durable write is a step and a call may stop after   *)
(* any of them (a crash, a cancellation or a refusal), so what a later     *)
(* call meets is any prefix of an earlier one.  Calls arrive in any order  *)
(* and any number of times.                                                *)
(***************************************************************************)
EXTENDS Naturals, FiniteSets, FiniteSetsExt

CONSTANTS Cards,    \* numbered in the order their locks are taken
          Txns, NoTxn,
          Members, Reads,  \* the Cards a transaction writes, and those it only reads
          Effects,  \* the number of its effects
          Undoes,   \* the transaction it compensates, or NoTxn
          MaxLocal  \* bound on the versions of a Card that no transaction wrote

ASSUME VersionAssumption ==
    /\ Cards \subseteq Nat /\ IsFiniteSet(Cards)
    /\ NoTxn \notin Txns /\ Undoes \in [Txns -> Txns \cup {NoTxn}]
    /\ \A t \in Txns : Members[t] # {} /\ Members[t] \cup Reads[t] \subseteq Cards /\ Members[t] \cap Reads[t] = {}
    /\ \A t \in Txns : Undoes[t] # NoTxn =>
         Members[t] = Members[Undoes[t]] /\ Reads[t] = {} /\ Effects[t] = 0 /\ Undoes[Undoes[t]] = NoTxn
    /\ Effects \in [Txns -> Nat] /\ MaxLocal \in Nat

VARIABLES
    current,  \* the version each Card's pointer names
    files, fenced,  \* the revision files there are, and the sidecars beside them
    ever,     \* (history) the versions that have been current
    slot,     \* a Card's base reservation: transaction and base
    marker,   \* the transaction's marker
    plan,     \* the base versions the transaction was authorized against
    eff,      \* an effect's state with its own store: "none", "prepared" or "applied"
    pc, todo, \* the step of the transaction's running call, the members it has left
    undo,     \* the step of the compensation call
    said,     \* (history) "published" once a call answered so, "denied" if a later answer differs
    rd        \* a reader that takes no lock

disk == <<files, fenced, slot>>
cards == <<current, ever>>
vars == <<current, files, fenced, ever, slot, marker, plan, eff, pc, todo, undo, said, rd>>

Absent == [txn |-> NoTxn, ver |-> 0]
NoSlot == [txn |-> NoTxn, base |-> Absent]
NoMarker == [state |-> "none", base |-> <<>>, reads |-> <<>>, done |-> 0]
NoRead == [at |-> "idle", card |-> 0, name |-> Absent]
NoPlan == <<>>
Locks(t) == Members[t] \cup Reads[t]
\* The version t writes on c, and whether c's pointer names it.
Name(t, c) == [txn |-> t, ver |-> marker[t].base[c].ver + 1]
Own(t, c) == current[c] = Name(t, c)
EffectsComplete(t) == marker[t].done = Effects[t]
First(t) == Min(todo[t])

Init == /\ current \in [Cards -> {Absent, [txn |-> NoTxn, ver |-> 1]}]
        /\ ever = [c \in Cards |-> {current[c]} \ {Absent}] /\ files = ever
        /\ fenced = [c \in Cards |-> {}] /\ slot = [c \in Cards |-> NoSlot]
        /\ marker = [t \in Txns |-> NoMarker] /\ plan = [t \in Txns |-> NoPlan]
        /\ eff = [t \in Txns |-> [i \in 1..Effects[t] |-> "none"]]
        /\ pc = [t \in Txns |-> "idle"] /\ todo = [t \in Txns |-> {}]
        /\ undo = [t \in Txns |-> "idle"] /\ said = [t \in Txns |-> "none"]
        /\ rd = NoRead
----------------------------------------------------------------------------
Held(c) == \E u \in Txns : pc[u] # "idle" /\ c \in Locks(u)
\* The sections a call takes are free.
Enter(t) == pc[t] = "idle" /\ \A c \in Locks(t) : ~Held(c)

Go(t, step, left) == pc' = [pc EXCEPT ![t] = step] /\ todo' = [todo EXCEPT ![t] = left]
\* The loop over the members: stay at the step until the last one, then go to the next.
Loop(t, step, next) == IF todo[t] = {First(t)} THEN Go(t, next, Members[t])
                       ELSE Go(t, step, todo[t] \ {First(t)})

\* The call is refused, raises, or its process dies: what it has written stays.
Stop(t) == /\ pc[t] # "idle" \/ undo[t] # "idle"
           /\ Go(t, "idle", {}) /\ undo' = [undo EXCEPT ![t] = "idle"]
           /\ UNCHANGED <<cards, disk, marker, plan, eff, said, rd>>

\* finalize_current_version does not refuse: what c's pointer names is published and its effects are recorded.
Settled(c) == LET p == current[c].txn
              IN  p # NoTxn /\ marker[p].state \in {"staged", "published"} => marker[p].state = "published" /\ EffectsComplete(p)

\* finalize_current_version of a read Card: a publication that stopped before its marker is marked (and its
\* pending effects refuse the call).  STAGE on a member and any other pointer writer come to it only behind
\* assert_base_available, which refuses while p is staged: p's reservation stands until p is published.
Finalize(t, c) == LET p == current[c].txn
                  IN  /\ Enter(t) /\ c \in Reads[t] /\ marker[t].state \in {"none", "staged"}
                      /\ p # NoTxn /\ marker[p].state = "staged" /\ \A m \in Members[p] : Own(p, m)
                      /\ marker' = [marker EXCEPT ![p].state = "published"]
                      /\ UNCHANGED <<cards, disk, plan, eff, pc, todo, undo, said, rd>>

\* assert_base_available
Available(t, c) == slot[c].txn \in {NoTxn, t}

\* Mutant: a writer that reads no reservation.
LocalWriteUnreserved(c) == /\ ~Held(c) /\ Settled(c) /\ Cardinality({n \in ever[c] : n.txn = NoTxn}) < MaxLocal
                           /\ LET n == [txn |-> NoTxn, ver |-> current[c].ver + 1]
                              IN  /\ current' = [current EXCEPT ![c] = n]
                                  /\ ever' = [ever EXCEPT ![c] = @ \cup {n}]
                                  /\ files' = [files EXCEPT ![c] = @ \cup {n}]
                           /\ UNCHANGED <<fenced, slot, marker, plan, eff, pc, todo, undo, said, rd>>

\* A writer of the Hub that is no transaction here: its revision, then its pointer.
LocalWrite(c) == /\ ~Held(c) /\ slot[c] = NoSlot /\ Settled(c) /\ Cardinality({n \in ever[c] : n.txn = NoTxn}) < MaxLocal
                 /\ LET n == [txn |-> NoTxn, ver |-> current[c].ver + 1]
                    IN  /\ current' = [current EXCEPT ![c] = n]
                        /\ ever' = [ever EXCEPT ![c] = @ \cup {n}]
                        /\ files' = [files EXCEPT ![c] = @ \cup {n}]
                 /\ UNCHANGED <<fenced, slot, marker, plan, eff, pc, todo, undo, said, rd>>
----------------------------------------------------------------------------
(* STAGE.                                                                  *)

Bases(t) == [c \in Members[t] |-> current[c].ver]

\* Mutant: a compensation stages over what is current, as an upsert does.
AnyBase(t) == TRUE
\* A compensation stages over the version its plan named.
PlannedBase(t) == Undoes[t] # NoTxn => \A c \in Members[t] : current[c].ver = plan[Undoes[t]][c] + 1

\* card_version_stage with no marker: reads and bases are checked, then the marker is written, naming every file.
StageFresh(t) ==
    /\ Enter(t) /\ marker[t].state = "none"
    /\ undo[t] = (IF Undoes[t] = NoTxn THEN "idle" ELSE "stage") /\ PlannedBase(t)
    /\ \A c \in Reads[t] : Settled(c) /\ current[c] # Absent
    /\ \A c \in Members[t] : /\ Available(t, c) /\ Settled(c)
                             /\ current[c].txn # t
    /\ plan[t] \in {NoPlan, Bases(t)} /\ plan' = [plan EXCEPT ![t] = Bases(t)]
    /\ marker' = [marker EXCEPT ![t] = [state |-> "staging", base |-> [c \in Members[t] |-> current[c]],
                                        reads |-> [c \in Reads[t] |-> current[c].ver], done |-> 0]]
    /\ Go(t, "reserve", Members[t])
    /\ UNCHANGED <<cards, disk, eff, undo, said, rd>>

\* A retry of what an earlier STAGE left.
StageAgain(t) == /\ Enter(t) /\ Undoes[t] = NoTxn /\ marker[t].state \in {"staging", "staged"}
                 /\ Go(t, "reserve", Members[t])
                 /\ UNCHANGED <<cards, disk, marker, plan, eff, undo, said, rd>>

\* _reserve_card_version_bases
Reserve(t) == LET c == First(t)
                  mine == [txn |-> t, base |-> marker[t].base[c]]
              IN  /\ pc[t] = "reserve" /\ current[c] = marker[t].base[c] /\ slot[c] \in {NoSlot, mine}
                  /\ slot' = [slot EXCEPT ![c] = mine]
                  /\ Loop(t, "reserve", "prepare")
                  /\ UNCHANGED <<cards, files, fenced, marker, plan, eff, undo, said, rd>>

\* A retry of a staged transaction answers once every file is there.
StagedAnswer(t) == /\ pc[t] = "prepare" /\ marker[t].state = "staged"
                   /\ \A c \in Members[t] : Name(t, c) \in files[c]
                   /\ Go(t, "idle", {})
                   /\ UNCHANGED <<cards, disk, marker, plan, eff, undo, said, rd>>

\* prepare(): the effects one after the other; a prepared one stays prepared.
Prepare(t, i) == /\ pc[t] = "prepare" /\ marker[t].state = "staging"
                 /\ eff[t][i] = "none" /\ \A j \in 1..(i - 1) : eff[t][j] # "none"
                 /\ eff' = [eff EXCEPT ![t][i] = "prepared"]
                 /\ UNCHANGED <<cards, disk, marker, plan, pc, todo, undo, said, rd>>

\* _write_staged_versions: the sidecar before the file.
WriteSidecar(t) == /\ \/ pc[t] = "sidecar"
                      \/ /\ pc[t] = "prepare" /\ marker[t].state = "staging"
                         /\ \A i \in 1..Effects[t] : eff[t][i] # "none"
                   /\ fenced' = [fenced EXCEPT ![First(t)] = @ \cup {Name(t, First(t))}]
                   /\ Go(t, "revision", todo[t])
                   /\ UNCHANGED <<cards, files, slot, marker, plan, eff, undo, said, rd>>

WriteRevision(t) == /\ pc[t] = "revision"
                    /\ files' = [files EXCEPT ![First(t)] = @ \cup {Name(t, First(t))}]
                    /\ Loop(t, "sidecar", "stage")
                    /\ UNCHANGED <<cards, fenced, slot, marker, plan, eff, undo, said, rd>>

MarkStaged(t) == /\ pc[t] = "stage"
                 /\ marker' = [marker EXCEPT ![t].state = "staged"]
                 /\ Go(t, "idle", {})
                 /\ undo' = [undo EXCEPT ![t] = IF @ = "stage" THEN "publish" ELSE @]
                 /\ UNCHANGED <<cards, disk, plan, eff, said, rd>>
----------------------------------------------------------------------------
(* PUBLISH.                                                                *)

\* _check_reads
ReadsHold(t) == \A c \in Reads[t] : Settled(c) /\ current[c].ver = marker[t].reads[c]

\* The lost-update fence of one member: its own earlier write, or the base STAGE observed, which it claims.
BaseStands(t, c) == \/ Own(t, c)
                    \/ /\ current[c] = marker[t].base[c] /\ Settled(c)
                       /\ slot[c] \in {NoSlot, [txn |-> t, base |-> marker[t].base[c]]}

\* card_version_publish of a staged marker: every check before the first pointer.
StartPublish(t) == /\ Enter(t) /\ marker[t].state = "staged"
                   /\ ReadsHold(t) /\ \A c \in Members[t] : BaseStands(t, c)
                   /\ slot' = [c \in Cards |-> IF c \in Members[t] /\ ~Own(t, c)
                                               THEN [txn |-> t, base |-> marker[t].base[c]] ELSE slot[c]]
                   /\ Go(t, "advance", {c \in Members[t] : ~Own(t, c)})
                   /\ UNCHANGED <<cards, files, fenced, marker, plan, eff, undo, said, rd>>

Publish(t) == undo[t] = (IF Undoes[t] = NoTxn THEN "idle" ELSE "publish") /\ StartPublish(t)

\* advance_current, after assert_pointer_replaceable.
Advance(t) == LET c == First(t)
              IN  /\ pc[t] = "advance" /\ todo[t] # {} /\ Available(t, c) /\ Settled(c)
                  /\ current' = [current EXCEPT ![c] = Name(t, c)]
                  /\ ever' = [ever EXCEPT ![c] = @ \cup {Name(t, c)}]
                  /\ Go(t, "advance", todo[t] \ {c})
                  /\ UNCHANGED <<disk, marker, plan, eff, undo, said, rd>>

MarkPublished(t) == /\ pc[t] = "advance" /\ todo[t] = {}
                    /\ marker' = [marker EXCEPT ![t].state = "published"]
                    /\ Go(t, "effects", {})
                    /\ UNCHANGED <<cards, disk, plan, eff, undo, said, rd>>

\* PUBLISH or ROLLBACK of a published marker finishes it.
FinishPublished(t) == /\ Enter(t) /\ marker[t].state = "published"
                      /\ Undoes[t] # NoTxn => undo[t] = "publish"
                      /\ Go(t, "effects", {})
                      /\ UNCHANGED <<cards, disk, marker, plan, eff, undo, said, rd>>

\* _apply_once moves the effect's row only while the pointer names this version; its outcome is recorded next.
ApplyEffect(t) == LET i == marker[t].done + 1
                  IN  /\ pc[t] = "effects" /\ ~EffectsComplete(t) /\ eff[t][i] = "prepared"
                      /\ Own(t, Min(Members[t]))  \* its Card
                      /\ eff' = [eff EXCEPT ![t][i] = "applied"]
                      /\ UNCHANGED <<cards, disk, marker, plan, pc, todo, undo, said, rd>>

RecordEffect(t) == /\ pc[t] = "effects" /\ ~EffectsComplete(t) /\ eff[t][marker[t].done + 1] = "applied"
                   /\ marker' = [marker EXCEPT ![t].done = @ + 1]
                   /\ UNCHANGED <<cards, disk, plan, eff, pc, todo, undo, said, rd>>

\* _finish_published: sidecars, then slots, then the marker.
Unfence(t) == /\ \/ pc[t] = "unfence"
                 \/ pc[t] = "effects" /\ EffectsComplete(t)
              /\ LET left == IF pc[t] = "effects" THEN Members[t] ELSE todo[t]
                     c == Min(left)
                 IN  /\ fenced' = [fenced EXCEPT ![c] = @ \ {Name(t, c)}]
                     /\ IF left = {c} THEN Go(t, "free", Members[t]) ELSE Go(t, "unfence", left \ {c})
              /\ UNCHANGED <<cards, files, slot, marker, plan, eff, undo, said, rd>>

\* _release_card_version_bases
FreeBase(t) == LET c == First(t)
               IN  /\ pc[t] = "free"
                   /\ slot' = [slot EXCEPT ![c] = IF @.txn = t THEN NoSlot ELSE @]
                   /\ Loop(t, "free", "forget")
                   /\ UNCHANGED <<cards, files, fenced, marker, plan, eff, undo, said, rd>>

Told(t, published) == said' = [said EXCEPT ![t] = IF published THEN "published"
                                                  ELSE IF @ = "none" THEN "none" ELSE "denied"]

\* The marker is deleted last, and the call answers.
Forget(t) == /\ pc[t] = "forget"
             /\ Told(t, marker[t].state = "published")
             /\ marker' = [marker EXCEPT ![t] = NoMarker]
             /\ Go(t, "idle", {}) /\ undo' = [undo EXCEPT ![t] = "idle"]
             /\ UNCHANGED <<cards, disk, plan, eff, rd>>
----------------------------------------------------------------------------
(* ROLLBACK.                                                               *)

\* Mutant: the pointers are asked, not the version files.
RollbackUnknownByPointer(t) == /\ pc[t] = "idle" /\ marker[t].state = "none" /\ Undoes[t] = NoTxn
                               /\ Told(t, \A c \in Members[t] : current[c].txn = t)
                               /\ UNCHANGED <<cards, disk, marker, plan, eff, pc, todo, undo, rd>>

\* No marker: the version files the links name answer already_published, or else the transaction is unknown.
RollbackUnknown(t) == /\ pc[t] = "idle" /\ marker[t].state = "none" /\ Undoes[t] = NoTxn
                      /\ Told(t, plan[t] # NoPlan /\ \A c \in Members[t] : [txn |-> t, ver |-> plan[t][c] + 1] \in files[c])
                      /\ UNCHANGED <<cards, disk, marker, plan, eff, pc, todo, undo, rd>>

\* Mutant: a staged transaction is rolled back without a look at the pointers.
RollbackStaged(t) == /\ Enter(t) /\ Undoes[t] = NoTxn
                     /\ marker[t].state \in {"staging", "staged", "rolled_back"}
                     /\ Go(t, IF marker[t].state = "rolled_back" THEN "retire" ELSE "release", {})
                     /\ UNCHANGED <<cards, disk, marker, plan, eff, undo, said, rd>>

\* A staged transaction that no pointer names is rolled back, a cut rollback is run again.
Rollback(t) == /\ Enter(t) /\ Undoes[t] = NoTxn
               /\ \/ marker[t].state \in {"staging", "rolled_back"}
                  \/ marker[t].state = "staged" /\ \A c \in Members[t] : ~Own(t, c)
               /\ Go(t, IF marker[t].state = "rolled_back" THEN "retire" ELSE "release", {})
               /\ UNCHANGED <<cards, disk, marker, plan, eff, undo, said, rd>>

\* _release_and_forget: the prepared effects first.
ReleaseEffect(t, i) == /\ pc[t] = "release"
                       /\ eff[t][i] # "none" /\ \A j \in 1..(i - 1) : eff[t][j] = "none"
                       /\ eff' = [eff EXCEPT ![t][i] = "none"]
                       /\ UNCHANGED <<cards, disk, marker, plan, pc, todo, undo, said, rd>>

\* Mutant: nothing waits for the effects.
RetireAtOnce(t) == /\ pc[t] \in {"release", "retire"}
                   /\ marker' = [marker EXCEPT ![t].state = "rolled_back"]
                   /\ Go(t, "delete", Members[t])
                   /\ UNCHANGED <<cards, disk, plan, eff, undo, said, rd>>

\* The decision possibility is retired before anything is deleted.
Retire(t) == /\ \/ pc[t] = "retire"
                \/ pc[t] = "release" /\ \A i \in 1..Effects[t] : eff[t][i] = "none"
             /\ marker' = [marker EXCEPT ![t].state = "rolled_back"]
             /\ Go(t, "delete", Members[t])
             /\ UNCHANGED <<cards, disk, plan, eff, undo, said, rd>>

\* A file, then its sidecar.
DeleteRevision(t) == /\ pc[t] = "delete"
                     /\ files' = [files EXCEPT ![First(t)] = @ \ {Name(t, First(t))}]
                     /\ Go(t, "deletesidecar", todo[t])
                     /\ UNCHANGED <<cards, fenced, slot, marker, plan, eff, undo, said, rd>>

DeleteSidecar(t) == /\ pc[t] = "deletesidecar"
                    /\ fenced' = [fenced EXCEPT ![First(t)] = @ \ {Name(t, First(t))}]
                    /\ Loop(t, "delete", "free")
                    /\ UNCHANGED <<cards, files, slot, marker, plan, eff, undo, said, rd>>
----------------------------------------------------------------------------
(* Compensation: the plan under the Cards' locks, which are then released; *)
(* STAGE unless the marker is there; PUBLISH.                              *)

\* card_version_compensation_plan: every pointer names the version to undo, or its restored one.
Compensate(x) == LET t == Undoes[x]
                 IN  /\ t # NoTxn /\ undo[x] = "idle" /\ Enter(x) /\ plan[t] # NoPlan
                     /\ \A c \in Members[t] :
                          \/ current[c] = [txn |-> t, ver |-> plan[t][c] + 1] /\ plan[t][c] > 0
                          \/ current[c].txn = x
                     /\ \E c \in Members[t] : current[c].txn # x
                     /\ undo' = [undo EXCEPT ![x] = IF marker[x].state = "none" THEN "stage" ELSE "publish"]
                     /\ UNCHANGED <<cards, disk, marker, plan, eff, pc, todo, said, rd>>
----------------------------------------------------------------------------
(* A reader without a lock: read_current_authority.                        *)

\* What no transaction wrote is served at once.
ReadPointer(c) == /\ rd.at = "idle" /\ current[c].txn # NoTxn
                  /\ rd' = [at |-> "fence", card |-> c, name |-> current[c]]
                  /\ UNCHANGED <<cards, disk, marker, plan, eff, pc, todo, undo, said>>

\* Mutant: a pointer that names the version is enough.
CommittedByPointer(t) == marker[t].state \in {"none", "published", "staged"}

\* assert_current_version_readable, card_version_revision_committed, but for the second look at the pointer.
Committed(t) == marker[t].state = "none" \/ (marker[t].state \in {"published", "staged"} /\ EffectsComplete(t))

ReadFence == /\ rd.at = "fence"
             /\ LET t == rd.name.txn
                IN  rd' = IF ~Committed(t) THEN NoRead
                          ELSE [rd EXCEPT !.at = IF marker[t].state = "staged" THEN "again" ELSE "serve"]
             /\ UNCHANGED <<cards, disk, marker, plan, eff, pc, todo, undo, said>>

ReadAgain == /\ rd.at = "again"
             /\ rd' = IF current[rd.card] = rd.name THEN [rd EXCEPT !.at = "serve"] ELSE NoRead
             /\ UNCHANGED <<cards, disk, marker, plan, eff, pc, todo, undo, said>>

\* The revision's payload.
Serve == /\ rd.at = "serve"
         /\ rd' = NoRead
         /\ UNCHANGED <<cards, disk, marker, plan, eff, pc, todo, undo, said>>

TxnStep(t) == \/ StageFresh(t) \/ StageAgain(t) \/ Reserve(t) \/ StagedAnswer(t) \/ WriteSidecar(t)
              \/ WriteRevision(t) \/ MarkStaged(t)
              \/ Publish(t) \/ Advance(t) \/ MarkPublished(t) \/ FinishPublished(t) \/ ApplyEffect(t)
              \/ RecordEffect(t) \/ Unfence(t) \/ FreeBase(t) \/ Forget(t)
              \/ RollbackUnknown(t) \/ Rollback(t) \/ Retire(t) \/ DeleteRevision(t) \/ DeleteSidecar(t)
              \/ Compensate(t) \/ Stop(t)
              \/ \E i \in 1..Effects[t] : Prepare(t, i) \/ ReleaseEffect(t, i)
              \/ \E c \in Cards : Finalize(t, c)

Next == \/ \E t \in Txns : TxnStep(t)
        \/ \E c \in Cards : LocalWrite(c) \/ ReadPointer(c)
        \/ ReadFence \/ ReadAgain \/ Serve

Spec == Init /\ [][Next]_vars
----------------------------------------------------------------------------
Version == [txn : Txns \cup {NoTxn}, ver : 0..(MaxLocal + Cardinality(Txns))]
Steps == {"idle", "reserve", "prepare", "sidecar", "revision", "stage", "advance", "effects", "unfence", "free",
          "forget", "release", "retire", "delete", "deletesidecar"}

\* Every variable has its type.
TypeOK == /\ current \in [Cards -> Version]
          /\ \A c \in Cards : files[c] \cup fenced[c] \cup ever[c] \subseteq Version
          /\ slot \in [Cards -> [txn : Txns \cup {NoTxn}, base : Version]]
          /\ \A t \in Txns : marker[t].state \in {"none", "staging", "staged", "published", "rolled_back"}
          /\ \A t \in Txns : \A i \in 1..Effects[t] : eff[t][i] \in {"none", "prepared", "applied"}
          /\ pc \in [Txns -> Steps] /\ todo \in [Txns -> SUBSET Cards]
          /\ undo \in [Txns -> {"idle", "stage", "publish"}]
          /\ said \in [Txns -> {"none", "published", "denied"}]
          /\ rd \in [at : {"idle", "fence", "again", "serve"}, card : Cards \cup {0}, name : Version]

\* A version that was current keeps its file, through cut and repeated calls: ROLLBACK never deletes a published
\* version (card_version_rollback, _release_and_forget).
PublishedIsKept == \A c \in Cards : ever[c] \subseteq files[c]

\* Once one pointer of a group has moved, every other member still stands at the base STAGE observed or has moved
\* too, until every effect is recorded: no other writer comes between (card_version_reservation, finalize_current_version).
StartedPublicationCompletes ==
    \A t \in Txns :
      /\ marker[t].state = "staged" /\ (\E c \in Members[t] : Own(t, c))
         => \A c \in Members[t] : current[c] \in {Name(t, c), marker[t].base[c]}
      /\ marker[t].state = "published" /\ ~EffectsComplete(t) => \A c \in Members[t] : Own(t, c)

\* A reader without a lock serves a version only when every effect of its transaction is applied: a moved pointer
\* alone exposes nothing (assert_current_version_readable).
ServedIsFinal == rd.at = "serve" => \A i \in 1..Effects[rd.name.txn] : eff[rd.name.txn][i] = "applied"

\* A transaction without a marker has left nothing but published versions: no reservation, no sidecar, no stray
\* file, and its effects are all applied or none (_finish_published, _release_and_forget).
NothingRemains ==
    \A t \in Txns : marker[t].state = "none" =>
      /\ \A c \in Cards : slot[c].txn # t /\ \A n \in fenced[c] : n.txn # t
      /\ \A c \in Cards : \A n \in files[c] : n.txn = t => n \in ever[c]
      /\ \/ \A i \in 1..Effects[t] : eff[t][i] = "none"
         \/ \A i \in 1..Effects[t] : eff[t][i] = "applied"

\* Once PUBLISH or ROLLBACK answered that the transaction is published, no later ROLLBACK says otherwise
\* (card_version_rollback, _published_by_links).
PublishedIsFinal == \A t \in Txns : said[t] # "denied"

\* A compensation replaces exactly the version it undoes, never a successor's (compensate_card_version).
CompensatesExactly ==
    [][\A c \in Cards : LET x == current'[c].txn
                        IN  current'[c] # current[c] /\ x # NoTxn /\ Undoes[x] # NoTxn => current[c].txn = Undoes[x]]_vars

\* A transaction whose ROLLBACK began to release its effects is never published: "A cut during cleanup must never
\* let an old STAGED marker publish after ABORT" (_release_and_forget).
ReleasedIsNotPublished == \A t \in Txns : marker[t].state = "published" => \A i \in 1..Effects[t] : eff[t][i] # "none"
=============================================================================
