--------------------------- MODULE RecoveryProofs ---------------------------
(***************************************************************************)
(* What brings storage back into line after a failure.                     *)
(*                                                                         *)
(* Paged recovery (RecoveryPaging) never skips a row, for any number of    *)
(* rows, any page size and any number of pages of a pass.                  *)
(*                                                                         *)
(* The sweep of Card projections (CardServing): a Redis run that is        *)
(* recorded as swept holds nothing older than what was acknowledged, for   *)
(* any number of sweepers, revisions, mutations and runs, when             *)
(* read-throughs and repairs are prompt.                                   *)
(***************************************************************************)
EXTENDS RecoveryPaging, CardServing, FiniteSetTheorems, WellFoundedInduction, TLAPS

\* Every non-empty set of row ids has a first and a last one.
LEMMA Extremes ==
    ASSUME NEW rows, rows \subseteq Ids, rows # {}
    PROVE  /\ \E i \in rows : \A j \in rows : i <= j
           /\ \E i \in rows : \A j \in rows : j <= i
  <1>1. \A T \in SUBSET Nat : T # {} => \E x \in T : \A y \in T : x <= y
    <2>1. SUFFICES ASSUME NEW T \in SUBSET Nat, T # {} PROVE \E x \in T : \A y \in T : x <= y
      OBVIOUS
    <2>2. \E x \in T : \A y \in T : ~(<<y, x>> \in OpToRel(<, Nat))
      BY <2>1, WFMin, NatLessThanWellFounded, ZenonT(30)
    <2>3. PICK x \in T : \A y \in T : ~(<<y, x>> \in OpToRel(<, Nat))
      BY <2>2, ZenonT(30)
    <2>4. \A y \in T : ~(y < x)
      BY <2>1, <2>3, ZenonT(30) DEF OpToRel
    <2> QED BY <2>1, <2>4
  <1>2. rows \subseteq Nat
    BY PagingAssumption DEF Ids
  <1>3. \E i \in rows : \A j \in rows : i <= j
    BY <1>1, <1>2
  <1> DEFINE T == {N - k : k \in rows}
  <1>4. ASSUME NEW k \in rows PROVE N - k \in Nat
    BY PagingAssumption DEF Ids
  <1>5. T \subseteq Nat /\ T # {}
    BY <1>4
  <1>6. PICK x \in T : \A y \in T : x <= y
    BY <1>1, <1>5, ZenonT(30)
  <1>7. PICK i \in rows : x = N - i
    BY <1>6
  <1>8. \A j \in rows : N - i <= N - j
    BY <1>6, <1>7
  <1>9. \A j \in rows : j <= i
    BY <1>8, PagingAssumption DEF Ids
  <1> QED BY <1>3, <1>9

\* The rows of a page come before every row the page leaves out, so the last
\* row of the page is a cursor that skips none; and a page of a non-empty list
\* is not empty.
LEMMA PageFacts ==
    ASSUME NEW rows, rows \subseteq Ids
    PROVE  /\ Page(rows) \subseteq rows
           /\ Last(Page(rows)) \in 0..N
           /\ rows # Page(rows) => Last(Page(rows)) # 0
           /\ \A k \in rows \ Page(rows) : k > Last(Page(rows))
  <1> DEFINE P == Page(rows)
  <1>0. P \subseteq rows /\ N \in Nat /\ Limit \in Nat /\ Limit > 0
    BY PagingAssumption DEF Page
  <1>1. CASE rows = {}
    <2>1. P = {} /\ Last(P) = 0
      BY <1>0, <1>1 DEF Last
    <2> QED BY <1>0, <1>1, <2>1
  <1>2. CASE rows # {}
    <2>1. PICK m \in rows : \A j \in rows : m <= j
      BY <1>2, Extremes
    <2>2. {j \in rows : j < m} = {}
      <3>1. \A j \in rows : j \in Nat /\ m \in Nat /\ ~(j < m)
        BY <2>1, <1>0 DEF Ids
      <3> QED BY <3>1
    <2>3. m \in P
      BY <2>1, <2>2, <1>0, FS_EmptySet DEF Page
    <2>4. \E i \in P : \A j \in P : j <= i
      BY <1>0, <2>3, Extremes
    <2>5. Last(P) \in P /\ \A j \in P : j <= Last(P)
      BY <2>3, <2>4 DEF Last
    <2>6. Last(P) \in 1..N
      BY <1>0, <2>5, ZenonT(30) DEF Ids
    <2>7. ASSUME NEW k \in rows \ P, ~(k > Last(P)) PROVE FALSE
      <3> DEFINE A == {j \in rows : j < k}  B == {j \in rows : j < Last(P)}
      <3>1. k \in Nat /\ k < Last(P)
        BY <2>5, <2>6, <2>7, <1>0 DEF Ids
      <3>2. A \subseteq B
        <4>1. \A j \in rows : j < k => j < Last(P)
          BY <3>1, <2>6, <1>0 DEF Ids
        <4> QED BY <4>1
      <3>3. IsFiniteSet(B)
        <4>1. IsFiniteSet(1..N)
          BY <1>0, FS_Interval
        <4>2. B \in SUBSET (1..N)
          BY ZenonT(30) DEF Ids
        <4> QED BY <4>1, <4>2, FS_Subset, ZenonT(30)
      <3>4. Cardinality(A) <= Cardinality(B) /\ Cardinality(A) \in Nat /\ Cardinality(B) \in Nat
        BY <3>2, <3>3, FS_Subset, FS_CardinalityType
      <3>5. Cardinality(B) < Limit
        BY <2>5 DEF Page
      <3>6. Cardinality(A) < Limit
        BY <3>4, <3>5, <1>0
      <3>7. k \in P
        BY <3>6, <2>7 DEF Page
      <3> QED BY <3>7, <2>7
    <2> QED BY <1>0, <2>6, <2>7
  <1> QED BY <1>1, <1>2

\* The types the argument needs.
Types == /\ state \in [Ids -> {"none", "doubt", "closed"}]
         /\ cursor \in 0..N /\ at \in 0..N /\ next \in 0..N
         /\ pc \in {"idle", "list", "rows", "save"}
         /\ todo \subseteq Ids /\ due \subseteq Ids
         /\ more \in BOOLEAN

\* The inductive invariant: a row that is due has begun, and a page with rows
\* behind it hands on a cursor that is not the empty one.
PagingInv == /\ Types
             /\ NothingSkipped
             /\ \A i \in due : state[i] # "none"
             /\ pc = "rows" /\ more => next # 0

\* A pass that has not begun has skipped nothing.
LEMMA PagingStarts == PagingInit => PagingInv
  <1> SUFFICES ASSUME PagingInit PROVE PagingInv
    OBVIOUS
  <1>1. \A i \in due : i \in Ids /\ i > 0 /\ state[i] = "doubt"
    BY PagingAssumption DEF PagingInit, InDoubt, Ids
  <1>2. Types
    <2>1. state \in [Ids -> {"none", "doubt", "closed"}]
      BY DEF PagingInit
    <2>2. due \subseteq Ids
      BY <1>1
    <2>3. 0 \in 0..N
      BY PagingAssumption
    <2> QED BY <2>1, <2>2, <2>3, ZenonT(30) DEF PagingInit, Types
  <1> QED BY <1>1, <1>2 DEF PagingInit, PagingInv, NothingSkipped

\* Listing a page puts every row that is due on it or behind its last row.
LEMMA ListPageKeeps == PagingInv /\ ListPage => PagingInv'
  <1> SUFFICES ASSUME PagingInv, ListPage PROVE PagingInv'
    OBVIOUS
  <1> DEFINE rows == {i \in InDoubt : i > at}
  <1>1. rows \subseteq Ids
    BY DEF InDoubt
  <1>2. /\ Page(rows) \subseteq rows
        /\ Last(Page(rows)) \in 0..N
        /\ rows # Page(rows) => Last(Page(rows)) # 0
        /\ \A k \in rows \ Page(rows) : k > Last(Page(rows))
    BY <1>1, PageFacts
  <1>3. /\ pc = "list" /\ pc' = "rows"
        /\ todo' = Page(rows) /\ more' = (rows # Page(rows)) /\ next' = Last(Page(rows))
        /\ UNCHANGED <<state, cursor, faults, at, due>>
    BY DEF ListPage
  <1> HIDE DEF rows
  <1>4. Types'
    BY <1>1, <1>2, <1>3 DEF PagingInv, Types
  <1>5. ASSUME NEW i \in due, state[i] = "doubt" PROVE i \in rows
    BY <1>3, <1>5 DEF PagingInv, NothingSkipped, Types, InDoubt, rows
  <1>6. ASSUME NEW i \in due, state[i] = "doubt"
        PROVE  i > cursor /\ (i \in Page(rows) \/ (rows # Page(rows) /\ i > Last(Page(rows))))
    BY <1>2, <1>5, <1>6 DEF PagingInv, NothingSkipped
  <1>7. NothingSkipped'
    BY <1>3, <1>6, ZenonT(30) DEF NothingSkipped
  <1> QED BY <1>2, <1>3, <1>4, <1>7, ZenonT(30) DEF PagingInv

\* Every step keeps the inductive invariant.
LEMMA PagingStep == PagingInv /\ [PagingNext]_pagingVars => PagingInv'
  <1> SUFFICES ASSUME PagingInv, [PagingNext]_pagingVars PROVE PagingInv'
    OBVIOUS
  <1> USE DEF PagingInv
  <1>0. N \in Nat /\ Ids \subseteq Nat \ {0}
    BY PagingAssumption DEF Ids
  <1>1. CASE \E i \in Ids : Insert(i)
    BY <1>0, <1>1 DEF Insert, pass, Types, NothingSkipped
  <1>2. CASE \E i \in Ids : Close(i)
    BY <1>0, <1>2 DEF Close, pass, Types, NothingSkipped
  <1>3. CASE \E i \in Ids : RecoverRow(i)
    BY <1>0, <1>3 DEF RecoverRow, Types, NothingSkipped
  <1>4. CASE LoseCursor
    BY <1>0, <1>4 DEF LoseCursor, pass, Types, NothingSkipped
  <1>5. CASE Tick
    BY <1>0, <1>5 DEF Tick, Types, NothingSkipped
  <1>6. CASE ListPage
    BY <1>6, ListPageKeeps
  <1>7. CASE PageDone
    BY <1>0, <1>7 DEF PageDone, Types, NothingSkipped
  <1>8. CASE Save
    <2>1. CASE at = 0
      <3>1. \A i \in due' : i \in Ids /\ i > 0 /\ state[i] = "doubt"
        BY <1>0, <1>8, <2>1 DEF Save, InDoubt
      <3>2. Types'
        BY <1>8, <3>1 DEF Save, Types
      <3> QED BY <1>8, <2>1, <3>1, <3>2 DEF Save, NothingSkipped
    <2>2. CASE at # 0
      BY <1>0, <1>8, <2>2, ZenonT(30) DEF Save, Types, NothingSkipped
    <2> QED BY <2>1, <2>2
  <1>9. CASE Crash
    BY <1>0, <1>9 DEF Crash, Types, NothingSkipped
  <1>10. CASE UNCHANGED pagingVars
    BY <1>10 DEF pagingVars, Types, NothingSkipped
  <1> QED BY <1>1, <1>2, <1>3, <1>4, <1>5, <1>6, <1>7, <1>8, <1>9, <1>10 DEF PagingNext

\* Paged recovery (list_in_doubt_page, recover_page, recover_card_transactions
\* and the stored cursor) never skips a row that stays in doubt, for any number
\* of rows, any page size and any number of pages of a pass.
THEOREM NeverSkips == PagingSpec => []NothingSkipped
  <1>1. PagingInv => NothingSkipped
    BY DEF PagingInv
  <1> QED BY PagingStarts, PagingStep, <1>1, PTL DEF PagingSpec
----------------------------------------------------------------------------
Kinds == {"absent", "card", "revoked", "updating"}
KeyEntries == {k \in [kind : Kinds, rev : Nat, id : Nat] : k.kind = "absent" => k = Absent}
Durables == [rev : Nat, st : {"active", "revoked"}]
Mutations == [at : {"idle", "reconcile", "claim", "commit", "release", "install"}, id : Nat, st : {"active", "revoked"}]
ReadThroughs == [at : {"idle", "durable", "restore"}, run : Nat, rev : Nat]
Sweeps == [at : {"idle", "epoch", "acquire", "scan", "durable", "repair", "record", "release"},
           run : Nat, entry : KeyEntries, dur : Durables]
ServingTypes == /\ dur \in Durables /\ acked \in Nat /\ key \in KeyEntries /\ run \in Nat /\ epoch \in Nat
                /\ snap.key \in KeyEntries /\ snap.epoch \in Nat
                /\ mut \in Mutations /\ reader \in ReadThroughs /\ sweep \in [Sweepers -> Sweeps]

\* Nothing is ahead of the durable revision or of the live run.
BoundInv == /\ acked <= dur.rev /\ key.rev <= dur.rev /\ snap.key.rev <= dur.rev /\ reader.rev <= dur.rev
            /\ epoch <= run /\ snap.epoch <= run /\ reader.run <= run
            /\ \A s \in Sweepers : sweep[s].run <= run /\ sweep[s].dur.rev <= dur.rev

\* An entry that must not be served, or a tombstone that a mutation under way cannot finalize.
Bad(k) == \/ k.kind \in {"card", "revoked"} /\ k.rev < acked
          \/ k.kind = "revoked" /\ mut.at \in {"commit", "install"}

\* A read-through of the live run is under way.
Reading == reader.at # "idle" /\ reader.run = run

\* In a run that was swept to its end what is in the key may be served, for good.
Swept == epoch = run \/ Reading \/ \E s \in Sweepers : sweep[s].run = run /\ sweep[s].at = "record"
KeyInv == Swept => ~Bad(key)

\* What a sweep of the live run has seen will make it repair what is bad.
WillRepair(s) == LET e == sweep[s].entry
                 IN  Bad(key) => \/ e.kind = "revoked" /\ key = e /\ sweep[s].at = "repair"
                                 \/ /\ e.kind = "card" /\ key.kind = "card" /\ e.rev <= key.rev
                                    /\ sweep[s].at = "repair" => acked <= sweep[s].dur.rev
Repairing(s) == sweep[s].run = run /\ sweep[s].at \in {"durable", "repair"}
RepairInv == \A s \in Sweepers : Repairing(s) => WillRepair(s)

\* A read-through that is behind finds the key taken, unless it was overtaken.
Past == mut.at \in {"commit", "release", "install"}
Behind == Reading /\ reader.at = "restore" /\ reader.rev < acked /\ ~late
TakenInv == /\ Reading /\ Past /\ key.kind = "updating" => key.id = mut.id
            /\ Behind => /\ key # Absent /\ reader.rev < key.rev
                         /\ key.kind \in {"card", "revoked"} => key.rev = dur.rev
                         /\ Past => key.kind = "updating"

ServingInv == ServingTypes /\ BoundInv /\ KeyInv /\ RepairInv /\ TakenInv
----------------------------------------------------------------------------
USE Zenon

\* What the entries are.
LEMMA EntryFields ==
    /\ Absent.kind = "absent" /\ Absent.rev = 0
    /\ \A n : Card(n).kind = "card" /\ Card(n).rev = n
    /\ \A n : Revoked(n).kind = "revoked" /\ Revoked(n).rev = n
    /\ \A n, m : Updating(n, m).kind = "updating" /\ Updating(n, m).rev = n /\ Updating(n, m).id = m
BY DEF Absent, Card, Revoked, Updating

\* Every entry the scripts write is one of the entries of the key.
LEMMA EntryTypes ==
    /\ Absent \in KeyEntries
    /\ \A n \in Nat : Card(n) \in KeyEntries /\ Revoked(n) \in KeyEntries /\ \A m \in Nat : Updating(n, m) \in KeyEntries
<1>1. 0 \in Nat
  BY SMT
<1>2. Absent \in KeyEntries
  BY <1>1 DEF Absent, KeyEntries, Kinds
<1>3. ASSUME NEW n \in Nat PROVE Card(n) \in KeyEntries
  <2>1. Card(n) \in [kind : Kinds, rev : Nat, id : Nat] /\ Card(n).kind # "absent"
    BY <1>1, <1>3 DEF Card, Kinds
  <2> QED
    BY <2>1 DEF KeyEntries
<1>4. ASSUME NEW n \in Nat PROVE Revoked(n) \in KeyEntries
  <2>1. Revoked(n) \in [kind : Kinds, rev : Nat, id : Nat] /\ Revoked(n).kind # "absent"
    BY <1>1, <1>4 DEF Revoked, Kinds
  <2> QED
    BY <2>1 DEF KeyEntries
<1>5. ASSUME NEW n \in Nat, NEW m \in Nat PROVE Updating(n, m) \in KeyEntries
  <2>1. Updating(n, m) \in [kind : Kinds, rev : Nat, id : Nat] /\ Updating(n, m).kind # "absent"
    BY <1>5 DEF Updating, Kinds
  <2> QED
    BY <2>1 DEF KeyEntries
<1> QED
  BY <1>2, <1>3, <1>4, <1>5

\* Only a key without an entry is absent.
LEMMA EntryParts == ASSUME NEW k \in KeyEntries
                    PROVE  k.kind \in Kinds /\ k.rev \in Nat /\ (k.kind = "absent" <=> k = Absent)
BY EntryFields DEF KeyEntries

\* What the types say of numbers and steps.
LEMMA Numbers ==
    ASSUME ServingTypes
    PROVE  /\ dur.rev \in Nat /\ acked \in Nat /\ key.rev \in Nat /\ run \in Nat /\ epoch \in Nat
           /\ snap.key.rev \in Nat /\ snap.epoch \in Nat /\ mut.id \in Nat /\ reader.rev \in Nat /\ reader.run \in Nat
           /\ key.kind \in Kinds /\ (key.kind = "absent" <=> key = Absent)
           /\ \A s \in Sweepers : /\ sweep[s].run \in Nat /\ sweep[s].dur.rev \in Nat
                                  /\ sweep[s].entry \in KeyEntries /\ sweep[s].entry.rev \in Nat
<1>1. key.rev \in Nat /\ key.kind \in Kinds /\ (key.kind = "absent" <=> key = Absent) /\ snap.key.rev \in Nat
  BY EntryParts DEF ServingTypes
<1>2. ASSUME NEW s \in Sweepers
      PROVE  /\ sweep[s].run \in Nat /\ sweep[s].dur.rev \in Nat
             /\ sweep[s].entry \in KeyEntries /\ sweep[s].entry.rev \in Nat
  <2>1. sweep[s] \in Sweeps
    BY DEF ServingTypes
  <2>2. sweep[s].entry \in KeyEntries /\ sweep[s].run \in Nat /\ sweep[s].dur \in Durables
    BY <2>1 DEF Sweeps
  <2> QED
    BY <2>2, EntryParts DEF Durables
<1> QED
  BY <1>1, <1>2 DEF ServingTypes, Durables, Mutations, ReadThroughs

\* The mutation goes on, or ends.
LEMMA MutationGoes ==
    ASSUME mut \in Mutations, NEW a \in {"idle", "reconcile", "claim", "commit", "release", "install"}, MutGoto(a)
    PROVE  mut' \in Mutations /\ mut'.at = a /\ mut'.id = mut.id
BY DEF MutGoto, Mutations

\* It ends.
LEMMA MutationEnds ==
    ASSUME mut \in Mutations, MutEnds
    PROVE  mut' \in Mutations /\ mut'.at = "idle" /\ mut'.id = mut.id
BY DEF MutEnds, Mutations

\* An entry that may be served, or none, keeps what concerns the key.
LEMMA GoodKey == ASSUME ~Bad(key)' PROVE KeyInv' /\ RepairInv'
BY DEF KeyInv, RepairInv, WillRepair

\* So does a key that is left alone, when it does not become bad and no sweep moves.
LEMMA SameKey ==
    ASSUME KeyInv, RepairInv, UNCHANGED <<key, acked, sweep, run, epoch>>, Reading' => Swept, Bad(key)' => Bad(key)
    PROVE  KeyInv' /\ RepairInv'
<1>1. Swept' => Swept
  BY DEF Swept
<1>2. ASSUME NEW s \in Sweepers, WillRepair(s) PROVE WillRepair(s)'
  BY <1>2 DEF WillRepair
<1>3. ASSUME NEW s \in Sweepers, Repairing(s)' PROVE Repairing(s)
  BY <1>3 DEF Repairing
<1> QED
  BY <1>1, <1>2, <1>3 DEF KeyInv, RepairInv

\* Nothing of what a read-through depends on changes.
LEMMA SameTaken == ASSUME TakenInv, UNCHANGED <<dur, acked, key, run, mut, reader>>, late => late' PROVE TakenInv'
BY DEF TakenInv, Reading, Past, Behind

\* What _RECONCILE_LUA installs is newer than what it replaces.
LEMMA ReconciledFacts ==
    ASSUME NEW k \in KeyEntries, NEW d \in Durables
    PROVE  /\ Reconciled(k, d) \in KeyEntries
           /\ \/ Reconciled(k, d) = k
              \/ /\ k.kind \in {"card", "revoked"} /\ k.rev < d.rev
                 /\ Reconciled(k, d) = Absent \/ Reconciled(k, d) = Card(d.rev)
<1>1. d.rev \in Nat
  BY DEF Durables
<1> QED
  BY <1>1, EntryTypes DEF Reconciled

\* It makes no entry bad.
LEMMA ReconciledGood ==
    ASSUME ServingTypes, NEW d \in Durables, key' = Reconciled(key, d), UNCHANGED <<acked, mut>>, ~Bad(key)
    PROVE  ~Bad(key)'
<1>1. CASE key' = key
  BY <1>1 DEF Bad
<1>2. CASE key' = Absent
  BY <1>2, EntryFields DEF Bad
<1>3. CASE key.kind \in {"card", "revoked"} /\ key.rev < d.rev /\ key' = Card(d.rev)
  <2>1. key'.rev = d.rev /\ key'.kind = "card"
    <3>1. Card(d.rev).rev = d.rev /\ Card(d.rev).kind = "card"
      BY DEF Card
    <3> QED
      BY <1>3, <3>1
  <2>2. ~(key.rev < acked)
    BY <1>3 DEF Bad
  <2>3. d.rev \in Nat /\ key.rev \in Nat /\ acked \in Nat
    BY Numbers DEF Durables
  <2>4. ~(key'.rev < acked')
    BY <1>3, <2>1, <2>2, <2>3, SMT
  <2> QED
    BY <2>1, <2>4 DEF Bad
<1> QED
  BY <1>1, <1>2, <1>3, ReconciledFacts DEF ServingTypes

\* A mutation begins in the section: nothing it may finalize is bad yet.
LEMMA BeginStep == ASSUME ServingInv, NEW st \in {"active", "revoked"}, Begin(st) PROVE ServingInv'
<1>1. /\ mut' = [at |-> "reconcile", id |-> mut.id + 1, st |-> st]
      /\ UNCHANGED <<dur, acked, key, epoch, lock, run, snap, reader, late, sweep>>
  BY DEF Begin, redis, hist
<1>2. mut.id + 1 \in Nat
  BY Numbers, SMT DEF ServingInv
<1>3. mut' \in Mutations /\ mut'.at = "reconcile"
  BY <1>1, <1>2 DEF Mutations
<1>4. ServingTypes'
  BY <1>1, <1>3 DEF ServingInv, ServingTypes
<1>5. BoundInv'
  BY <1>1 DEF ServingInv, BoundInv
<1>6. Bad(key)' => Bad(key)
  BY <1>1, <1>3 DEF Bad
<1>7. KeyInv' /\ RepairInv'
  BY <1>1, <1>6, SameKey DEF ServingInv, Reading, Swept
<1>8. TakenInv'
  BY <1>1, <1>3 DEF ServingInv, TakenInv, Reading, Past, Behind
<1> QED
  BY <1>4, <1>5, <1>7, <1>8 DEF ServingInv

\* A step of the mutation that leaves the key, the revisions and the read-through alone.
LEMMA MutationMoves ==
    ASSUME ServingInv, mut' \in Mutations, mut'.at \in {"commit", "install"} => mut.at \in {"commit", "install"},
           Past' => Past, mut'.id = mut.id, UNCHANGED <<dur, acked, key, epoch, run, snap, reader, sweep>>, late => late'
    PROVE  ServingInv'
<1>1. ServingTypes'
  BY DEF ServingInv, ServingTypes
<1>2. BoundInv'
  BY DEF ServingInv, BoundInv
<1>3. Bad(key)' => Bad(key)
  BY DEF Bad
<1>4. KeyInv' /\ RepairInv'
  BY <1>3, SameKey DEF ServingInv, Reading, Swept
<1>5. TakenInv'
  BY DEF ServingInv, TakenInv, Reading, Behind
<1> QED
  BY <1>1, <1>2, <1>4, <1>5 DEF ServingInv

\* A mutation that dies leaves its marker behind.
LEMMA DiesStep == ASSUME ServingInv, MutationDies PROVE ServingInv'
<1>1. UNCHANGED <<dur, acked, key, epoch, run, snap, reader, late, sweep>> /\ MutEnds
  BY DEF MutationDies, redis, hist
<1>2. mut' \in Mutations /\ mut'.at = "idle" /\ mut'.id = mut.id
  BY <1>1, MutationEnds DEF ServingInv, ServingTypes
<1>3. ~Past'
  BY <1>2 DEF Past
<1> QED
  BY <1>1, <1>2, <1>3, MutationMoves

\* A step that replaces the entry by one that may be served, or by none.
LEMMA KeyMoves ==
    ASSUME ServingInv, key' \in KeyEntries, key'.rev <= dur'.rev, ~Bad(key)', TakenInv', mut' \in Mutations,
           UNCHANGED <<dur, acked, epoch, run, snap, sweep>>, reader' = reader \/ reader' = NoRead
    PROVE  ServingInv'
<1>1. NoRead.at = "idle" /\ NoRead.run = 0 /\ NoRead.rev = 0 /\ NoRead \in ReadThroughs
  <2>1. 0 \in Nat
    BY SMT
  <2> QED
    BY <2>1 DEF NoRead, ReadThroughs
<1>2. ServingTypes'
  BY <1>1 DEF ServingInv, ServingTypes
<1>3. reader'.rev <= dur.rev /\ reader'.run <= run
  <2>1. 0 <= dur.rev /\ 0 <= run
    BY Numbers, SMT DEF ServingInv
  <2> QED
    BY <1>1, <2>1 DEF ServingInv, BoundInv
<1>4. BoundInv'
  BY <1>3 DEF ServingInv, BoundInv
<1>5. KeyInv' /\ RepairInv'
  BY GoodKey
<1> QED
  BY <1>2, <1>4, <1>5 DEF ServingInv

\* _reconcile of a mutation: an older entry gives way to the durable revision. A
\* read-through that is behind finds an entry that is not older, and it stays.
LEMMA ReconcileStep == ASSUME ServingInv, Reconcile PROVE ServingInv'
<1>1. /\ mut.at = "reconcile" /\ key' = Reconciled(key, dur) /\ MutGoto("claim")
      /\ UNCHANGED <<dur, acked, run, epoch, lock, snap, reader, late, sweep>>
  BY DEF Reconcile, hist
<1>2. mut' \in Mutations /\ mut'.at = "claim" /\ mut'.id = mut.id
  BY <1>1, MutationGoes DEF ServingInv, ServingTypes
<1>3. ~Past'
  BY <1>2 DEF Past
<1>4. key \in KeyEntries /\ dur \in Durables /\ dur.rev \in Nat /\ acked \in Nat /\ acked <= dur.rev
  BY DEF ServingInv, ServingTypes, BoundInv, Durables
<1>5. CASE key' = key
  BY <1>1, <1>2, <1>3, <1>5, MutationMoves
<1>6. CASE /\ key.kind \in {"card", "revoked"} /\ key.rev < dur.rev
           /\ key' = Absent \/ key' = Card(dur.rev)
  <2>1. ~Behind
    <3>1. Behind => key.rev = dur.rev
      BY <1>6 DEF ServingInv, TakenInv
    <3>2. key.rev # dur.rev
      BY <1>4, <1>6, Numbers, SMT DEF ServingInv
    <3> QED
      BY <3>1, <3>2
  <2>2. ~Bad(key)' /\ key'.rev <= dur.rev /\ key' \in KeyEntries
    <3>1. 0 <= dur.rev /\ dur.rev <= dur.rev /\ ~(dur.rev < acked)
      BY <1>4, SMT
    <3>2. (key'.kind = "absent" /\ key'.rev = 0) \/ (key'.kind = "card" /\ key'.rev = dur.rev)
      <4>1. Card(dur.rev).rev = dur.rev /\ Card(dur.rev).kind = "card"
        BY DEF Card
      <4>2. Absent.rev = 0 /\ Absent.kind = "absent"
        BY DEF Absent
      <4> QED
        BY <1>6, <4>1, <4>2
    <3>3. ~Bad(key)'
      BY <1>1, <1>2, <3>1, <3>2 DEF Bad
    <3>4. key' \in KeyEntries
      BY <1>4, <1>6, EntryTypes
    <3> QED
      BY <3>1, <3>2, <3>3, <3>4
  <2>3. TakenInv'
    <3>1. ~Behind'
      BY <1>1, <2>1 DEF Behind, Reading
    <3> QED
      BY <1>3, <3>1 DEF TakenInv
  <2> QED
    BY <1>1, <1>2, <2>2, <2>3, KeyMoves
<1> QED
  BY <1>1, <1>4, <1>5, <1>6, ReconciledFacts

\* _mark_updating puts the own marker over an entry of the current revision.
LEMMA MarkStep == ASSUME ServingInv, MarkUpdating PROVE ServingInv'
<1>0. /\ mut.at = "claim" /\ mut \in Mutations /\ mut.id \in Nat /\ dur.rev \in Nat
      /\ UNCHANGED <<dur, acked, run, epoch, lock, snap, reader, late, sweep>>
  BY Numbers DEF MarkUpdating, hist, ServingInv, ServingTypes
<1>1. CASE key.kind # "updating" /\ Claimable(key) /\ key' = Updating(dur.rev, mut.id) /\ MutGoto("commit")
  <2>1. mut' \in Mutations /\ mut'.at = "commit" /\ mut'.id = mut.id
    BY <1>0, <1>1, MutationGoes
  <2>2. key' \in KeyEntries /\ key'.kind = "updating" /\ key'.rev = dur.rev /\ key'.id = mut.id
    <3>1. key' = Updating(dur.rev, mut.id)
      BY <1>1
    <3>2. Updating(dur.rev, mut.id) \in KeyEntries
      BY <1>0, EntryTypes
    <3>3. /\ Updating(dur.rev, mut.id).kind = "updating" /\ Updating(dur.rev, mut.id).rev = dur.rev
          /\ Updating(dur.rev, mut.id).id = mut.id
      BY DEF Updating
    <3> QED
      BY <3>1, <3>2, <3>3
  <2>3. ~Bad(key)' /\ key' # Absent
    BY <2>2, EntryFields DEF Bad
  <2>4. Behind' => reader'.rev < key'.rev
    <3>1. Behind' => Behind
      BY <1>0 DEF Behind, Reading
    <3>2. Behind => key.kind # "absent" /\ reader.rev < key.rev
      BY Numbers DEF ServingInv, TakenInv
    <3>3. key.kind # "absent" => key.rev = dur.rev
      BY <1>1, Numbers DEF Claimable, Kinds, ServingInv
    <3> QED
      BY <1>0, <2>2, <3>1, <3>2, <3>3
  <2>5. TakenInv'
    BY <2>1, <2>2, <2>3, <2>4 DEF TakenInv
  <2>6. key'.rev <= dur'.rev
    BY <1>0, <2>2, SMT
  <2> QED
    BY <1>0, <2>1, <2>2, <2>3, <2>5, <2>6, KeyMoves
<1>2. CASE MutEnds /\ UNCHANGED key
  <2>1. mut' \in Mutations /\ mut'.at = "idle" /\ mut'.id = mut.id
    BY <1>0, <1>2, MutationEnds
  <2>2. ~Past'
    BY <2>1 DEF Past
  <2> QED
    BY <1>0, <1>2, <2>1, <2>2, MutationMoves
<1> QED
  BY <1>1, <1>2 DEF MarkUpdating

\* _commit_durable moves the durable revision under the marker: what is in the key is
\* not acknowledged as old yet.
LEMMA CommitStep == ASSUME ServingInv, CommitDurable PROVE ServingInv'
<1>0. /\ mut.at = "commit" /\ mut \in Mutations
      /\ UNCHANGED <<acked, key, epoch, lock, run, snap, reader, late, sweep>>
  BY DEF CommitDurable, redis, hist, ServingInv, ServingTypes
<1>1. CASE dur' = [rev |-> dur.rev + 1, st |-> mut.st] /\ MutGoto("install")
  <2>1. mut' \in Mutations /\ mut'.at = "install" /\ mut'.id = mut.id
    BY <1>0, <1>1, MutationGoes
  <2>2. dur.rev \in Nat /\ dur.rev + 1 \in Nat
    BY Numbers, SMT DEF ServingInv
  <2>3. dur' \in Durables /\ dur'.rev = dur.rev + 1
    BY <1>0, <1>1, <2>2 DEF Durables, Mutations
  <2>4. ServingTypes'
    BY <1>0, <2>1, <2>3 DEF ServingInv, ServingTypes
  <2>5. \A n \in Nat : n <= dur.rev => n <= dur'.rev
    BY <2>2, <2>3, SMT
  <2>6. BoundInv'
    BY <1>0, <2>5, Numbers DEF ServingInv, BoundInv
  <2>7. Bad(key)' => Bad(key)
    BY <1>0 DEF Bad
  <2>8. KeyInv' /\ RepairInv'
    BY <1>0, <2>7, SameKey DEF ServingInv, Reading, Swept
  <2>9. TakenInv'
    BY <1>0, <2>1 DEF ServingInv, TakenInv, Reading, Past, Behind
  <2> QED
    BY <2>4, <2>6, <2>8, <2>9 DEF ServingInv
<1>2. CASE MutGoto("release") /\ UNCHANGED dur
  <2>1. mut' \in Mutations /\ mut'.at = "release" /\ mut'.id = mut.id
    BY <1>0, <1>2, MutationGoes
  <2>2. Past
    BY <1>0 DEF Past
  <2> QED
    BY <1>0, <1>2, <2>1, <2>2, MutationMoves
<1> QED
  BY <1>1, <1>2 DEF CommitDurable

\* Whoever is behind an entry that is removed is overtaken.
LEMMA NotBehind ==
    ASSUME ServingInv, late \/ Overtakes => late', UNCHANGED <<acked, run, reader>>
    PROVE  ~Behind'
<1>1. Behind' => Behind
  BY DEF Behind, Reading
<1>2. Behind => Overtakes
  BY DEF Overtakes, ServingInv, TakenInv, Behind
<1> QED
  BY <1>1, <1>2 DEF Behind

\* A step that removes the entry.
LEMMA Removes ==
    ASSUME ServingInv, late \/ Overtakes => late', key' = Absent, mut' \in Mutations,
           UNCHANGED <<dur, acked, epoch, run, snap, sweep, reader>>
    PROVE  ServingInv'
<1>1. key' \in KeyEntries /\ key'.kind = "absent" /\ key'.rev = 0
  BY EntryFields, EntryTypes
<1>2. ~Behind'
  BY NotBehind
<1>3. TakenInv' /\ ~Bad(key)'
  BY <1>1, <1>2 DEF TakenInv, Bad
<1>4. key'.rev <= dur'.rev
  BY <1>1, Numbers, SMT DEF ServingInv
<1> QED
  BY <1>1, <1>3, <1>4, KeyMoves

\* finalize_removal after a failed commit drops the own marker only.
LEMMA ReleaseStep == ASSUME ServingInv, Release PROVE ServingInv'
<1>0. /\ MutEnds /\ UNCHANGED <<dur, acked, run, epoch, lock, snap, reader, sweep>>
      /\ (late => late') /\ (key' = Absent /\ Overtakes => late')
  BY DEF Release
<1>1. mut' \in Mutations /\ mut'.at = "idle" /\ mut'.id = mut.id
  BY <1>0, MutationEnds DEF ServingInv, ServingTypes
<1>2. ~Past'
  BY <1>1 DEF Past
<1>3. CASE key' = key
  BY <1>0, <1>1, <1>2, <1>3, MutationMoves
<1>4. CASE key' = Absent
  BY <1>0, <1>1, <1>4, Removes
<1> QED
  BY <1>3, <1>4 DEF Release

\* The mutation installs its value and returns. Where the script refuses, the entry is
\* already of this revision, a foreign marker, or a tombstone that a sweep will remove.
LEMMA InstallStep == ASSUME ServingInv, Install PROVE ServingInv'
<1> DEFINE v == IF dur.st = "active" THEN Card(dur.rev) ELSE Revoked(dur.rev)
<1>0. /\ mut.at = "install" /\ key' = Finalized(key, v, mut.id) /\ acked' = dur.rev /\ MutEnds
      /\ UNCHANGED <<dur, run, epoch, lock, snap, reader, late, sweep>>
  BY DEF Install, hist
<1>1. mut' \in Mutations /\ mut'.at = "idle" /\ mut'.id = mut.id
  BY <1>0, MutationEnds DEF ServingInv, ServingTypes
<1>2. key \in KeyEntries /\ key.kind \in Kinds /\ (key.kind = "absent" <=> key = Absent)
  BY Numbers DEF ServingInv, ServingTypes
<1>3. /\ dur.rev \in Nat /\ key.rev \in Nat /\ acked \in Nat /\ reader.rev \in Nat
      /\ key.rev <= dur.rev /\ dur.rev <= dur.rev /\ ~(dur.rev < dur.rev)
  BY Numbers, SMT DEF ServingInv, BoundInv
<1>4. v \in KeyEntries /\ v.rev = dur.rev /\ v.kind \in {"card", "revoked"}
  BY <1>3, EntryTypes, EntryFields
<1> HIDE DEF v
<1>5. \/ key' = v
      \/ /\ key' = key /\ key.kind # "absent" /\ ~(key.kind = "updating" /\ key.id = mut.id)
         /\ key.kind = "card" => ~(key.rev < dur.rev)
  BY <1>0, <1>2, <1>4 DEF Finalized
<1>6. key.kind # "revoked" => ~Bad(key)'
  BY <1>0, <1>1, <1>4, <1>5, <1>3 DEF Bad
<1>7. ServingTypes'
  BY <1>0, <1>1, <1>2, <1>3, <1>4, <1>5 DEF ServingInv, ServingTypes
<1>8. BoundInv'
  BY <1>0, <1>3, <1>4, <1>5 DEF ServingInv, BoundInv
<1>9. (Swept' => Swept) /\ (Reading' => Reading) /\ \A s \in Sweepers : Repairing(s)' => Repairing(s)
  BY <1>0 DEF Swept, Reading, Repairing
<1>10. Swept => key.kind # "revoked"
  BY <1>0 DEF ServingInv, KeyInv, Bad
<1>11. KeyInv'
  BY <1>6, <1>9, <1>10 DEF KeyInv
<1>12. RepairInv'
  <2>1. CASE key.kind # "revoked"
    BY <1>6, <2>1, GoodKey
  <2>2. CASE key.kind = "revoked"
    <3>1. Bad(key)
      BY <1>0, <2>2 DEF Bad
    <3>2. key' = key
      BY <1>0, <1>2, <2>2 DEF Finalized
    <3>3. ASSUME NEW s \in Sweepers, WillRepair(s) PROVE WillRepair(s)'
      BY <1>0, <2>2, <3>1, <3>2, <3>3 DEF WillRepair
    <3> QED
      BY <1>0, <1>9, <3>3 DEF ServingInv, RepairInv
  <2> QED
    BY <2>1, <2>2
<1>13. TakenInv'
  <2>1. ~Past'
    BY <1>1 DEF Past
  <2>2. SUFFICES ASSUME Behind'
                 PROVE  key' # Absent /\ reader.rev < key'.rev /\ key'.rev = dur.rev
    BY <1>0, <2>1, <2>2 DEF TakenInv
  <2>3. Reading /\ Swept /\ reader.rev < dur.rev
    BY <1>0, <2>2 DEF Behind, Reading, Swept
  <2>4. key.kind # "revoked" /\ (key.kind = "updating" => key.id = mut.id)
    BY <1>0, <1>10, <2>3 DEF ServingInv, TakenInv, Past
  <2>5. CASE key' = v
    BY <1>4, <2>3, <2>5, EntryFields
  <2>6. CASE key' = key /\ key.kind = "card" /\ ~(key.rev < dur.rev)
    <3>1. key.rev = dur.rev
      BY <1>3, <2>6, SMT
    <3> QED
      BY <1>2, <2>3, <2>6, <3>1
  <2> QED
    BY <1>2, <1>5, <2>4, <2>5, <2>6 DEF Kinds
<1> QED
  BY <1>7, <1>8, <1>11, <1>12, <1>13 DEF ServingInv

\* A read-through that has ended.
LEMMA NoReadFields == NoRead.at = "idle" /\ NoRead.run = 0 /\ NoRead.rev = 0 /\ NoRead \in ReadThroughs
<1>1. 0 \in Nat
  BY SMT
<1> QED
  BY <1>1 DEF NoRead, ReadThroughs

\* A step of the read-through that leaves the key alone.
LEMMA ReaderMoves ==
    ASSUME ServingInv, reader' \in ReadThroughs, reader'.rev <= dur.rev, reader'.run <= run,
           Reading' => Swept, TakenInv', UNCHANGED <<dur, acked, key, epoch, run, snap, mut, sweep>>
    PROVE  ServingInv'
<1>1. ServingTypes'
  BY DEF ServingInv, ServingTypes
<1>2. BoundInv'
  BY DEF ServingInv, BoundInv
<1>3. Bad(key)' => Bad(key)
  BY DEF Bad
<1>4. KeyInv' /\ RepairInv'
  BY <1>3, SameKey DEF ServingInv
<1> QED
  BY <1>1, <1>2, <1>4 DEF ServingInv

\* A read-through ends.
LEMMA ReaderEnds ==
    ASSUME ServingInv, reader' = NoRead, UNCHANGED <<dur, acked, key, epoch, run, snap, mut, sweep>>
    PROVE  ServingInv'
<1>1. 0 <= dur.rev /\ 0 <= run
  BY Numbers, SMT DEF ServingInv
<1>2. ~Reading'
  BY NoReadFields DEF Reading
<1>3. TakenInv'
  BY <1>2 DEF TakenInv, Behind
<1> QED
  BY <1>1, <1>2, <1>3, NoReadFields, ReaderMoves

\* A read-through starts on an absent key in a swept run.
LEMMA MissStep == ASSUME ServingInv, ReadMiss PROVE ServingInv'
<1>1. /\ epoch = run /\ key = Absent /\ reader' = [at |-> "durable", run |-> run, rev |-> 0]
      /\ UNCHANGED <<dur, acked, key, epoch, run, snap, mut, sweep>>
  BY DEF ReadMiss, redis
<1>2. 0 \in Nat /\ 0 <= dur.rev /\ run <= run /\ run \in Nat
  BY Numbers, SMT DEF ServingInv
<1>3. reader'.at = "durable" /\ reader'.run = run /\ reader'.rev = 0 /\ reader' \in ReadThroughs
  BY <1>1, <1>2 DEF ReadThroughs
<1>4. Swept
  BY <1>1 DEF Swept
<1>5. TakenInv'
  BY <1>1, <1>3, EntryFields DEF TakenInv, Behind
<1> QED
  BY <1>1, <1>2, <1>3, <1>4, <1>5, ReaderMoves

\* It reads the durable revision, which is not older than what was acknowledged.
LEMMA DurableStep == ASSUME ServingInv, ReadDurable PROVE ServingInv'
<1>1. /\ reader.at = "durable" /\ UNCHANGED <<dur, acked, key, epoch, run, snap, mut, sweep>>
      /\ reader' = [reader EXCEPT !.at = "restore", !.rev = dur.rev] \/ reader' = NoRead
  BY DEF ReadDurable, redis
<1>2. CASE reader' = NoRead
  BY <1>1, <1>2, ReaderEnds
<1>3. CASE reader' = [reader EXCEPT !.at = "restore", !.rev = dur.rev]
  <2>1. reader \in ReadThroughs /\ dur.rev \in Nat
    BY Numbers DEF ServingInv, ServingTypes
  <2>2. reader' \in ReadThroughs /\ reader'.at = "restore" /\ reader'.rev = dur.rev /\ reader'.run = reader.run
    BY <1>3, <2>1 DEF ReadThroughs
  <2>3. dur.rev <= dur.rev /\ ~(dur.rev < acked)
    BY Numbers, SMT DEF ServingInv, BoundInv
  <2>4. ~Behind'
    BY <1>1, <2>2, <2>3 DEF Behind
  <2>5. Reading' => Reading
    BY <1>1, <2>2 DEF Reading
  <2>6. Reading' => Swept
    BY <2>5 DEF Swept
  <2>7. TakenInv'
    BY <1>1, <2>4, <2>5 DEF ServingInv, TakenInv, Past
  <2> QED
    BY <1>1, <2>2, <2>3, <2>6, <2>7, ReaderMoves DEF ServingInv, BoundInv
<1> QED
  BY <1>1, <1>2, <1>3

\* It installs what it read. If a newer revision was acknowledged since, the key is
\* taken and the script refuses. One of an older run writes before the sweep looks.
LEMMA RestoreStep == ASSUME ServingInv, Restore, ~revived' PROVE ServingInv'
<1>1. /\ reader.at = "restore" /\ key' = Restored(key, reader.rev) /\ reader' = NoRead
      /\ UNCHANGED <<dur, acked, run, epoch, lock, snap, mut, sweep>>
      /\ (key' # key => ~late /\ (reader.run = run \/ ~Scanned))
  BY DEF Restore
<1>2. CASE key' = key
  BY <1>1, <1>2, ReaderEnds
<1>3. CASE key' = Card(reader.rev) /\ (key = Absent \/ (key.kind = "card" /\ key.rev < reader.rev))
  <2>1. reader.rev \in Nat /\ key.rev \in Nat /\ acked \in Nat /\ reader.rev <= dur.rev
    BY Numbers DEF ServingInv, BoundInv
  <2>2. key' \in KeyEntries /\ key'.kind = "card" /\ key'.rev = reader.rev
    <3>1. Card(reader.rev) \in KeyEntries
      BY <2>1, EntryTypes
    <3>2. Card(reader.rev).kind = "card" /\ Card(reader.rev).rev = reader.rev
      BY DEF Card
    <3> QED
      BY <1>3, <3>1, <3>2
  <2>3. ~Reading' /\ ~Behind'
    BY <1>1, NoReadFields DEF Reading, Behind
  <2>4. TakenInv'
    BY <2>3 DEF TakenInv
  <2>5. key' # key
    BY <1>3, <2>1, <2>2, EntryFields, SMT
  <2>6. CASE Reading
    <3>1. ~Behind
      <4>1. Behind => key # Absent /\ reader.rev < key.rev
        BY DEF ServingInv, TakenInv
      <4>2. ~(reader.rev < key.rev /\ key.rev < reader.rev)
        BY <2>1, SMT
      <4> QED
        BY <1>3, <4>1, <4>2
    <3>2. ~(key'.rev < acked')
      BY <1>1, <2>2, <2>6, <2>5, <3>1 DEF Behind
    <3>3. ~Bad(key)'
      BY <2>2, <3>2 DEF Bad
    <3>4. mut' \in Mutations /\ key'.rev <= dur'.rev
      BY <1>1, <2>1, <2>2 DEF ServingInv, ServingTypes
    <3> QED
      BY <1>1, <2>2, <2>4, <3>3, <3>4, KeyMoves
  <2>7. CASE ~Reading
    <3>1. ~Scanned
      BY <1>1, <2>7, <2>5 DEF Reading
    <3>2. ~Swept' /\ \A s \in Sweepers : ~Repairing(s)'
      BY <1>1, <2>3, <3>1 DEF Swept, Repairing, Scanned
    <3>3. KeyInv' /\ RepairInv'
      BY <3>2 DEF KeyInv, RepairInv
    <3>4. ServingTypes'
      BY <1>1, <2>2, NoReadFields DEF ServingInv, ServingTypes
    <3>5. 0 <= dur.rev /\ 0 <= run
      BY Numbers, SMT DEF ServingInv
    <3>6. BoundInv'
      BY <1>1, <2>1, <2>2, <3>5, NoReadFields DEF ServingInv, BoundInv
    <3> QED
      BY <2>4, <3>3, <3>4, <3>6 DEF ServingInv
  <2> QED
    BY <2>6, <2>7
<1> QED
  BY <1>1, <1>2, <1>3 DEF Restored

\* A read-through dies.
LEMMA ReaderDiesStep == ASSUME ServingInv, ReaderDies PROVE ServingInv'
<1>1. reader' = NoRead /\ UNCHANGED <<dur, acked, key, epoch, run, snap, mut, sweep>>
  BY DEF ReaderDies, redis
<1> QED
  BY <1>1, ReaderEnds

\* A marker, a tombstone or the sweep lock expires.
LEMMA ExpireStep == ASSUME ServingInv, Expire PROVE ServingInv'
<1>1. mut \in Mutations
  BY DEF ServingInv, ServingTypes
<1>2. CASE MarkerExpires
  <2>1. /\ key' = Absent /\ UNCHANGED <<dur, acked, epoch, run, snap, mut, sweep, reader>>
        /\ (late \/ Overtakes => late')
    BY <1>2 DEF MarkerExpires
  <2>2. mut' \in Mutations
    BY <1>1, <2>1
  <2> QED
    BY <2>1, <2>2, Removes
<1>3. CASE TombstoneExpires
  <2>1. /\ key' = Absent /\ UNCHANGED <<dur, acked, epoch, run, snap, mut, sweep, reader>>
        /\ (late \/ Overtakes => late')
    BY <1>3 DEF TombstoneExpires
  <2>2. mut' \in Mutations
    BY <1>1, <2>1
  <2> QED
    BY <2>1, <2>2, Removes
<1>4. CASE LockExpires
  <2>1. UNCHANGED <<dur, acked, key, epoch, run, snap, mut, sweep, reader, late>>
    BY <1>4 DEF LockExpires, hist
  <2>2. mut' \in Mutations /\ (Past' => Past)
    BY <1>1, <2>1 DEF Past
  <2> QED
    BY <2>1, <2>2, MutationMoves
<1> QED
  BY <1>2, <1>3, <1>4 DEF Expire

\* Redis saves a snapshot.
LEMMA SnapshotStep == ASSUME ServingInv, Snapshot PROVE ServingInv'
<1>1. /\ snap' = [key |-> key, epoch |-> epoch, lock |-> lock]
      /\ UNCHANGED <<dur, acked, key, epoch, run, mut, reader, late, sweep>>
  BY DEF Snapshot, redis, hist
<1>2. snap'.key = key /\ snap'.epoch = epoch
  BY <1>1
<1>3. ServingTypes'
  BY <1>1, <1>2 DEF ServingInv, ServingTypes
<1>4. BoundInv'
  BY <1>1, <1>2 DEF ServingInv, BoundInv
<1>5. (Bad(key)' => Bad(key)) /\ (Reading' => Swept)
  BY <1>1 DEF Bad, Reading, Swept
<1>6. KeyInv' /\ RepairInv'
  BY <1>1, <1>5, SameKey DEF ServingInv
<1>7. TakenInv'
  BY <1>1, SameTaken DEF ServingInv
<1> QED
  BY <1>3, <1>4, <1>6, <1>7 DEF ServingInv

\* Redis restarts as a new run, which nobody has swept or reads in.
LEMMA RestartStep == ASSUME ServingInv, Restart PROVE ServingInv'
<1>1. /\ run' = run + 1 /\ key' = snap.key /\ epoch' = snap.epoch /\ (snap' = snap \/ snap' = Empty)
      /\ UNCHANGED <<dur, acked, mut, reader, late, sweep>>
  BY DEF Restart, hist
<1>2. run' \in Nat /\ 0 \in Nat /\ 0 <= run' /\ 0 <= dur.rev /\ \A n \in Nat : n <= run => n <= run' /\ n # run'
  BY <1>1, Numbers, SMT DEF ServingInv
<1>3. Empty.key = Absent /\ Empty.epoch = 0
  BY DEF Empty
<1>4. /\ snap'.key \in KeyEntries /\ snap'.epoch \in Nat
      /\ snap'.key.rev <= dur.rev /\ snap'.epoch <= run'
  <2>1. CASE snap' = snap
    BY <1>2, <2>1, Numbers DEF ServingInv, ServingTypes, BoundInv
  <2>2. CASE snap' = Empty
    BY <1>2, <1>3, <2>2, EntryFields, EntryTypes
  <2> QED
    BY <1>1, <2>1, <2>2
<1>5. ServingTypes'
  BY <1>1, <1>2, <1>4 DEF ServingInv, ServingTypes
<1>6. BoundInv'
  BY <1>1, <1>2, <1>4, Numbers DEF ServingInv, BoundInv
<1>7. epoch' # run' /\ reader'.run # run' /\ \A s \in Sweepers : sweep'[s].run # run'
  BY <1>1, <1>2, Numbers DEF ServingInv, BoundInv
<1>8. ~Swept' /\ ~Reading' /\ \A s \in Sweepers : ~Repairing(s)'
  BY <1>7 DEF Swept, Repairing, Reading
<1>9. KeyInv' /\ RepairInv' /\ TakenInv'
  BY <1>7, <1>8 DEF KeyInv, RepairInv, TakenInv, Behind
<1> QED
  BY <1>5, <1>6, <1>9 DEF ServingInv

Places == {"idle", "epoch", "acquire", "scan", "durable", "repair", "record", "release"}

\* What the sweeps are after one of them has moved.
LEMMA SweepIdle == Idle \in Sweeps /\ Idle.at = "idle" /\ Idle.run = 0 /\ Idle.dur.rev = 0
<1>1. 0 \in Nat
  BY SMT
<1>2. [rev |-> 0, st |-> "active"] \in Durables
  BY <1>1 DEF Durables
<1>3. Idle = [at |-> "idle", run |-> 0, entry |-> Absent, dur |-> [rev |-> 0, st |-> "active"]]
  BY DEF Idle
<1> QED
  BY <1>1, <1>2, <1>3, EntryTypes DEF Sweeps

\* A sweep that starts over, at another step.
LEMMA SweepFresh ==
    ASSUME NEW a \in Places, NEW n \in Nat
    PROVE  LET x == [Idle EXCEPT !.at = a, !.run = n] IN x \in Sweeps /\ x.at = a /\ x.run = n /\ x.dur.rev = 0
<1>1. ASSUME NEW y \in Sweeps, y.dur.rev = 0
      PROVE  LET x == [y EXCEPT !.at = a, !.run = n] IN x \in Sweeps /\ x.at = a /\ x.run = n /\ x.dur.rev = 0
  BY <1>1 DEF Sweeps, Places
<1> QED
  BY <1>1, SweepIdle

\* The step of one sweep leaves the others as they were.
LEMMA SweepSet ==
    ASSUME ServingTypes, NEW s \in Sweepers, NEW x \in Sweeps, sweep' = [sweep EXCEPT ![s] = x]
    PROVE  /\ sweep' \in [Sweepers -> Sweeps] /\ sweep'[s] = x
           /\ \A r \in Sweepers : r # s => sweep'[r] = sweep[r]
BY DEF ServingTypes

\* One sweep goes on to another step.
LEMMA SweepGoes ==
    ASSUME ServingTypes, NEW s \in Sweepers, NEW a \in Places, SweepGoto(s, a)
    PROVE  /\ sweep' \in [Sweepers -> Sweeps] /\ sweep'[s].at = a
           /\ sweep'[s].run = sweep[s].run /\ sweep'[s].entry = sweep[s].entry /\ sweep'[s].dur = sweep[s].dur
           /\ \A r \in Sweepers : r # s => sweep'[r] = sweep[r]
<1>1. sweep' = [sweep EXCEPT ![s] = [sweep[s] EXCEPT !.at = a]]
  BY DEF SweepGoto
<1>2. sweep[s] \in Sweeps
  BY DEF ServingTypes
<1>3. [sweep[s] EXCEPT !.at = a] \in Sweeps
  BY <1>2 DEF Sweeps, Places
<1>4. /\ sweep' \in [Sweepers -> Sweeps] /\ sweep'[s] = [sweep[s] EXCEPT !.at = a]
      /\ \A r \in Sweepers : r # s => sweep'[r] = sweep[r]
  BY <1>1, <1>3, SweepSet
<1> QED
  BY <1>2, <1>4 DEF Sweeps

\* A step of a sweep that leaves the key alone.
LEMMA SweepMoves ==
    ASSUME ServingInv, NEW s \in Sweepers, sweep' \in [Sweepers -> Sweeps],
           sweep'[s].run <= run, sweep'[s].dur.rev <= dur.rev,
           \A r \in Sweepers : r # s => sweep'[r] = sweep[r], epoch' \in Nat, epoch' <= run,
           UNCHANGED <<dur, acked, key, run, snap, mut, reader, late>>, KeyInv', RepairInv'
    PROVE  ServingInv'
<1>1. ServingTypes'
  BY DEF ServingInv, ServingTypes
<1>2. BoundInv'
  <2>1. ASSUME NEW r \in Sweepers PROVE sweep'[r].run <= run /\ sweep'[r].dur.rev <= dur.rev
    <3>1. CASE r = s
      BY <3>1
    <3>2. CASE r # s
      BY <3>2 DEF ServingInv, BoundInv
    <3> QED
      BY <3>1, <3>2
  <2> QED
    BY <2>1 DEF ServingInv, BoundInv
<1>3. TakenInv'
  BY SameTaken DEF ServingInv
<1> QED
  BY <1>1, <1>2, <1>3 DEF ServingInv

\* The others will repair what they would have repaired.
LEMMA OthersRepair ==
    ASSUME NEW s \in Sweepers, NEW r \in Sweepers, sweep'[r] = sweep[r], UNCHANGED <<acked, key, mut>>, WillRepair(r)
    PROVE  WillRepair(r)'
BY DEF WillRepair, Bad

\* A sweep is not under way after the step; only one that was at its end may record its run.
LEMMA SweepRests ==
    ASSUME ServingInv, NEW s \in Sweepers, sweep' \in [Sweepers -> Sweeps],
           sweep'[s].run <= run, sweep'[s].dur.rev <= dur.rev,
           \A r \in Sweepers : r # s => sweep'[r] = sweep[r],
           sweep'[s].at \notin {"scan", "durable", "repair", "record"},
           epoch' = epoch \/ (epoch' = sweep[s].run /\ sweep[s].at = "record"),
           UNCHANGED <<dur, acked, key, run, snap, mut, reader, late>>
    PROVE  ServingInv'
<1>1. epoch' \in Nat /\ epoch' <= run
  BY Numbers DEF ServingInv, BoundInv
<1>2. Swept' => Swept
  BY DEF Swept, Reading
<1>3. KeyInv'
  BY <1>2 DEF ServingInv, KeyInv, Bad
<1>4. RepairInv'
  <2>1. SUFFICES ASSUME NEW r \in Sweepers, Repairing(r)' PROVE WillRepair(r)'
    BY <2>1 DEF RepairInv
  <2>2. r # s /\ sweep'[r] = sweep[r]
    BY <2>1 DEF Repairing
  <2>3. WillRepair(r)
    BY <2>1, <2>2 DEF ServingInv, RepairInv, Repairing
  <2> QED
    BY <2>2, <2>3, OthersRepair
<1> QED
  BY <1>1, <1>3, <1>4, SweepMoves

\* What the invariant says of one sweep.
LEMMA SweepParts ==
    ASSUME ServingInv, NEW s \in Sweepers
    PROVE  /\ ServingTypes /\ sweep[s] \in Sweeps /\ sweep[s].run <= run /\ sweep[s].dur.rev <= dur.rev
           /\ run \in Nat /\ 0 <= run /\ 0 <= dur.rev /\ run <= run /\ dur.rev <= dur.rev
<1>1. 0 <= run /\ 0 <= dur.rev /\ run <= run /\ dur.rev <= dur.rev
  BY Numbers, SMT DEF ServingInv
<1> QED
  BY <1>1 DEF ServingInv, ServingTypes, BoundInv

\* A sweep that ends without recording its run.
LEMMA EndsStep ==
    ASSUME ServingInv, NEW s \in Sweepers, sweep' = [sweep EXCEPT ![s] = Idle],
           UNCHANGED <<dur, acked, key, epoch, run, snap, mut, reader, late>>
    PROVE  ServingInv'
<1>1. /\ sweep' \in [Sweepers -> Sweeps] /\ sweep'[s] = Idle
      /\ \A r \in Sweepers : r # s => sweep'[r] = sweep[r]
  BY SweepIdle, SweepSet, SweepParts
<1>2. sweep'[s].run <= run /\ sweep'[s].dur.rev <= dur.rev /\ sweep'[s].at = "idle"
  BY <1>1, SweepIdle, SweepParts
<1> QED
  BY <1>1, <1>2, SweepRests

\* One that goes to a place where it is not under way.
LEMMA WaitsStep ==
    ASSUME ServingInv, NEW s \in Sweepers, NEW a \in {"acquire", "release"}, SweepGoto(s, a),
           epoch' = epoch \/ (epoch' = sweep[s].run /\ sweep[s].at = "record"),
           UNCHANGED <<dur, acked, key, run, snap, mut, reader, late>>
    PROVE  ServingInv'
<1>1. a \in Places
  BY DEF Places
<1>2. /\ sweep' \in [Sweepers -> Sweeps] /\ sweep'[s].at = a
      /\ sweep'[s].run = sweep[s].run /\ sweep'[s].dur = sweep[s].dur
      /\ \A r \in Sweepers : r # s => sweep'[r] = sweep[r]
  BY <1>1, SweepGoes, SweepParts
<1>3. sweep'[s].run <= run /\ sweep'[s].dur.rev <= dur.rev /\ sweep'[s].at \notin {"scan", "durable", "repair", "record"}
  BY <1>2, SweepParts
<1> QED
  BY <1>2, <1>3, SweepRests

\* One that forgets what it read: reconcile reads the run, or the sweep failed.
LEMMA ForgetsStep ==
    ASSUME ServingInv, NEW s \in Sweepers, NEW a \in {"epoch", "release"}, NEW n \in Nat, n <= run,
           sweep' = [sweep EXCEPT ![s] = [Idle EXCEPT !.at = a, !.run = n]],
           UNCHANGED <<dur, acked, key, epoch, run, snap, mut, reader, late>>
    PROVE  ServingInv'
<1>1. PICK x \in Sweeps : x.at = a /\ x.run = n /\ x.dur.rev = 0 /\ sweep' = [sweep EXCEPT ![s] = x]
  <2>1. a \in Places
    BY DEF Places
  <2>2. LET x == [Idle EXCEPT !.at = a, !.run = n] IN x \in Sweeps /\ x.at = a /\ x.run = n /\ x.dur.rev = 0
    BY <2>1, SweepFresh
  <2> QED
    BY <2>2
<1>2. /\ sweep' \in [Sweepers -> Sweeps] /\ sweep'[s] = x
      /\ \A r \in Sweepers : r # s => sweep'[r] = sweep[r]
  BY <1>1, SweepSet, SweepParts
<1>3. sweep'[s].run <= run /\ sweep'[s].dur.rev <= dur.rev /\ sweep'[s].at \notin {"scan", "durable", "repair", "record"}
  BY <1>1, <1>2, SweepParts
<1> QED
  BY <1>2, <1>3, SweepRests

\* A sweep takes the lock, and has seen nothing yet.
LEMMA AcquireStep == ASSUME ServingInv, NEW s \in Sweepers, Acquire(s) PROVE ServingInv'
<1>0. /\ sweep[s].at = "acquire"
      /\ UNCHANGED <<dur, acked, key, run, epoch, snap, mut, reader, late>>
      /\ (SweepGoto(s, "scan") \/ sweep' = [sweep EXCEPT ![s] = Idle])
  BY DEF Acquire, hist
<1>1. CASE sweep' = [sweep EXCEPT ![s] = Idle]
  BY <1>0, <1>1, EndsStep
<1>2. CASE SweepGoto(s, "scan")
  <2>1. "scan" \in Places
    BY DEF Places
  <2>2. /\ sweep' \in [Sweepers -> Sweeps] /\ sweep'[s].at = "scan"
        /\ sweep'[s].run = sweep[s].run /\ sweep'[s].dur = sweep[s].dur
        /\ \A r \in Sweepers : r # s => sweep'[r] = sweep[r]
    BY <1>2, <2>1, SweepGoes, SweepParts
  <2>3. sweep'[s].run <= run /\ sweep'[s].dur.rev <= dur.rev /\ epoch' \in Nat /\ epoch' <= run
    BY <1>0, <2>2, SweepParts, Numbers DEF ServingInv, BoundInv
  <2>4. Swept' => Swept
    BY <1>0, <2>2 DEF Swept, Reading
  <2>5. KeyInv'
    BY <1>0, <2>4 DEF ServingInv, KeyInv, Bad
  <2>6. RepairInv'
    <3>1. SUFFICES ASSUME NEW r \in Sweepers, Repairing(r)' PROVE WillRepair(r)'
      BY <3>1 DEF RepairInv
    <3>2. r # s /\ sweep'[r] = sweep[r]
      BY <2>2, <3>1 DEF Repairing
    <3>3. WillRepair(r)
      BY <1>0, <3>1, <3>2 DEF ServingInv, RepairInv, Repairing
    <3> QED
      BY <1>0, <3>2, <3>3, OthersRepair
  <2> QED
    BY <1>0, <2>2, <2>3, <2>5, <2>6, SweepMoves
<1> QED
  BY <1>0, <1>1, <1>2

\* A step within a sweep under way that leaves the key alone.
LEMMA SweepGoesOn ==
    ASSUME ServingInv, NEW s \in Sweepers, sweep[s].at \in {"scan", "durable"}, sweep' \in [Sweepers -> Sweeps],
           sweep'[s].run = sweep[s].run, sweep'[s].dur.rev <= dur.rev, sweep'[s].at \in {"durable", "repair"},
           \A r \in Sweepers : r # s => sweep'[r] = sweep[r], sweep[s].run = run => WillRepair(s)',
           UNCHANGED <<dur, acked, key, run, epoch, snap, mut, reader, late>>
    PROVE  ServingInv'
<1>1. sweep'[s].run <= run /\ epoch' \in Nat /\ epoch' <= run
  BY SweepParts, Numbers DEF ServingInv, BoundInv
<1>2. Swept' => Swept
  BY DEF Swept, Reading
<1>3. KeyInv'
  BY <1>2 DEF ServingInv, KeyInv, Bad
<1>4. RepairInv'
  <2>1. SUFFICES ASSUME NEW r \in Sweepers, Repairing(r)' PROVE WillRepair(r)'
    BY <2>1 DEF RepairInv
  <2>2. CASE r = s
    BY <2>1, <2>2 DEF Repairing
  <2>3. CASE r # s
    <3>1. WillRepair(r)
      BY <2>1, <2>3 DEF ServingInv, RepairInv, Repairing
    <3> QED
      BY <2>3, <3>1, OthersRepair
  <2> QED
    BY <2>2, <2>3
<1> QED
  BY <1>1, <1>3, <1>4, SweepMoves

\* _repair reads the durable revision: not older than what was acknowledged.
LEMMA ReadForRepairStep == ASSUME ServingInv, NEW s \in Sweepers, ReadForRepair(s) PROVE ServingInv'
<1>1. /\ sweep[s].at = "durable" /\ sweep' = [sweep EXCEPT ![s] = [sweep[s] EXCEPT !.at = "repair", !.dur = dur]]
      /\ UNCHANGED <<dur, acked, key, run, epoch, snap, mut, reader, late>>
  BY DEF ReadForRepair, redis, hist
<1>2. PICK x \in Sweeps : /\ x.at = "repair" /\ x.run = sweep[s].run /\ x.entry = sweep[s].entry /\ x.dur = dur
                          /\ sweep' = [sweep EXCEPT ![s] = x]
  <2>1. sweep[s] \in Sweeps /\ dur \in Durables
    BY SweepParts DEF ServingTypes
  <2>2. LET x == [sweep[s] EXCEPT !.at = "repair", !.dur = dur]
        IN  x \in Sweeps /\ x.at = "repair" /\ x.run = sweep[s].run /\ x.entry = sweep[s].entry /\ x.dur = dur
    BY <2>1 DEF Sweeps
  <2> QED
    BY <1>1, <2>2
<1>3. /\ sweep' \in [Sweepers -> Sweeps] /\ sweep'[s] = x
      /\ \A r \in Sweepers : r # s => sweep'[r] = sweep[r]
  BY <1>2, SweepSet, SweepParts
<1>4. /\ sweep'[s].run = sweep[s].run /\ sweep'[s].dur.rev <= dur.rev /\ sweep'[s].at = "repair"
      /\ sweep'[s].entry = sweep[s].entry /\ sweep'[s].dur = dur
  BY <1>2, <1>3, SweepParts
<1>5. sweep[s].run = run => WillRepair(s)'
  <2>1. SUFFICES ASSUME WillRepair(s) PROVE WillRepair(s)'
    BY <1>1, <2>1 DEF ServingInv, RepairInv, Repairing
  <2>2. acked <= dur.rev
    BY DEF ServingInv, BoundInv
  <2>3. (Bad(key)' => Bad(key)) /\ key' = key /\ acked' = acked
    BY <1>1 DEF Bad
  <2> QED
    BY <1>1, <1>4, <2>1, <2>2, <2>3 DEF WillRepair
<1> QED
  BY <1>1, <1>3, <1>4, <1>5, SweepGoesOn

\* _sweep reads the entry: if it is bad, the sweep will repair it.
LEMMA ScanStep == ASSUME ServingInv, NEW s \in Sweepers, Scan(s) PROVE ServingInv'
<1>0. sweep[s].at = "scan" /\ UNCHANGED <<dur, acked, key, run, epoch, snap, mut, reader, late>>
  BY DEF Scan, redis, hist
<1>1. CASE key.kind \in {"absent", "updating"} /\ SweepGoto(s, "record")
  <2>1. "record" \in Places
    BY DEF Places
  <2>2. /\ sweep' \in [Sweepers -> Sweeps] /\ sweep'[s].at = "record"
        /\ sweep'[s].run = sweep[s].run /\ sweep'[s].dur = sweep[s].dur
        /\ \A r \in Sweepers : r # s => sweep'[r] = sweep[r]
    BY <1>1, <2>1, SweepGoes, SweepParts
  <2>3. sweep'[s].run <= run /\ sweep'[s].dur.rev <= dur.rev /\ epoch' \in Nat /\ epoch' <= run
    BY <1>0, <2>2, SweepParts, Numbers DEF ServingInv, BoundInv
  <2>4. ~Bad(key)'
    BY <1>0, <1>1 DEF Bad
  <2>5. KeyInv' /\ RepairInv'
    BY <2>4, GoodKey
  <2> QED
    BY <1>0, <2>2, <2>3, <2>5, SweepMoves
<1>2. CASE /\ key.kind \notin {"absent", "updating"}
           /\ sweep' = [sweep EXCEPT ![s] = [sweep[s] EXCEPT !.at = IF key.kind = "card" THEN "durable" ELSE "repair",
                                                             !.entry = key]]
  <2>0. PICK a : a = IF key.kind = "card" THEN "durable" ELSE "repair"
    OBVIOUS
  <2>1. PICK x \in Sweeps : /\ x.at = a /\ x.run = sweep[s].run /\ x.entry = key /\ x.dur = sweep[s].dur
                            /\ sweep' = [sweep EXCEPT ![s] = x]
    <3>1. sweep[s] \in Sweeps /\ key \in KeyEntries /\ a \in {"durable", "repair"}
      BY <2>0, SweepParts DEF ServingTypes
    <3>2. LET x == [sweep[s] EXCEPT !.at = a, !.entry = key]
          IN  x \in Sweeps /\ x.at = a /\ x.run = sweep[s].run /\ x.entry = key /\ x.dur = sweep[s].dur
      BY <3>1 DEF Sweeps
    <3> QED
      BY <1>2, <2>0, <3>2
  <2>2. /\ sweep' \in [Sweepers -> Sweeps] /\ sweep'[s] = x
        /\ \A r \in Sweepers : r # s => sweep'[r] = sweep[r]
    BY <2>1, SweepSet, SweepParts
  <2>3. /\ sweep'[s].run = sweep[s].run /\ sweep'[s].dur.rev <= dur.rev /\ sweep'[s].at = a
        /\ sweep'[s].entry = key
    BY <2>1, <2>2, SweepParts
  <2>4. key.kind = "card" \/ key.kind = "revoked"
    BY <1>2, Numbers DEF ServingInv, Kinds
  <2>5. key.rev <= key.rev
    BY Numbers, SMT DEF ServingInv
  <2>6. WillRepair(s)'
    <3>1. CASE key.kind = "card"
      BY <1>0, <2>0, <2>3, <2>5, <3>1 DEF WillRepair
    <3>2. CASE key.kind = "revoked"
      BY <1>0, <2>0, <2>3, <3>2 DEF WillRepair
    <3> QED
      BY <2>4, <3>1, <3>2
  <2>7. a \in {"durable", "repair"}
    BY <2>0
  <2> QED
    BY <1>0, <2>2, <2>3, <2>6, <2>7, SweepGoesOn
<1>3. key.kind \in {"absent", "updating"} => SweepGoto(s, "record")
  BY DEF Scan
<1>4. key.kind \notin {"absent", "updating"} =>
          sweep' = [sweep EXCEPT ![s] = [sweep[s] EXCEPT !.at = IF key.kind = "card" THEN "durable" ELSE "repair",
                                                         !.entry = key]]
  BY DEF Scan
<1> QED
  BY <1>1, <1>2, <1>3, <1>4

\* The repair replaces or removes what is bad, and makes nothing bad that was not.
LEMMA RepairStep == ASSUME ServingInv, NEW s \in Sweepers, Repair(s), ~revived' PROVE ServingInv'
<1>0. PICK e : e = sweep[s].entry
  OBVIOUS
<1>1. PICK d : d = IF e.kind = "revoked" THEN [rev |-> e.rev + 1, st |-> "revoked"] ELSE sweep[s].dur
  OBVIOUS
<1>2. /\ sweep[s].at = "repair" /\ key' = IF d.rev <= e.rev THEN key ELSE Reconciled(key, d)
      /\ (late => late') /\ (key' = Absent /\ Overtakes => late')
      /\ (sweep[s].run # run /\ Scanned => ~(key.kind = "revoked" /\ key'.kind = "card"))
      /\ sweep' = [sweep EXCEPT ![s] = [Idle EXCEPT !.at = "record", !.run = sweep[s].run]]
      /\ UNCHANGED <<dur, acked, run, epoch, lock, snap, mut, reader>>
  BY <1>0, <1>1 DEF Repair
<1>3. /\ e \in KeyEntries /\ e.rev \in Nat /\ sweep[s].dur \in Durables /\ sweep[s].run \in Nat /\ sweep[s].dur.rev \in Nat
      /\ key \in KeyEntries /\ key.rev \in Nat /\ acked \in Nat /\ dur.rev \in Nat /\ ServingTypes
  <2>1. sweep[s].dur \in Durables
    BY SweepParts DEF Sweeps
  <2> QED
    BY <1>0, <2>1, Numbers DEF ServingInv, ServingTypes
<1>4. d \in Durables /\ d.rev \in Nat /\ (e.kind = "revoked" => d.rev = e.rev + 1 /\ d.st = "revoked")
  <2>1. e.rev + 1 \in Nat
    BY <1>3, SMT
  <2>2. CASE e.kind = "revoked"
    BY <1>1, <2>1, <2>2 DEF Durables
  <2>3. CASE e.kind # "revoked"
    BY <1>1, <1>3, <2>3 DEF Durables
  <2> QED
    BY <2>2, <2>3
<1>5. PICK x \in Sweeps : /\ x.at = "record" /\ x.run = sweep[s].run /\ x.dur.rev = 0
                          /\ sweep' = [sweep EXCEPT ![s] = x]
  <2>1. LET x == [Idle EXCEPT !.at = "record", !.run = sweep[s].run]
        IN  x \in Sweeps /\ x.at = "record" /\ x.run = sweep[s].run /\ x.dur.rev = 0
    <3>1. "record" \in Places /\ sweep[s].run \in Nat
      BY <1>3 DEF Places
    <3> QED
      BY <3>1, SweepFresh
  <2> QED
    BY <1>2, <2>1
<1>6. /\ sweep' \in [Sweepers -> Sweeps] /\ sweep'[s] = x
      /\ \A r \in Sweepers : r # s => sweep'[r] = sweep[r]
  BY <1>3, <1>5, SweepSet
<1>7. sweep'[s].at = "record" /\ sweep'[s].run = sweep[s].run /\ sweep'[s].dur.rev = 0
  BY <1>5, <1>6
\* What becomes of the entry.
<1>8. \/ key' = key
      \/ /\ key.kind \in {"card", "revoked"} /\ key.rev < d.rev
         /\ key' = Absent \/ (key' = Card(d.rev) /\ d.rev <= dur.rev)
  <2>1. CASE e.kind = "revoked"
    <3>1. d.st # "active"
      BY <1>4, <2>1
    <3> QED
      BY <1>2, <3>1 DEF Reconciled
  <2>2. CASE e.kind # "revoked"
    <3>1. d.rev <= dur.rev
      BY <1>1, <2>2, SweepParts
    <3> QED
      BY <1>2, <3>1 DEF Reconciled
  <2> QED
    BY <2>1, <2>2
<1>9. key' \in KeyEntries /\ key'.rev <= dur.rev
  <2>1. CASE key' = key
    BY <1>3, <2>1 DEF ServingInv, BoundInv
  <2>2. CASE key' = Absent
    BY <2>2, EntryTypes, EntryFields, SweepParts
  <2>3. CASE key' = Card(d.rev) /\ d.rev <= dur.rev
    <3>1. Card(d.rev) \in KeyEntries
      BY <1>4, EntryTypes
    <3>2. Card(d.rev).rev = d.rev
      BY DEF Card
    <3> QED
      BY <2>3, <3>1, <3>2
  <2> QED
    BY <1>8, <2>1, <2>2, <2>3
<1>10. ServingTypes'
  BY <1>2, <1>6, <1>9 DEF ServingInv, ServingTypes
<1>11. BoundInv'
  <2>1. ASSUME NEW r \in Sweepers PROVE sweep'[r].run <= run /\ sweep'[r].dur.rev <= dur.rev
    <3>1. CASE r = s
      BY <1>7, <3>1, SweepParts
    <3>2. CASE r # s
      BY <1>6, <3>2, SweepParts
    <3> QED
      BY <3>1, <3>2
  <2> QED
    BY <1>2, <1>9, <2>1 DEF ServingInv, BoundInv
<1>12. ~Bad(key) => ~Bad(key)'
  <2>1. CASE key' = key
    BY <1>2, <2>1 DEF Bad
  <2>2. CASE key' = Reconciled(key, d)
    BY <1>2, <1>3, <1>4, <2>2, ReconciledGood
  <2> QED
    BY <1>2, <2>1, <2>2
<1>13. ASSUME sweep[s].run = run PROVE KeyInv' /\ RepairInv'
  <2>1. WillRepair(s)
    BY <1>2, <1>13 DEF ServingInv, RepairInv, Repairing
  <2>2. ASSUME Bad(key), e.kind = "revoked", key = e PROVE ~Bad(key)'
    <3>1. ~(d.rev <= e.rev) /\ key.rev < d.rev
      BY <1>3, <1>4, <2>2, SMT
    <3>2. key' = Absent
      BY <1>2, <1>4, <2>2, <3>1 DEF Reconciled
    <3> QED
      BY <3>2, EntryFields DEF Bad
  <2>3. ASSUME Bad(key), e.kind = "card", key.kind = "card", e.rev <= key.rev, acked <= sweep[s].dur.rev
        PROVE  ~Bad(key)'
    <3>1. key.rev < acked /\ d = sweep[s].dur
      BY <1>1, <2>3 DEF Bad
    <3>2. ~(d.rev <= e.rev) /\ key.rev < d.rev /\ ~(d.rev < acked)
      BY <1>3, <2>3, <3>1, SMT
    <3>3. key' = Absent \/ key' = Card(d.rev)
      BY <1>2, <2>3, <3>2 DEF Reconciled
    <3>4. Card(d.rev).rev = d.rev /\ Card(d.rev).kind = "card" /\ Absent.kind = "absent"
      BY DEF Card, Absent
    <3> QED
      BY <1>2, <3>2, <3>3, <3>4 DEF Bad
  <2>4. ~Bad(key)'
    <3>1. Bad(key) => \/ e.kind = "revoked" /\ key = e
                      \/ /\ e.kind = "card" /\ key.kind = "card" /\ e.rev <= key.rev
                         /\ acked <= sweep[s].dur.rev
      <4>1. WillRepair(s) => (Bad(key) => \/ sweep[s].entry.kind = "revoked" /\ key = sweep[s].entry
                                         \/ /\ sweep[s].entry.kind = "card" /\ key.kind = "card"
                                            /\ sweep[s].entry.rev <= key.rev /\ acked <= sweep[s].dur.rev)
        BY <1>2 DEF WillRepair
      <4> QED
        BY <1>0, <2>1, <4>1
    <3> QED
      BY <1>12, <2>2, <2>3, <3>1
  <2> QED
    BY <2>4, GoodKey
<1>14. ASSUME sweep[s].run # run PROVE KeyInv' /\ RepairInv'
  <2>1. Swept' => Swept
    BY <1>2, <1>6, <1>7, <1>14 DEF Swept, Reading
  <2>2. KeyInv'
    BY <1>12, <2>1 DEF ServingInv, KeyInv
  <2>3. SUFFICES ASSUME NEW r \in Sweepers, Repairing(r)', Bad(key)' PROVE WillRepair(r)'
    BY <2>2, <2>3 DEF RepairInv, WillRepair
  <2>4. r # s /\ sweep'[r] = sweep[r] /\ Repairing(r) /\ Bad(key)
    BY <1>2, <1>6, <1>7, <1>12, <2>3 DEF Repairing
  <2>5. WillRepair(r) /\ Scanned
    BY <2>4 DEF ServingInv, RepairInv, Repairing, Scanned
  <2>6. CASE key' = key
    BY <1>2, <2>4, <2>5, <2>6 DEF WillRepair
  <2>7. CASE key' = Absent
    BY <2>3, <2>7, EntryFields DEF Bad
  <2>8. CASE key.kind \in {"card", "revoked"} /\ key.rev < d.rev /\ key' = Card(d.rev)
    <3>1. key'.kind = "card" /\ key'.rev = d.rev
      BY <2>8 DEF Card
    <3>2. key.kind = "card"
      BY <1>2, <1>14, <2>5, <2>8, <3>1
    <3>3. /\ sweep[r].entry.kind = "card" /\ sweep[r].entry.rev <= key.rev
          /\ sweep[r].at = "repair" => acked <= sweep[r].dur.rev
      BY <2>4, <2>5, <3>2 DEF WillRepair
    <3>4. sweep[r].entry.rev <= key'.rev
      BY <1>3, <1>4, <2>8, <3>1, <3>3, Numbers, SMT
    <3> QED
      BY <1>2, <2>4, <3>1, <3>3, <3>4 DEF WillRepair
  <2> QED
    BY <1>8, <2>6, <2>7, <2>8
<1>15. TakenInv'
  <2>1. CASE key' = key
    BY <1>2, <2>1, SameTaken DEF ServingInv
  <2>2. CASE key' = Absent
    <3>1. ~Behind'
      BY <1>2, <2>2, NotBehind
    <3> QED
      BY <2>2, <3>1, EntryFields DEF TakenInv
  <2>3. CASE key.kind \in {"card", "revoked"} /\ key.rev < d.rev /\ key' = Card(d.rev) /\ d.rev <= dur.rev
    <3>1. key.rev # dur.rev
      BY <1>3, <1>4, <2>3, SMT
    <3>2. ~Behind'
      BY <1>2, <2>3, <3>1 DEF ServingInv, TakenInv, Behind, Reading
    <3>3. key'.kind = "card"
      BY <2>3 DEF Card
    <3> QED
      BY <3>2, <3>3 DEF TakenInv
  <2> QED
    BY <1>8, <2>1, <2>2, <2>3
<1> QED
  BY <1>10, <1>11, <1>13, <1>14, <1>15 DEF ServingInv

\* The invariant holds at the start.
LEMMA ServingInit == Init => ServingInv
<1> SUFFICES ASSUME Init PROVE ServingInv
  OBVIOUS
<1>1. 0 \in Nat /\ 1 \in Nat /\ 0 <= 1 /\ 1 <= 1 /\ ~(1 < 1)
  BY SMT
<1>2. /\ dur = [rev |-> 1, st |-> "active"] /\ acked = 1 /\ key \in {Absent, Card(1)} /\ run = 1 /\ epoch = 1
      /\ snap = Empty /\ mut = [at |-> "idle", id |-> 0, st |-> "active"] /\ reader = NoRead
      /\ sweep = [s \in Sweepers |-> Idle]
  BY DEF Init
<1>3. dur.rev = 1 /\ dur \in Durables
  BY <1>1, <1>2 DEF Durables
<1>4. key \in KeyEntries /\ key.rev <= 1 /\ ~Bad(key)
  <2>1. CASE key = Absent
    BY <1>1, <2>1, EntryFields, EntryTypes DEF Bad
  <2>2. CASE key = Card(1)
    <3>1. key.kind = "card" /\ key.rev = 1
      BY <2>2 DEF Card
    <3>2. key \in KeyEntries
      BY <1>1, <2>2, EntryTypes
    <3> QED
      BY <1>1, <1>2, <3>1, <3>2 DEF Bad
  <2> QED
    BY <1>2, <2>1, <2>2
<1>5. snap.key = Absent /\ snap.epoch = 0
  BY <1>2 DEF Empty
<1>6. mut \in Mutations
  BY <1>1, <1>2 DEF Mutations
<1>7. sweep \in [Sweepers -> Sweeps] /\ \A s \in Sweepers : sweep[s] = Idle
  BY <1>2, SweepIdle
<1>8. ServingTypes
  BY <1>1, <1>2, <1>3, <1>4, <1>5, <1>6, <1>7, EntryTypes, NoReadFields DEF ServingTypes
<1>9. BoundInv
  <2>1. \A s \in Sweepers : sweep[s].run <= run /\ sweep[s].dur.rev <= dur.rev
    BY <1>1, <1>2, <1>3, <1>7, SweepIdle
  <2>2. snap.key.rev <= dur.rev /\ reader.rev <= dur.rev /\ reader.run <= run
    BY <1>1, <1>2, <1>3, <1>5, EntryFields, NoReadFields
  <2> QED
    BY <1>1, <1>2, <1>3, <1>4, <1>5, <2>1, <2>2 DEF BoundInv
<1>10. ~Reading /\ \A s \in Sweepers : ~Repairing(s)
  BY <1>2, <1>7, NoReadFields, SweepIdle DEF Repairing, Reading
<1>11. KeyInv /\ RepairInv /\ TakenInv
  BY <1>2, <1>4, <1>10, NoReadFields DEF KeyInv, RepairInv, TakenInv, Behind
<1> QED
  BY <1>8, <1>9, <1>11 DEF ServingInv

\* Every step of a sweep preserves it.
LEMMA SweepStepInv ==
    ASSUME ServingInv, ~revived', NEW s \in Sweepers, SweepStep(s) \/ SweepFails(s) \/ SweepDies(s)
    PROVE  ServingInv'
<1>1. CASE ReadRun(s)
  <2>1. /\ sweep' = [sweep EXCEPT ![s] = [Idle EXCEPT !.at = "epoch", !.run = run]]
        /\ UNCHANGED <<dur, acked, key, epoch, run, snap, mut, reader, late>>
    BY <1>1 DEF ReadRun, redis, hist
  <2>2. run \in Nat /\ run <= run
    BY SweepParts
  <2> QED
    BY <2>1, <2>2, ForgetsStep
<1>2. CASE ReadEpoch(s)
  <2>1. /\ UNCHANGED <<dur, acked, key, epoch, run, snap, mut, reader, late>>
        /\ (sweep' = [sweep EXCEPT ![s] = Idle] \/ SweepGoto(s, "acquire"))
    BY <1>2 DEF ReadEpoch, redis, hist
  <2> QED
    BY <2>1, EndsStep, WaitsStep
<1>3. CASE Acquire(s)
  BY <1>3, AcquireStep
<1>4. CASE Scan(s)
  BY <1>4, ScanStep
<1>5. CASE ReadForRepair(s)
  BY <1>5, ReadForRepairStep
<1>6. CASE Repair(s)
  BY <1>6, RepairStep
<1>7. CASE RecordEpoch(s)
  <2>1. /\ UNCHANGED <<dur, acked, key, run, snap, mut, reader, late>> /\ SweepGoto(s, "release")
        /\ (epoch' = epoch \/ (epoch' = sweep[s].run /\ sweep[s].at = "record"))
    BY <1>7 DEF RecordEpoch, hist
  <2> QED
    BY <2>1, WaitsStep
<1>8. CASE ReleaseLock(s)
  <2>1. UNCHANGED <<dur, acked, key, epoch, run, snap, mut, reader, late>> /\ sweep' = [sweep EXCEPT ![s] = Idle]
    BY <1>8 DEF ReleaseLock, hist
  <2> QED
    BY <2>1, EndsStep
<1>9. CASE SweepFails(s)
  <2>1. /\ sweep' = [sweep EXCEPT ![s] = [Idle EXCEPT !.at = "release", !.run = sweep[s].run]]
        /\ UNCHANGED <<dur, acked, key, epoch, run, snap, mut, reader, late>>
    BY <1>9 DEF SweepFails, redis, hist
  <2>2. sweep[s].run \in Nat /\ sweep[s].run <= run
    BY SweepParts DEF Sweeps
  <2> QED
    BY <2>1, <2>2, ForgetsStep
<1>10. CASE SweepDies(s)
  <2>1. UNCHANGED <<dur, acked, key, epoch, run, snap, mut, reader, late>> /\ sweep' = [sweep EXCEPT ![s] = Idle]
    BY <1>10 DEF SweepDies, redis, hist
  <2> QED
    BY <2>1, EndsStep
<1> QED
  BY <1>1, <1>2, <1>3, <1>4, <1>5, <1>6, <1>7, <1>8, <1>9, <1>10 DEF SweepStep

\* Every step preserves it.
LEMMA ServingNext == ASSUME ServingInv, ~revived', [Next]_vars PROVE ServingInv'
<1>1. CASE MutationStep
  <2>1. CASE \E st \in {"active", "revoked"} : Begin(st)
    BY <2>1, BeginStep
  <2> QED
    BY <1>1, <2>1, ReconcileStep, MarkStep, CommitStep, ReleaseStep, InstallStep DEF MutationStep
<1>2. CASE ReaderStep
  BY <1>2, MissStep, DurableStep, RestoreStep DEF ReaderStep
<1>3. CASE \E s \in Sweepers : SweepStep(s) \/ SweepFails(s) \/ SweepDies(s)
  BY <1>3, SweepStepInv
<1>4. CASE UNCHANGED vars
  <2>1. UNCHANGED <<dur, acked, key, epoch, run, snap, mut, sweep, reader, late>>
    BY <1>4 DEF vars
  <2>2. mut' \in Mutations /\ (Past' => Past)
    BY <2>1 DEF ServingInv, ServingTypes, Past
  <2> QED
    BY <2>1, <2>2, MutationMoves
<1> QED
  BY <1>1, <1>2, <1>3, <1>4, DiesStep, ReaderDiesStep, ExpireStep, SnapshotStep, RestartStep DEF Next

\* Once a write that came too late has changed the key, that stays noted.
LEMMA RevivedStays == ASSUME [Next]_vars, revived PROVE revived'
<1>1. CASE MutationStep \/ MutationDies
  BY <1>1 DEF MutationStep, Begin, Reconcile, MarkUpdating, CommitDurable, Release, Install, MutationDies, hist
<1>2. CASE ReaderStep \/ ReaderDies
  BY <1>2 DEF ReaderStep, ReadMiss, ReadDurable, Restore, ReaderDies, hist
<1>3. CASE Expire \/ Snapshot \/ Restart
  BY <1>3 DEF Expire, MarkerExpires, TombstoneExpires, LockExpires, Snapshot, Restart, hist
<1>4. CASE \E s \in Sweepers : SweepStep(s) \/ SweepFails(s) \/ SweepDies(s)
  BY <1>4 DEF SweepStep, ReadRun, ReadEpoch, Acquire, Scan, ReadForRepair, Repair, RecordEpoch, ReleaseLock,
              SweepFails, SweepDies, hist
<1>5. CASE UNCHANGED vars
  BY <1>5 DEF vars
<1> QED
  BY <1>1, <1>2, <1>3, <1>4, <1>5 DEF Next

\* In a run recorded as swept the entry of the key is not bad.
LEMMA ServingIsAcknowledged == (~revived => ServingInv) => EntryIsAcknowledged
<1>1. ASSUME ServingInv, epoch = run, key.kind \in {"card", "revoked"} PROVE key.rev >= acked
  <2>1. ~(key.rev < acked)
    BY <1>1 DEF ServingInv, KeyInv, Swept, Bad
  <2> QED
    BY <1>1, <2>1, Numbers, SMT DEF ServingInv
<1> QED
  BY <1>1 DEF EntryIsAcknowledged, NoOldAuthority

\* The inductive invariant of the serving cache holds for any number of sweepers,
\* revisions and runs, until a restoration or a repair that was overtaken changes the
\* key: what is in the key of a swept run may be served, what a sweep has scanned it
\* will repair, and a read-through that is behind finds the key taken.
THEOREM ServingInductive == Spec => [](~revived => ServingInv)
<1>1. Init => (~revived => ServingInv)
  BY ServingInit
<1>2. (~revived => ServingInv) /\ [Next]_vars => (~revived => ServingInv)'
  BY ServingNext, RevivedStays
<1> QED
  BY <1>1, <1>2, PTL DEF Spec

\* In a run that is recorded as swept neither a projection nor a tombstone is older than
\* a revision whose mutation has returned (commit, revoke, resolve and the sweep of
\* CardProjectionReconciler, with expiry and restarts from older snapshots), until a
\* restoration or a repair that was overtaken changes the key.
THEOREM ServedIsAcknowledged == Spec => []EntryIsAcknowledged
BY ServingInductive, ServingIsAcknowledged, PTL
=============================================================================
