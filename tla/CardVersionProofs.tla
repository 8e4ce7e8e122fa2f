-------------------------- MODULE CardVersionProofs --------------------------
(***************************************************************************)
(* What the staged, published and rolled back versions of Cards come to,   *)
(* for any number of Cards, transactions, effects and cut or repeated      *)
(* calls.                                                                  *)
(*                                                                         *)
(* VersionInv: a version that was ever current keeps its file.  ROLLBACK   *)
(* deletes the file of a transaction's own version, and only behind a      *)
(* marker it has retired.  A marker is retired only when no pointer names  *)
(* the version; a staged version that was current still is, since every    *)
(* writer first makes sure that what it replaces is published; and a       *)
(* version staged anew has a number that no earlier one of its Card has.   *)
(*                                                                         *)
(* OutcomeInv: what a transaction does to all of its Cards together.  Its  *)
(* plan numbers its versions, so a STAGE that comes again after the        *)
(* publication and has no marker to go by cannot fit the pointers.         *)
(* Reservations, and pointers that name a version not settled yet, keep    *)
(* other writers off the Cards of a publication that has begun.  Effects   *)
(* are applied behind a published marker only, and a marker is deleted     *)
(* last, when nothing it stands for is left.  Version numbers being        *)
(* unique, what a compensation finds at a pointer is what it undoes.       *)
(***************************************************************************)
EXTENDS CardVersion, WellFoundedInduction, TLAPS

Versions == [txn : Txns \cup {NoTxn}, ver : Nat]
States == {"none", "staging", "staged", "published", "rolled_back"}
Observed == {<<>>} \cup UNION {[Members[t] -> Versions] : t \in Txns}
ReadNumbers == {<<>>} \cup UNION {[Reads[t] -> Nat] : t \in Txns}
Markers == [state : States, base : Observed, reads : ReadNumbers, done : Nat]

Types == /\ current \in [Cards -> Versions]
         /\ files \in [Cards -> SUBSET Versions] /\ ever \in [Cards -> SUBSET Versions]
         /\ marker \in [Txns -> Markers]
         /\ pc \in [Txns -> Steps] /\ todo \in [Txns -> SUBSET Cards]

\* Calls that run at the same time have no Card in common.
LockInv == \A t, u \in Txns : t # u /\ pc[t] # "idle" /\ pc[u] # "idle" => Locks(t) \cap Locks(u) = {}

\* The pointer names the highest version there ever was.
CardInv == \A c \in Cards : /\ current[c] = Absent \/ current[c] \in ever[c]
                            /\ \A n \in ever[c] : n.ver <= current[c].ver
                            /\ ever[c] \subseteq files[c]

Fresh(t) == \A c \in Members[t] : Name(t, c) \notin ever[c]
Filed(t) == \A c \in Members[t] : Name(t, c) \in files[c]

\* What a transaction's marker promises about its versions.
MarkOK(t) == /\ marker[t].state # "none" => marker[t].base \in [Members[t] -> Versions]
             /\ marker[t].state \in {"staging", "rolled_back"} => Fresh(t)
             /\ marker[t].state \in {"staged", "published"} => Filed(t)
             /\ marker[t].state = "staged" => \A c \in Members[t] : Name(t, c) \in ever[c] => Own(t, c)

\* What a call that is at step p with members S left has found and done so far.
CallAt(t, p, S) ==
    /\ S \subseteq Members[t]
    /\ p \in {"reserve", "prepare", "sidecar", "revision", "delete", "deletesidecar"} => S # {}
    /\ p = "prepare" => S = Members[t]
    /\ p \in {"sidecar", "revision", "stage"} => marker[t].state = "staging"
    /\ p \in {"sidecar", "revision"} => \A c \in Members[t] \ S : Name(t, c) \in files[c]
    /\ p = "stage" => Filed(t)
    /\ p = "advance" => /\ marker[t].state \in {"staged", "published"}
                        /\ \A c \in S : current[c] = marker[t].base[c]
    /\ p = "release" => marker[t].state \in {"staging", "staged"} /\ Fresh(t)
    /\ p \in {"retire", "delete", "deletesidecar"} => marker[t].state = "rolled_back"

CallOK(t) == CallAt(t, pc[t], todo[t])

MarkInv == \A t \in Txns : MarkOK(t)
CallInv == \A t \in Txns : CallOK(t)
VersionInv == Types /\ LockInv /\ CardInv /\ MarkInv /\ CallInv

\* Most steps are about sets and functions, which Zenon does best; a leaf with arithmetic or records names SMT.
USE Zenon

\* A non-empty set of Cards has a first one.
LEMMA FirstCard == ASSUME NEW S, S \subseteq Cards, S # {} PROVE Min(S) \in S
<1>1. S \subseteq Nat
  BY VersionAssumption
<1>2. \E x \in S : \A y \in S : ~(<<y, x>> \in OpToRel(<, Nat))
  BY <1>1, WFMin, NatLessThanWellFounded
<1>3. PICK x \in S : \A y \in S : ~(<<y, x>> \in OpToRel(<, Nat))
  BY <1>2
<1>4. \A y \in S : ~(y < x)
  BY <1>1, <1>3 DEF OpToRel
<1>5. \E z \in S : \A y \in S : z <= y
  BY <1>1, <1>4, SMT
<1> QED
  BY <1>5 DEF Min

\* Init establishes the invariant.
LEMMA InitVersions == Init => VersionInv
<1> SUFFICES ASSUME Init PROVE VersionInv
  OBVIOUS
<1> USE VersionAssumption
<1>1. \A c \in Cards : current[c] \in {Absent, [txn |-> NoTxn, ver |-> 1]}
  BY DEF Init
<1>2. \A c \in Cards : ever[c] = {current[c]} \ {Absent} /\ files[c] = ever[c]
  BY DEF Init
<1>3. Absent \in Versions /\ [txn |-> NoTxn, ver |-> 1] \in Versions
  BY DEF Absent, Versions
<1>4. current \in [Cards -> Versions]
  <2> DEFINE B == {Absent, [txn |-> NoTxn, ver |-> 1]}
  <2>1. B \subseteq Versions
    BY <1>3
  <2>2. current \in [Cards -> B]
    BY DEF Init
  <2> HIDE DEF B
  <2> QED
    BY <2>1, <2>2
<1>5. files \in [Cards -> SUBSET Versions] /\ ever \in [Cards -> SUBSET Versions]
  BY <1>4, SMT DEF Init
<1>6. NoMarker \in Markers
  BY DEF NoMarker, Markers, States, Observed, ReadNumbers
<1>7. Types
  BY <1>4, <1>5, <1>6 DEF Types, Init, Steps
<1>8. LockInv
  BY DEF Init, LockInv
<1>9. CardInv
  <2> SUFFICES ASSUME NEW c \in Cards
               PROVE  /\ current[c] = Absent \/ current[c] \in ever[c]
                      /\ \A n \in ever[c] : n.ver <= current[c].ver
                      /\ ever[c] \subseteq files[c]
    BY DEF CardInv
  <2>1. current[c].ver \in Nat
    BY <1>4, SMT DEF Versions
  <2>2. ever[c] = {current[c]} \ {Absent} /\ files[c] = ever[c]
    BY <1>2
  <2>3. \A n \in ever[c] : n.ver <= current[c].ver
    BY <2>1, <2>2, SMT
  <2> QED
    BY <2>2, <2>3, SMT
<1>10. \A t \in Txns : marker[t].state = "none" /\ pc[t] = "idle" /\ todo[t] = {}
  BY DEF Init, NoMarker
<1>11. MarkInv /\ CallInv
  BY <1>10 DEF MarkInv, CallInv, MarkOK, CallOK, CallAt
<1> QED
  BY <1>7, <1>8, <1>9, <1>11 DEF VersionInv

\* Calls that run keep excluding one another when no call enters, ...
LEMMA LockFrame ==
    ASSUME LockInv, \A u \in Txns : pc'[u] # "idle" => pc[u] # "idle"
    PROVE  LockInv'
BY DEF LockInv, Locks

\* ... and when one enters whose Cards are free.
LEMMA LockEnter ==
    ASSUME Types, LockInv, NEW t \in Txns, Enter(t), \A u \in Txns \ {t} : pc'[u] = pc[u]
    PROVE  LockInv'
<1>1. ASSUME NEW u \in Txns, u # t, pc'[u] # "idle" PROVE Locks(t) \cap Locks(u) = {}
  BY <1>1 DEF Enter, Held
<1>2. ASSUME NEW u \in Txns, NEW v \in Txns, u # v, pc'[u] # "idle", pc'[v] # "idle"
      PROVE  Locks(u) \cap Locks(v) = {}
  <2>1. CASE u = t
    BY <1>1, <1>2, <2>1
  <2>2. CASE v = t
    BY <1>1, <1>2, <2>2
  <2>3. CASE u # t /\ v # t
    BY <1>2, <2>3 DEF LockInv
  <2> QED
    BY <2>1, <2>2, <2>3
<1> QED
  BY <1>2 DEF LockInv, Locks

\* What a step of others leaves a transaction: its marker, its files, its pointers where they matter.
Kept(u) == /\ marker'[u].state = marker[u].state /\ marker'[u].base = marker[u].base
           /\ \A c \in Members[u] : /\ Name(u, c) \in files[c] => Name(u, c) \in files'[c]
                                    /\ Name(u, c) \in ever'[c] => Name(u, c) \in ever[c]
                                    /\ marker[u].state = "staged" /\ Own(u, c) => current'[c] = current[c]
                                    /\ pc[u] = "advance" /\ c \in todo[u] => current'[c] = current[c]

\* Such a step keeps what its marker promises ...
LEMMA MarkKept == ASSUME NEW u \in Txns, MarkOK(u), Kept(u) PROVE MarkOK(u)'
<1>1. \A c \in Members[u] : Name(u, c)' = Name(u, c)
  BY DEF Kept, Name
<1>2. Fresh(u) => Fresh(u)'
  BY <1>1 DEF Kept, Fresh
<1>3. Filed(u) => Filed(u)'
  BY <1>1 DEF Kept, Filed
<1>4. marker[u].state = "staged" => \A c \in Members[u] : Name(u, c)' \in ever'[c] => Own(u, c)'
  BY <1>1 DEF Kept, MarkOK, Own
<1> QED
  BY <1>2, <1>3, <1>4 DEF Kept, MarkOK

\* ... and what its call has found.
LEMMA CallKept ==
    ASSUME NEW u \in Txns, CallOK(u), Kept(u), pc'[u] = pc[u], todo'[u] = todo[u]
    PROVE  CallOK(u)'
<1>1. \A c \in Members[u] : Name(u, c)' = Name(u, c)
  BY DEF Kept, Name
<1>2. Fresh(u) => Fresh(u)'
  BY <1>1 DEF Kept, Fresh
<1>3. Filed(u) => Filed(u)'
  BY <1>1 DEF Kept, Filed
<1>4. pc[u] \in {"sidecar", "revision"} => \A c \in Members[u] \ todo[u] : Name(u, c)' \in files'[c]
  BY <1>1 DEF Kept, CallOK, CallAt
<1>5. pc[u] = "advance" => \A c \in todo[u] : current'[c] = marker'[u].base[c]
  BY DEF Kept, CallOK, CallAt
<1> QED
  BY <1>2, <1>3, <1>4, <1>5 DEF Kept, CallOK, CallAt

\* Where a call goes, and that no other does.
LEMMA GoEffect ==
    ASSUME Types, NEW t \in Txns, NEW step \in Steps, NEW left \in SUBSET Cards, Go(t, step, left)
    PROVE  /\ pc'[t] = step /\ todo'[t] = left
           /\ \A u \in Txns \ {t} : pc'[u] = pc[u] /\ todo'[u] = todo[u]
           /\ pc' \in [Txns -> Steps] /\ todo' \in [Txns -> SUBSET Cards]
<1>1. pc'[t] = step /\ (\A u \in Txns \ {t} : pc'[u] = pc[u]) /\ pc' \in [Txns -> Steps]
  BY DEF Types, Go
<1>2. todo'[t] = left /\ (\A u \in Txns \ {t} : todo'[u] = todo[u]) /\ todo' \in [Txns -> SUBSET Cards]
  BY DEF Types, Go
<1> QED
  BY <1>1, <1>2

\* A step that leaves pointers, files and every marker's state and base alone.
Quiet == /\ UNCHANGED <<current, files, ever>> /\ marker' \in [Txns -> Markers]
         /\ \A u \in Txns : marker'[u].state = marker[u].state /\ marker'[u].base = marker[u].base

\* An action that leaves every marker alone does.
LEMMA QuietCards == ASSUME Types, UNCHANGED <<cards, files, marker>> PROVE Quiet
BY DEF Quiet, Types, cards

\* Such a step keeps the invariant when no call moves, ...
LEMMA QuietStill == ASSUME VersionInv, Quiet, UNCHANGED <<pc, todo>> PROVE VersionInv'
<1>1. \A u \in Txns : Kept(u)
  BY DEF Quiet, Kept
<1>2. Types'
  BY DEF VersionInv, Types, Quiet
<1>3. LockInv'
  BY LockFrame DEF VersionInv
<1>4. CardInv'
  BY DEF Quiet, CardInv, VersionInv
<1>5. MarkInv'
  BY <1>1, MarkKept DEF MarkInv, VersionInv
<1>6. CallInv'
  BY <1>1, CallKept DEF CallInv, VersionInv
<1> QED
  BY <1>2, <1>3, <1>4, <1>5, <1>6 DEF VersionInv

\* ... and when a call moves to a step for which it has found what the step relies on.
LEMMA QuietGo ==
    ASSUME VersionInv, Quiet, NEW t \in Txns, NEW step \in Steps, NEW left \in SUBSET Cards, Go(t, step, left),
           Enter(t) \/ pc[t] # "idle" \/ step = "idle", CallAt(t, step, left)
    PROVE  VersionInv'
<1>0. Types /\ LockInv /\ CardInv /\ MarkInv /\ CallInv
  BY DEF VersionInv
<1>1. \A u \in Txns : Kept(u)
  BY DEF Quiet, Kept
<1>2. /\ pc'[t] = step /\ todo'[t] = left
      /\ \A u \in Txns \ {t} : pc'[u] = pc[u] /\ todo'[u] = todo[u]
      /\ pc' \in [Txns -> Steps] /\ todo' \in [Txns -> SUBSET Cards]
  BY <1>0, GoEffect
<1>3. Types'
  BY <1>0, <1>2 DEF Types, Quiet
<1>4. LockInv'
  <2>1. CASE Enter(t)
    BY <1>0, <1>2, <2>1, LockEnter
  <2>2. CASE pc[t] # "idle" \/ step = "idle"
    BY <1>0, <1>2, <2>2, LockFrame
  <2> QED
    BY <2>1, <2>2
<1>5. CardInv'
  BY <1>0 DEF Quiet, CardInv
<1>6. MarkInv'
  BY <1>0, <1>1, MarkKept DEF MarkInv
<1>7. CallOK(t)'
  <2>1. \A c \in Members[t] : Name(t, c)' = Name(t, c)
    BY DEF Quiet, Name
  <2>2. (Fresh(t) => Fresh(t)') /\ (Filed(t) => Filed(t)')
    BY <2>1 DEF Quiet, Fresh, Filed
  <2>3. step \in {"sidecar", "revision"} => \A c \in Members[t] \ left : Name(t, c)' \in files'[c]
    BY <2>1 DEF Quiet, CallAt
  <2>4. step = "advance" => \A c \in left : current'[c] = marker'[t].base[c]
    BY DEF Quiet, CallAt
  <2> QED
    BY <1>2, <2>2, <2>3, <2>4 DEF Quiet, CallOK, CallAt
<1>8. CallInv'
  BY <1>0, <1>1, <1>2, <1>7, CallKept DEF CallInv
<1> QED
  BY <1>3, <1>4, <1>5, <1>6, <1>8 DEF VersionInv

\* Members of a transaction are Cards, and there is one.
LEMMA MembersAreCards == ASSUME NEW t \in Txns PROVE Members[t] \in SUBSET Cards /\ Members[t] # {} /\ {} \in SUBSET Cards
BY VersionAssumption

\* The member a loop is at is one of those it has left.
LEMMA FirstLeft == ASSUME Types, NEW t \in Txns, todo[t] # {} PROVE First(t) \in todo[t]
BY FirstCard DEF Types, First

\* STAGE up to its files, and ROLLBACK's and PUBLISH's steps that write neither files nor pointers.
LEMMA StageQuiet ==
    ASSUME VersionInv, NEW t \in Txns, StageAgain(t) \/ Reserve(t) \/ StagedAnswer(t) \/ WriteSidecar(t)
    PROVE  VersionInv'
<1>0. Types /\ CallOK(t) /\ Members[t] \in SUBSET Cards /\ Members[t] # {} /\ {} \in SUBSET Cards
  BY MembersAreCards DEF VersionInv, CallInv
<1>1. CASE StageAgain(t)
  <2>1. Quiet
    BY <1>0, <1>1, QuietCards DEF StageAgain, disk
  <2>2. Go(t, "reserve", Members[t]) /\ Enter(t)
    BY <1>1 DEF StageAgain
  <2>3. CallAt(t, "reserve", Members[t]) /\ "reserve" \in Steps
    BY <1>0 DEF CallAt, Steps
  <2> QED
    BY <1>0, <2>1, <2>2, <2>3, QuietGo
<1>2. CASE Reserve(t)
  <2>1. Quiet
    BY <1>0, <1>2, QuietCards DEF Reserve
  <2>2. pc[t] = "reserve" /\ Loop(t, "reserve", "prepare")
    BY <1>2 DEF Reserve
  <2>3. todo[t] # {} /\ todo[t] \subseteq Members[t]
    BY <1>0, <2>2 DEF CallOK, CallAt
  <2>4. CASE todo[t] = {First(t)}
    <3>1. CallAt(t, "prepare", Members[t]) /\ "prepare" \in Steps
      BY <1>0 DEF CallAt, Steps
    <3>2. Go(t, "prepare", Members[t])
      BY <2>2, <2>4 DEF Loop
    <3> QED
      BY <1>0, <2>1, <2>2, <3>1, <3>2, QuietGo
  <2>5. CASE todo[t] # {First(t)}
    <3> DEFINE left == todo[t] \ {First(t)}
    <3>1. left # {} /\ left \subseteq Members[t] /\ left \in SUBSET Cards
      BY <1>0, <2>3, <2>5
    <3>2. Go(t, "reserve", left)
      BY <2>2, <2>5 DEF Loop
    <3> HIDE DEF left
    <3>3. CallAt(t, "reserve", left) /\ "reserve" \in Steps
      BY <3>1 DEF CallAt, Steps
    <3> QED
      BY <2>1, <2>2, <3>1, <3>2, <3>3, QuietGo
  <2> QED
    BY <2>4, <2>5
<1>3. CASE StagedAnswer(t)
  <2>1. Quiet
    BY <1>0, <1>3, QuietCards DEF StagedAnswer, disk
  <2>2. Go(t, "idle", {})
    BY <1>3 DEF StagedAnswer
  <2>3. CallAt(t, "idle", {}) /\ "idle" \in Steps
    BY DEF CallAt, Steps
  <2> QED
    BY <1>0, <2>1, <2>2, <2>3, QuietGo
<1>4. CASE WriteSidecar(t)
  <2>1. Quiet
    BY <1>0, <1>4, QuietCards DEF WriteSidecar
  <2>2. /\ Go(t, "revision", todo[t]) /\ pc[t] # "idle"
        /\ pc[t] = "sidecar" \/ (pc[t] = "prepare" /\ marker[t].state = "staging")
    BY <1>4 DEF WriteSidecar
  <2>3. CallAt(t, "revision", todo[t]) /\ "revision" \in Steps
    BY <1>0, <2>2 DEF CallOK, CallAt, Steps
  <2>4. todo[t] \in SUBSET Cards
    BY <1>0 DEF Types
  <2> QED
    BY <2>1, <2>2, <2>3, <2>4, QuietGo
<1> QED
  BY <1>1, <1>2, <1>3, <1>4

\* The end of a publication, and of a call.
LEMMA FinishQuiet ==
    ASSUME VersionInv, NEW t \in Txns, FinishPublished(t) \/ Unfence(t) \/ FreeBase(t) \/ DeleteSidecar(t) \/ Stop(t)
    PROVE  VersionInv'
<1>0. Types /\ CallOK(t) /\ Members[t] \in SUBSET Cards /\ Members[t] # {} /\ {} \in SUBSET Cards
  BY MembersAreCards DEF VersionInv, CallInv
<1>1. todo[t] \subseteq Members[t] /\ todo[t] \in SUBSET Cards
  BY <1>0 DEF CallOK, CallAt
<1> DEFINE left(S, c) == S \ {c}
<1>2. ASSUME NEW S, S \subseteq Members[t], NEW c PROVE left(S, c) \subseteq Members[t] /\ left(S, c) \in SUBSET Cards
  BY <1>0, <1>2
<1>3. ASSUME NEW S \in SUBSET Members[t], NEW step \in {"idle", "effects", "unfence", "free", "forget"}
      PROVE  CallAt(t, step, S) /\ step \in Steps
  BY <1>3 DEF CallAt, Steps
<1>4. CASE FinishPublished(t)
  <2>1. Quiet
    BY <1>0, <1>4, QuietCards DEF FinishPublished, disk
  <2>2. Go(t, "effects", {}) /\ Enter(t)
    BY <1>4 DEF FinishPublished
  <2> QED
    BY <1>0, <1>3, <2>1, <2>2, QuietGo
<1>5. CASE Unfence(t)
  <2>1. Quiet
    BY <1>0, <1>5, QuietCards DEF Unfence
  <2>2. PICK S \in SUBSET Members[t] : \/ Go(t, "free", Members[t])
                                        \/ Go(t, "unfence", left(S, Min(S)))
    <3> DEFINE S == IF pc[t] = "effects" THEN Members[t] ELSE todo[t]
    <3>1. S \in SUBSET Members[t]
      BY <1>1
    <3>2. Go(t, "free", Members[t]) \/ Go(t, "unfence", left(S, Min(S)))
      BY <1>5 DEF Unfence
    <3> QED
      BY <3>1, <3>2
  <2>3. pc[t] # "idle"
    BY <1>5 DEF Unfence
  <2>4. CASE Go(t, "free", Members[t])
    BY <1>0, <1>3, <2>1, <2>3, <2>4, QuietGo
  <2>5. CASE Go(t, "unfence", left(S, Min(S)))
    <3>1. left(S, Min(S)) \in SUBSET Members[t] /\ left(S, Min(S)) \in SUBSET Cards
      BY <1>2
    <3> HIDE DEF left
    <3> QED
      BY <1>3, <2>1, <2>3, <2>5, <3>1, QuietGo
  <2> QED
    BY <2>2, <2>4, <2>5
<1>6. CASE FreeBase(t)
  <2>1. Quiet
    BY <1>0, <1>6, QuietCards DEF FreeBase
  <2>2. pc[t] # "idle" /\ (Go(t, "forget", Members[t]) \/ Go(t, "free", left(todo[t], First(t))))
    BY <1>6 DEF FreeBase, Loop
  <2>3. left(todo[t], First(t)) \in SUBSET Members[t] /\ left(todo[t], First(t)) \in SUBSET Cards
    BY <1>1, <1>2
  <2> HIDE DEF left
  <2> QED
    BY <1>0, <1>3, <2>1, <2>2, <2>3, QuietGo
<1>7. CASE DeleteSidecar(t)
  <2>1. Quiet
    BY <1>0, <1>7, QuietCards DEF DeleteSidecar
  <2>2. pc[t] = "deletesidecar" /\ Loop(t, "delete", "free")
    BY <1>7 DEF DeleteSidecar
  <2>3. marker[t].state = "rolled_back" /\ todo[t] # {}
    BY <1>0, <2>2 DEF CallOK, CallAt
  <2>4. CASE todo[t] = {First(t)}
    <3>1. Go(t, "free", Members[t])
      BY <2>2, <2>4 DEF Loop
    <3> QED
      BY <1>0, <1>3, <2>1, <2>2, <3>1, QuietGo
  <2>5. CASE todo[t] # {First(t)}
    <3> DEFINE rest == todo[t] \ {First(t)}
    <3>1. rest # {} /\ rest \subseteq Members[t] /\ rest \in SUBSET Cards
      BY <1>1, <2>3, <2>5
    <3>2. Go(t, "delete", rest)
      BY <2>2, <2>5 DEF Loop
    <3> HIDE DEF rest
    <3>3. CallAt(t, "delete", rest) /\ "delete" \in Steps
      BY <2>3, <3>1 DEF CallAt, Steps
    <3> QED
      BY <2>1, <2>2, <3>1, <3>2, <3>3, QuietGo
  <2> QED
    BY <2>4, <2>5
<1>8. CASE Stop(t)
  <2>1. Quiet
    BY <1>0, <1>8, QuietCards DEF Stop, disk
  <2>2. Go(t, "idle", {})
    BY <1>8 DEF Stop
  <2> QED
    BY <1>0, <1>3, <2>1, <2>2, QuietGo
<1> QED
  BY <1>4, <1>5, <1>6, <1>7, <1>8

\* A version of t that c's pointer names was current.
LEMMA OwnWasCurrent ==
    ASSUME CardInv, NEW t \in Txns, NEW c \in Members[t], Own(t, c)
    PROVE  Name(t, c) \in ever[c]
<1>1. c \in Cards /\ t # NoTxn
  BY VersionAssumption
<1>2. Name(t, c).txn = t
  BY DEF Name
<1>3. Name(t, c) # Absent
  BY <1>1, <1>2, SMT DEF Absent
<1> QED
  BY <1>1, <1>3 DEF CardInv, Own

\* PUBLISH and ROLLBACK start.
LEMMA StartQuiet ==
    ASSUME VersionInv, NEW t \in Txns, Publish(t) \/ Rollback(t)
    PROVE  VersionInv'
<1>0. Types /\ MarkOK(t) /\ Members[t] \in SUBSET Cards /\ {} \in SUBSET Cards
  BY MembersAreCards DEF VersionInv, MarkInv
<1>1. CASE Publish(t)
  <2> DEFINE left == {c \in Members[t] : ~Own(t, c)}
  <2>1. Quiet
    BY <1>0, <1>1, QuietCards DEF Publish, StartPublish
  <2>2. Go(t, "advance", left) /\ Enter(t) /\ marker[t].state = "staged"
    BY <1>1 DEF Publish, StartPublish
  <2>3. \A c \in left : current[c] = marker[t].base[c]
    BY <1>1 DEF Publish, StartPublish, BaseStands
  <2>4. left \subseteq Members[t] /\ left \in SUBSET Cards
    BY <1>0
  <2> HIDE DEF left
  <2>5. CallAt(t, "advance", left) /\ "advance" \in Steps
    BY <2>2, <2>3, <2>4 DEF CallAt, Steps
  <2> QED
    BY <2>1, <2>2, <2>4, <2>5, QuietGo
<1>2. CASE Rollback(t)
  <2>1. Quiet
    BY <1>0, <1>2, QuietCards DEF Rollback, disk
  <2>2. CASE marker[t].state = "rolled_back"
    <3>1. Go(t, "retire", {}) /\ Enter(t)
      BY <1>2, <2>2 DEF Rollback
    <3>2. CallAt(t, "retire", {}) /\ "retire" \in Steps
      BY <2>2 DEF CallAt, Steps
    <3> QED
      BY <1>0, <2>1, <3>1, <3>2, QuietGo
  <2>3. CASE marker[t].state # "rolled_back"
    <3>1. Go(t, "release", {}) /\ Enter(t)
      BY <1>2, <2>3 DEF Rollback
    <3>2. marker[t].state \in {"staging", "staged"} /\ Fresh(t)
      BY <1>0, <1>2, <2>3 DEF Rollback, MarkOK, Fresh
    <3>3. CallAt(t, "release", {}) /\ "release" \in Steps
      BY <3>2 DEF CallAt, Steps
    <3> QED
      BY <1>0, <2>1, <3>1, <3>3, QuietGo
  <2> QED
    BY <2>2, <2>3
<1> QED
  BY <1>1, <1>2

\* The effects, the compensation's plan, the answers and the reader move no call.
LEMMA StillSteps ==
    ASSUME VersionInv,
           \/ \E t \in Txns : \/ ApplyEffect(t) \/ RecordEffect(t) \/ RollbackUnknown(t) \/ Compensate(t)
                              \/ \E i \in 1..Effects[t] : Prepare(t, i) \/ ReleaseEffect(t, i)
           \/ \E c \in Cards : ReadPointer(c)
           \/ ReadFence \/ ReadAgain \/ Serve
    PROVE  VersionInv'
<1>0. Types
  BY DEF VersionInv
<1>1. ASSUME NEW t \in Txns, RecordEffect(t) PROVE VersionInv'
  <2>1. marker[t] \in Markers
    BY <1>0 DEF Types
  <2>2. [marker[t] EXCEPT !.done = marker[t].done + 1] \in Markers
    BY <2>1, SMT DEF Markers
  <2>3. marker' = [marker EXCEPT ![t] = [marker[t] EXCEPT !.done = marker[t].done + 1]]
    BY <1>0, <1>1 DEF RecordEffect, Types
  <2>4. marker' \in [Txns -> Markers]
    BY <1>0, <2>2, <2>3 DEF Types
  <2>5. \A u \in Txns : marker'[u].state = marker[u].state /\ marker'[u].base = marker[u].base
    BY <1>0, <2>1, <2>3 DEF Types, Markers
  <2> QED
    BY <1>1, <2>4, <2>5, QuietStill DEF RecordEffect, Quiet, cards, disk
<1>2. ASSUME UNCHANGED <<cards, disk, marker, pc, todo>> PROVE VersionInv'
  BY <1>0, <1>2, QuietCards, QuietStill DEF disk
<1>3. ASSUME NEW t \in Txns, ApplyEffect(t) \/ RollbackUnknown(t) \/ Compensate(t) PROVE VersionInv'
  BY <1>2, <1>3 DEF ApplyEffect, RollbackUnknown, Compensate
<1>4. ASSUME NEW t \in Txns, NEW i \in 1..Effects[t], Prepare(t, i) \/ ReleaseEffect(t, i) PROVE VersionInv'
  BY <1>2, <1>4 DEF Prepare, ReleaseEffect
<1>5. ASSUME (\E c \in Cards : ReadPointer(c)) \/ ReadFence \/ ReadAgain \/ Serve PROVE VersionInv'
  BY <1>2, <1>5 DEF ReadPointer, ReadFence, ReadAgain, Serve
<1> QED
  BY <1>1, <1>3, <1>4, <1>5

\* A marker takes another state.
LEMMA StateEffect ==
    ASSUME Types, NEW p \in Txns, NEW s \in States, marker' = [marker EXCEPT ![p].state = s]
    PROVE  /\ marker' \in [Txns -> Markers]
           /\ marker'[p].state = s /\ marker'[p].base = marker[p].base
           /\ \A u \in Txns \ {p} : marker'[u] = marker[u]
<1>1. marker[p] \in Markers
  BY DEF Types
<1>2. marker' = [marker EXCEPT ![p] = [marker[p] EXCEPT !.state = s]]
  BY DEF Types
<1>3. [marker[p] EXCEPT !.state = s] \in Markers
  BY <1>1 DEF Markers
<1>4. marker' \in [Txns -> Markers] /\ \A u \in Txns \ {p} : marker'[u] = marker[u]
  BY <1>2, <1>3 DEF Types
<1>5. marker'[p].state = s /\ marker'[p].base = marker[p].base
  BY <1>1, <1>2 DEF Types, Markers
<1> QED
  BY <1>4, <1>5

\* A step that writes one transaction's marker and moves its call at most.
LEMMA MarkedStep ==
    ASSUME VersionInv, UNCHANGED <<current, files, ever>>, LockInv',
           marker' \in [Txns -> Markers], pc' \in [Txns -> Steps], todo' \in [Txns -> SUBSET Cards],
           NEW p \in Txns, MarkOK(p)', CallOK(p)',
           \A u \in Txns \ {p} : marker'[u] = marker[u] /\ pc'[u] = pc[u] /\ todo'[u] = todo[u]
    PROVE  VersionInv'
<1>0. Types /\ CardInv /\ MarkInv /\ CallInv
  BY DEF VersionInv
<1>1. \A u \in Txns \ {p} : Kept(u)
  BY DEF Kept
<1>2. Types'
  BY <1>0 DEF Types
<1>3. CardInv'
  BY <1>0 DEF CardInv
<1>4. MarkInv'
  BY <1>0, <1>1, MarkKept DEF MarkInv
<1>5. CallInv'
  BY <1>0, <1>1, CallKept DEF CallInv
<1> QED
  BY <1>2, <1>3, <1>4, <1>5 DEF VersionInv

\* The marker of a publication that stopped short of it is written by a later reader of its Card.
LEMMA FinalizeStep == ASSUME VersionInv, NEW t \in Txns, NEW c \in Cards, Finalize(t, c) PROVE VersionInv'
<1>0. Types /\ LockInv /\ CardInv
  BY DEF VersionInv
<1>1. PICK p \in Txns : p = current[c].txn
  BY <1>0 DEF Types, Versions, Finalize
<1>2. MarkOK(p) /\ CallOK(p)
  BY DEF VersionInv, MarkInv, CallInv
<1>3. marker[p].state = "staged" /\ marker' = [marker EXCEPT ![p].state = "published"]
  BY <1>1 DEF Finalize
<1>4. \A m \in Members[p] : Own(p, m)
  BY <1>1 DEF Finalize
<1>5. UNCHANGED <<current, files, ever, pc, todo>>
  BY DEF Finalize, cards, disk
<1>6. "published" \in States
  BY DEF States
<1>7. /\ marker' \in [Txns -> Markers] /\ marker'[p].state = "published" /\ marker'[p].base = marker[p].base
      /\ \A u \in Txns \ {p} : marker'[u] = marker[u]
  BY <1>0, <1>3, <1>6, StateEffect
<1>8. ~Fresh(p)
  BY <1>0, <1>4, MembersAreCards, OwnWasCurrent DEF Fresh
<1>9. \A m \in Members[p] : Name(p, m)' = Name(p, m)
  BY <1>7 DEF Name
<1>10. MarkOK(p)'
  BY <1>2, <1>3, <1>5, <1>7, <1>9 DEF MarkOK, Filed
<1>11. CallOK(p)'
  BY <1>2, <1>3, <1>5, <1>7, <1>8 DEF CallOK, CallAt
<1>12. LockInv'
  BY <1>0, <1>5, LockFrame
<1> QED
  BY <1>0, <1>5, <1>7, <1>10, <1>11, <1>12, MarkedStep DEF Types

\* The markers a call writes about its own transaction.
LEMMA MarkerSteps ==
    ASSUME VersionInv, NEW t \in Txns, MarkStaged(t) \/ MarkPublished(t) \/ Retire(t)
    PROVE  VersionInv'
<1>0. Types /\ LockInv /\ MarkOK(t) /\ CallOK(t) /\ Members[t] \in SUBSET Cards /\ Members[t] # {} /\ {} \in SUBSET Cards
  BY MembersAreCards DEF VersionInv, MarkInv, CallInv
<1>1. ASSUME NEW s \in States, marker' = [marker EXCEPT ![t].state = s], s # "none", marker[t].state # "none",
             s = "rolled_back" => Fresh(t), s \in {"staged", "published"} => Filed(t),
             s = "staged" => Fresh(t),
             UNCHANGED <<current, files, ever>>,
             NEW step \in Steps, NEW left \in SUBSET Cards, Go(t, step, left), pc[t] # "idle", s # "staging",
             step = "delete" => s = "rolled_back" /\ left # {}, left \subseteq Members[t],
             step \in {"idle", "effects", "delete"}
      PROVE  VersionInv'
  <2>1. /\ marker' \in [Txns -> Markers] /\ marker'[t].state = s /\ marker'[t].base = marker[t].base
        /\ \A u \in Txns \ {t} : marker'[u] = marker[u]
    BY <1>0, <1>1, StateEffect
  <2>2. /\ pc'[t] = step /\ todo'[t] = left
        /\ \A u \in Txns \ {t} : pc'[u] = pc[u] /\ todo'[u] = todo[u]
        /\ pc' \in [Txns -> Steps] /\ todo' \in [Txns -> SUBSET Cards]
    BY <1>0, <1>1, GoEffect
  <2>3. LockInv'
    BY <1>0, <1>1, <2>2, LockFrame
  <2>4. \A c \in Members[t] : Name(t, c)' = Name(t, c)
    BY <2>1 DEF Name
  <2>5. (Fresh(t) => Fresh(t)') /\ (Filed(t) => Filed(t)')
    BY <1>1, <2>4 DEF Fresh, Filed
  <2>6. MarkOK(t)'
    BY <1>0, <1>1, <2>1, <2>5 DEF MarkOK, Fresh
  <2>7. CallOK(t)'
    BY <1>1, <2>1, <2>2 DEF CallOK, CallAt
  <2> QED
    BY <1>1, <2>1, <2>2, <2>3, <2>6, <2>7, MarkedStep
<1>2. CASE MarkStaged(t)
  <2>1. pc[t] = "stage" /\ marker' = [marker EXCEPT ![t].state = "staged"] /\ Go(t, "idle", {})
        /\ UNCHANGED <<current, files, ever>>
    BY <1>2 DEF MarkStaged, cards, disk
  <2>2. marker[t].state = "staging" /\ Filed(t) /\ Fresh(t)
    BY <1>0, <2>1 DEF CallOK, CallAt, MarkOK
  <2>3. "staged" \in States /\ "idle" \in Steps
    BY DEF States, Steps
  <2> QED
    BY <1>0, <1>1, <2>1, <2>2, <2>3
<1>3. CASE MarkPublished(t)
  <2>1. pc[t] = "advance" /\ marker' = [marker EXCEPT ![t].state = "published"] /\ Go(t, "effects", {})
        /\ UNCHANGED <<current, files, ever>>
    BY <1>3 DEF MarkPublished, cards, disk
  <2>2. marker[t].state # "none" /\ Filed(t)
    BY <1>0, <2>1 DEF CallOK, CallAt, MarkOK
  <2>3. "published" \in States /\ "effects" \in Steps
    BY DEF States, Steps
  <2> QED
    BY <1>0, <1>1, <2>1, <2>2, <2>3
<1>4. CASE Retire(t)
  <2>1. pc[t] \in {"retire", "release"} /\ marker' = [marker EXCEPT ![t].state = "rolled_back"]
        /\ Go(t, "delete", Members[t]) /\ UNCHANGED <<current, files, ever>>
    BY <1>4 DEF Retire, cards, disk
  <2>2. marker[t].state # "none" /\ Fresh(t)
    BY <1>0, <2>1 DEF CallOK, CallAt, MarkOK
  <2>3. "rolled_back" \in States /\ "delete" \in Steps
    BY DEF States, Steps
  <2> QED
    BY <1>0, <1>1, <2>1, <2>2, <2>3
<1> QED
  BY <1>2, <1>3, <1>4

\* A version that is staged anew is numbered above every version its Card had.
LEMMA StageFreshStep == ASSUME VersionInv, NEW t \in Txns, StageFresh(t) PROVE VersionInv'
<1> DEFINE m == [state |-> "staging", base |-> [c \in Members[t] |-> current[c]],
                 reads |-> [c \in Reads[t] |-> current[c].ver], done |-> 0]
<1>0. Types /\ LockInv /\ CardInv /\ Members[t] \in SUBSET Cards /\ Members[t] # {}
  BY MembersAreCards DEF VersionInv
<1>1. marker' = [marker EXCEPT ![t] = m] /\ Enter(t) /\ Go(t, "reserve", Members[t])
  BY DEF StageFresh
<1>2. UNCHANGED <<current, files, ever>>
  BY DEF StageFresh, cards, disk
<1>3. \A c \in Cards : current[c] \in Versions /\ current[c].ver \in Nat
  BY <1>0 DEF Types, Versions
<1>4. m.base \in [Members[t] -> Versions] /\ m.reads \in [Reads[t] -> Nat]
  BY <1>0, <1>3, VersionAssumption
<1>5. m \in Markers
  BY <1>4 DEF Markers, States, Observed, ReadNumbers
<1>6. m.state = "staging" /\ \A c \in Members[t] : m.base[c] = current[c]
  OBVIOUS
<1> HIDE DEF m
<1>7. /\ marker' \in [Txns -> Markers] /\ marker'[t] = m
      /\ \A u \in Txns \ {t} : marker'[u] = marker[u]
  BY <1>0, <1>1, <1>5 DEF Types
<1>8. "reserve" \in Steps
  BY DEF Steps
<1>9. /\ pc'[t] = "reserve" /\ todo'[t] = Members[t]
      /\ \A u \in Txns \ {t} : pc'[u] = pc[u] /\ todo'[u] = todo[u]
      /\ pc' \in [Txns -> Steps] /\ todo' \in [Txns -> SUBSET Cards]
  BY <1>0, <1>1, <1>8, GoEffect
<1>10. Fresh(t)'
  <2> SUFFICES ASSUME NEW c \in Members[t] PROVE Name(t, c)' \notin ever[c]
    BY <1>2 DEF Fresh
  <2>1. Name(t, c)'.ver = current[c].ver + 1
    BY <1>6, <1>7 DEF Name
  <2>2. \A n \in ever[c] : n.ver \in Nat /\ n.ver <= current[c].ver
    BY <1>0, SMT DEF Types, Versions, CardInv
  <2> QED
    BY <1>0, <1>3, <2>1, <2>2, SMT
<1>11. MarkOK(t)'
  BY <1>4, <1>6, <1>7, <1>10 DEF MarkOK
<1>12. CallOK(t)'
  BY <1>0, <1>9 DEF CallOK, CallAt
<1>13. LockInv'
  BY <1>0, <1>1, <1>9, LockEnter
<1> QED
  BY <1>2, <1>7, <1>9, <1>11, <1>12, <1>13, MarkedStep

\* The marker is deleted last.
LEMMA ForgetStep == ASSUME VersionInv, NEW t \in Txns, Forget(t) PROVE VersionInv'
<1>0. Types /\ LockInv /\ {} \in SUBSET Cards /\ "idle" \in Steps
  BY DEF VersionInv, Steps
<1>1. marker' = [marker EXCEPT ![t] = NoMarker] /\ Go(t, "idle", {}) /\ UNCHANGED <<current, files, ever>>
  BY DEF Forget, cards, disk
<1>2. NoMarker \in Markers /\ NoMarker.state = "none"
  BY DEF NoMarker, Markers, States, Observed, ReadNumbers
<1>3. /\ marker' \in [Txns -> Markers] /\ marker'[t].state = "none"
      /\ \A u \in Txns \ {t} : marker'[u] = marker[u]
  BY <1>0, <1>1, <1>2 DEF Types
<1>4. /\ pc'[t] = "idle" /\ todo'[t] = {}
      /\ \A u \in Txns \ {t} : pc'[u] = pc[u] /\ todo'[u] = todo[u]
      /\ pc' \in [Txns -> Steps] /\ todo' \in [Txns -> SUBSET Cards]
  BY <1>0, <1>1, GoEffect
<1>5. MarkOK(t)' /\ CallOK(t)'
  BY <1>3, <1>4 DEF MarkOK, CallOK, CallAt
<1>6. LockInv'
  BY <1>0, <1>4, LockFrame
<1> QED
  BY <1>1, <1>3, <1>4, <1>5, <1>6, MarkedStep

\* The versions of two transactions, and of none, differ.
LEMMA NamesDiffer ==
    ASSUME NEW t \in Txns, NEW u \in Txns, t # u, NEW c, NEW d
    PROVE  Name(t, c) # Name(u, d)
BY DEF Name

\* A revision file is written, or one of a retired version deleted.
LEMMA FileSteps ==
    ASSUME VersionInv, NEW t \in Txns, WriteRevision(t) \/ DeleteRevision(t)
    PROVE  VersionInv'
<1>0. /\ Types /\ LockInv /\ CardInv /\ MarkInv /\ CallInv /\ MarkOK(t) /\ CallOK(t)
      /\ Members[t] \in SUBSET Cards
  BY MembersAreCards DEF VersionInv, MarkInv, CallInv
<1>1. todo[t] # {} /\ todo[t] \subseteq Members[t] /\ pc[t] # "idle" /\ marker[t].state \in {"staging", "rolled_back"}
  BY <1>0 DEF WriteRevision, DeleteRevision, CallOK, CallAt
<1>2. PICK c \in todo[t] : c = First(t)
  BY <1>0, <1>1, FirstLeft
<1>3. PICK n : n = Name(t, c)
  OBVIOUS
<1>4. c \in Members[t] /\ c \in Cards
  BY <1>0, <1>1
<1>5. n \in Versions
  <2>1. marker[t].base[c] \in Versions
    BY <1>0, <1>1, <1>4 DEF MarkOK
  <2> QED
    BY <1>3, <2>1, SMT DEF Name, Versions
<1>6. UNCHANGED <<current, ever, marker>>
  BY DEF WriteRevision, DeleteRevision, cards
<1>7. files' \in {[files EXCEPT ![c] = @ \cup {n}], [files EXCEPT ![c] = @ \ {n}]}
  BY <1>2, <1>3 DEF WriteRevision, DeleteRevision
<1>8. files' \in [Cards -> SUBSET Versions]
  BY <1>0, <1>5, <1>7, SMT DEF Types
<1>9. \A d \in Cards : \A k \in files[d] : k # n => k \in files'[d]
  BY <1>0, <1>7 DEF Types
<1>10. Fresh(t)
  BY <1>0, <1>1 DEF MarkOK
<1>11. CardInv'
  <2>1. n \notin ever[c]
    BY <1>3, <1>4, <1>10 DEF Fresh
  <2>2. \A d \in Cards \ {c} : files'[d] = files[d]
    BY <1>0, <1>7 DEF Types
  <2>3. \A d \in Cards : ever[d] \subseteq files'[d]
    BY <1>0, <1>9, <2>1, <2>2 DEF CardInv
  <2> QED
    BY <1>0, <1>6, <2>3 DEF CardInv
<1>12. \A u \in Txns \ {t} : Kept(u)
  <2> SUFFICES ASSUME NEW u \in Txns \ {t}, NEW d \in Members[u], Name(u, d) \in files[d]
               PROVE  Name(u, d) \in files'[d]
    BY <1>6 DEF Kept
  <2>1. d \in Cards /\ Name(u, d) # n
    BY <1>3, MembersAreCards, NamesDiffer
  <2> QED
    BY <1>9, <2>1
<1>13. \A d \in Members[t] : Name(t, d)' = Name(t, d)
  BY <1>6 DEF Name
<1>14. MarkOK(t)'
  BY <1>0, <1>1, <1>6, <1>13 DEF MarkOK, Fresh
<1>15. ASSUME NEW step \in Steps, NEW left \in SUBSET Cards, Go(t, step, left),
              CallAt(t, step, left)' PROVE VersionInv'
  <2>1. /\ pc'[t] = step /\ todo'[t] = left
        /\ \A u \in Txns \ {t} : pc'[u] = pc[u] /\ todo'[u] = todo[u]
        /\ pc' \in [Txns -> Steps] /\ todo' \in [Txns -> SUBSET Cards]
    BY <1>0, <1>15, GoEffect
  <2>2. Types'
    BY <1>0, <1>6, <1>8, <2>1 DEF Types
  <2>3. LockInv'
    BY <1>0, <1>1, <2>1, LockFrame
  <2>4. MarkInv'
    BY <1>0, <1>12, <1>14, MarkKept DEF MarkInv
  <2>5. CallOK(t)'
    BY <1>15, <2>1 DEF CallOK, CallAt
  <2>6. CallInv'
    BY <1>0, <1>12, <2>1, <2>5, CallKept DEF CallInv
  <2> QED
    BY <1>11, <2>2, <2>3, <2>4, <2>6 DEF VersionInv
<1>16. CASE WriteRevision(t)
  <2>1. marker[t].state = "staging" /\ \A d \in Members[t] \ todo[t] : Name(t, d) \in files[d]
    BY <1>0, <1>16 DEF WriteRevision, CallOK, CallAt
  <2>2. files' = [files EXCEPT ![c] = @ \cup {n}] /\ Loop(t, "sidecar", "stage")
    BY <1>2, <1>3, <1>16 DEF WriteRevision
  <2>3. \A d \in Members[t] \ (todo[t] \ {c}) : Name(t, d)' \in files'[d]
    BY <1>0, <1>3, <1>4, <1>13, <2>1, <2>2 DEF Types
  <2>4. CASE todo[t] = {c}
    <3>1. Go(t, "stage", Members[t]) /\ "stage" \in Steps
      BY <1>2, <2>2, <2>4 DEF Loop, Steps
    <3>2. \A d \in Members[t] : Name(t, d)' \in files'[d]
      BY <2>3, <2>4
    <3>3. CallAt(t, "stage", Members[t])'
      BY <1>6, <2>1, <3>2 DEF CallAt, Filed
    <3> QED
      BY <1>0, <1>15, <3>1, <3>3
  <2>5. CASE todo[t] # {c}
    <3>1. PICK left \in SUBSET Cards : left = todo[t] \ {c}
      BY <1>0, <1>1
    <3>2. Go(t, "sidecar", left) /\ "sidecar" \in Steps
      BY <1>2, <2>2, <2>5, <3>1 DEF Loop, Steps
    <3>3. left # {} /\ left \subseteq Members[t]
      BY <1>1, <2>5, <3>1
    <3>4. \A d \in Members[t] \ left : Name(t, d)' \in files'[d]
      BY <2>3, <3>1
    <3>5. CallAt(t, "sidecar", left)'
      BY <1>6, <2>1, <3>3, <3>4 DEF CallAt
    <3> QED
      BY <1>15, <3>2, <3>5
  <2> QED
    BY <2>4, <2>5
<1>17. CASE DeleteRevision(t)
  <2>1. marker[t].state = "rolled_back" /\ Go(t, "deletesidecar", todo[t]) /\ "deletesidecar" \in Steps
    BY <1>0, <1>17 DEF DeleteRevision, CallOK, CallAt, Steps
  <2>2. PICK left \in SUBSET Cards : left = todo[t]
    BY <1>0, <1>1
  <2>3. CallAt(t, "deletesidecar", left)'
    BY <1>1, <1>6, <2>1, <2>2 DEF CallAt
  <2> QED
    BY <1>15, <2>1, <2>2, <2>3
<1> QED
  BY <1>16, <1>17

\* A pointer moves to a new version n of Card c: what it leaves was settled, and n is numbered higher.
LEMMA PointerStep ==
    ASSUME VersionInv, NEW c \in Cards, NEW n \in Versions, Settled(c), n # Absent,
           current' = [current EXCEPT ![c] = n], ever' = [ever EXCEPT ![c] = @ \cup {n}],
           files' \in [Cards -> SUBSET Versions], \A d \in Cards : files[d] \subseteq files'[d], n \in files'[c],
           marker' = marker, n.ver > current[c].ver
    PROVE  /\ current' \in [Cards -> Versions] /\ ever' \in [Cards -> SUBSET Versions]
           /\ CardInv'
           /\ \A u \in Txns : n.txn # u /\ (pc[u] = "advance" => c \notin todo[u]) => Kept(u)
<1>0. Types /\ CardInv
  BY DEF VersionInv
<1>1. current' \in [Cards -> Versions] /\ ever' \in [Cards -> SUBSET Versions]
  BY <1>0 DEF Types
<1>2. /\ current'[c] = n /\ ever'[c] = ever[c] \cup {n}
      /\ \A d \in Cards \ {c} : current'[d] = current[d] /\ ever'[d] = ever[d]
  BY <1>0 DEF Types
<1>3. \A d \in Cards : current[d].ver \in Nat /\ \A k \in ever[d] : k.ver \in Nat
  BY <1>0, SMT DEF Types, Versions
<1>4. n.ver \in Nat
  BY DEF Versions
<1>5. CardInv'
  <2> SUFFICES ASSUME NEW d \in Cards
               PROVE  /\ current'[d] = Absent \/ current'[d] \in ever'[d]
                      /\ \A k \in ever'[d] : k.ver <= current'[d].ver
                      /\ ever'[d] \subseteq files'[d]
    BY DEF CardInv
  <2>1. CASE d = c
    <3>1. \A k \in ever[c] : k.ver <= n.ver
      BY <1>0, <1>3, <1>4, SMT DEF CardInv
    <3> QED
      BY <1>0, <1>2, <1>4, <2>1, <3>1, SMT DEF CardInv
  <2>2. CASE d # c
    BY <1>0, <1>2, <2>2 DEF CardInv
  <2> QED
    BY <2>1, <2>2
<1>6. ASSUME NEW u \in Txns, n.txn # u, pc[u] = "advance" => c \notin todo[u] PROVE Kept(u)
  <2>1. ASSUME NEW d \in Members[u]
        PROVE  /\ Name(u, d) \in files[d] => Name(u, d) \in files'[d]
               /\ Name(u, d) \in ever'[d] => Name(u, d) \in ever[d]
               /\ marker[u].state = "staged" /\ Own(u, d) => current'[d] = current[d]
               /\ pc[u] = "advance" /\ d \in todo[u] => current'[d] = current[d]
    <3>1. d \in Cards
      BY MembersAreCards
    <3>2. Name(u, d).txn = u
      BY DEF Name
    <3>3. Name(u, d) # n
      BY <1>6, <3>2
    <3>4. marker[u].state = "staged" /\ Own(u, d) => d # c
      <4> SUFFICES ASSUME marker[u].state = "staged", current[c] = Name(u, c), d = c PROVE FALSE
        BY DEF Own
      <4>1. current[c].txn = u /\ u # NoTxn
        BY <3>2, VersionAssumption
      <4> QED
        BY <4>1 DEF Settled
    <3>5. Name(u, d) \in files[d] => Name(u, d) \in files'[d]
      BY <3>1
    <3>6. d # c => current'[d] = current[d] /\ ever'[d] = ever[d]
      BY <1>2, <3>1
    <3>7. Name(u, d) \in ever'[d] => Name(u, d) \in ever[d]
      <4>1. CASE d = c
        BY <1>2, <3>3, <4>1
      <4> QED
        BY <3>6, <4>1
    <3>8. pc[u] = "advance" /\ d \in todo[u] => d # c
      BY <1>6
    <3> QED
      BY <3>4, <3>5, <3>6, <3>7, <3>8
  <2> QED
    BY <2>1 DEF Kept
<1> QED
  BY <1>1, <1>5, <1>6

\* A writer that is no transaction's.
LEMMA LocalStep == ASSUME VersionInv, NEW c \in Cards, LocalWrite(c) PROVE VersionInv'
<1>0. Types /\ LockInv /\ CardInv /\ MarkInv /\ CallInv
  BY DEF VersionInv
<1>1. current[c].ver \in Nat
  BY <1>0 DEF Types, Versions
<1>2. PICK n \in Versions : n = [txn |-> NoTxn, ver |-> current[c].ver + 1]
  <2>1. [txn |-> NoTxn, ver |-> current[c].ver + 1] \in Versions
    BY <1>1, SMT DEF Versions
  <2> QED
    BY <2>1
<1>3. /\ current' = [current EXCEPT ![c] = n] /\ ever' = [ever EXCEPT ![c] = @ \cup {n}]
      /\ files' = [files EXCEPT ![c] = @ \cup {n}]
      /\ marker' = marker /\ pc' = pc /\ todo' = todo /\ Settled(c) /\ ~Held(c)
  BY <1>2 DEF LocalWrite
<1>4. n.ver = current[c].ver + 1 /\ n.txn = NoTxn
  BY <1>2
<1>5. n # Absent /\ n.ver > current[c].ver
  <2>1. n.ver > 0 /\ n.ver > current[c].ver
    BY <1>1, <1>4, SMT
  <2>2. Absent.ver = 0
    BY DEF Absent
  <2> QED
    BY <2>1, <2>2, SMT
<1>6. files' \in [Cards -> SUBSET Versions] /\ (\A d \in Cards : files[d] \subseteq files'[d]) /\ n \in files'[c]
  BY <1>0, <1>3 DEF Types
<1>7. /\ current' \in [Cards -> Versions] /\ ever' \in [Cards -> SUBSET Versions]
      /\ CardInv'
      /\ \A u \in Txns : n.txn # u /\ (pc[u] = "advance" => c \notin todo[u]) => Kept(u)
  BY <1>3, <1>5, <1>6, PointerStep
<1>8. ASSUME NEW u \in Txns PROVE Kept(u)
  <2>1. pc[u] = "advance" => c \notin todo[u]
    BY <1>0, <1>3 DEF Held, Locks, CallInv, CallOK, CallAt
  <2> QED
    BY <1>4, <1>7, <2>1, VersionAssumption
<1>9. Types'
  BY <1>0, <1>3, <1>6, <1>7 DEF Types
<1>10. LockInv'
  BY <1>0, <1>3, LockFrame
<1>11. MarkInv'
  BY <1>0, <1>8, MarkKept DEF MarkInv
<1>12. CallInv'
  BY <1>0, <1>3, <1>8, CallKept DEF CallInv
<1> QED
  BY <1>7, <1>9, <1>10, <1>11, <1>12 DEF VersionInv

\* PUBLISH moves a pointer.
LEMMA AdvanceStep == ASSUME VersionInv, NEW t \in Txns, Advance(t) PROVE VersionInv'
<1>0. /\ Types /\ LockInv /\ CardInv /\ MarkInv /\ CallInv /\ MarkOK(t) /\ CallOK(t)
      /\ Members[t] \in SUBSET Cards /\ t # NoTxn
  BY MembersAreCards, VersionAssumption DEF VersionInv, MarkInv, CallInv
<1>1. /\ pc[t] = "advance" /\ todo[t] # {} /\ todo[t] \subseteq Members[t]
      /\ marker[t].state \in {"staged", "published"} /\ \A d \in todo[t] : current[d] = marker[t].base[d]
  BY <1>0 DEF Advance, CallOK, CallAt
<1>2. PICK c \in todo[t] : c = First(t)
  BY <1>0, <1>1, FirstLeft
<1>3. c \in Members[t] /\ c \in Cards /\ current[c] = marker[t].base[c] /\ current[c].ver \in Nat
  BY <1>0, <1>1 DEF Types, Versions
<1>4. Name(t, c) = [txn |-> t, ver |-> current[c].ver + 1]
  BY <1>3 DEF Name
<1>5. PICK n \in Versions : n = Name(t, c)
  BY <1>3, <1>4, SMT DEF Versions
<1>6. n.txn = t /\ n.ver = current[c].ver + 1
  BY <1>4, <1>5, SMT
<1>7. n # Absent /\ n.ver > current[c].ver
  <2>1. Absent.txn = NoTxn
    BY DEF Absent
  <2> QED
    BY <1>0, <1>3, <1>6, <2>1, SMT
<1>8. /\ current' = [current EXCEPT ![c] = n] /\ ever' = [ever EXCEPT ![c] = @ \cup {n}]
      /\ files' = files /\ marker' = marker /\ Settled(c) /\ Go(t, "advance", todo[t] \ {c})
  BY <1>2, <1>5 DEF Advance, disk
<1>9. files' \in [Cards -> SUBSET Versions] /\ (\A d \in Cards : files[d] \subseteq files'[d]) /\ n \in files'[c]
  BY <1>0, <1>1, <1>3, <1>5, <1>8 DEF Types, MarkOK, Filed
<1>10. /\ current' \in [Cards -> Versions] /\ ever' \in [Cards -> SUBSET Versions]
       /\ CardInv'
       /\ \A u \in Txns : n.txn # u /\ (pc[u] = "advance" => c \notin todo[u]) => Kept(u)
  BY <1>3, <1>7, <1>8, <1>9, PointerStep
<1>11. ASSUME NEW u \in Txns \ {t} PROVE Kept(u)
  <2>1. pc[u] = "advance" => c \notin todo[u]
    <3>1. pc[u] = "advance" => Locks(t) \cap Locks(u) = {}
      BY <1>0, <1>1, <1>11 DEF LockInv
    <3>2. todo[u] \subseteq Members[u]
      BY <1>0, <1>11 DEF CallInv, CallOK, CallAt
    <3> QED
      BY <1>3, <3>1, <3>2 DEF Locks
  <2> QED
    BY <1>6, <1>10, <1>11, <2>1
<1>12. PICK left \in SUBSET Cards : left = todo[t] \ {c}
  BY <1>0, <1>1
<1>13. "advance" \in Steps
  BY DEF Steps
<1>14. /\ pc'[t] = "advance" /\ todo'[t] = left
       /\ \A u \in Txns \ {t} : pc'[u] = pc[u] /\ todo'[u] = todo[u]
       /\ pc' \in [Txns -> Steps] /\ todo' \in [Txns -> SUBSET Cards]
  <2>1. Go(t, "advance", left)
    BY <1>8, <1>12
  <2> QED
    BY <1>0, <1>13, <2>1, GoEffect
<1>15. \A d \in Members[t] : Name(t, d)' = Name(t, d)
  BY <1>8 DEF Name
<1>16. MarkOK(t)'
  <2>1. /\ current'[c] = n /\ ever'[c] = ever[c] \cup {n}
        /\ \A d \in Cards \ {c} : current'[d] = current[d] /\ ever'[d] = ever[d]
    BY <1>0, <1>3, <1>8 DEF Types
  <2>2. Filed(t)'
    BY <1>0, <1>1, <1>8, <1>15 DEF MarkOK, Filed
  <2>3. ASSUME marker[t].state = "staged", NEW d \in Members[t], Name(t, d)' \in ever'[d] PROVE Own(t, d)'
    <3>1. CASE d = c
      BY <1>5, <1>15, <2>1, <3>1 DEF Own
    <3>2. CASE d # c
      BY <1>0, <1>15, <2>1, <2>3, <3>2 DEF MarkOK, Own
    <3> QED
      BY <3>1, <3>2
  <2> QED
    BY <1>0, <1>1, <1>8, <2>2, <2>3 DEF MarkOK
<1>17. CallOK(t)'
  <2>1. \A d \in left : current'[d] = current[d] /\ d \in todo[t]
    BY <1>0, <1>8, <1>12 DEF Types
  <2> QED
    BY <1>1, <1>8, <1>12, <1>14, <2>1 DEF CallOK, CallAt
<1>18. Types'
  BY <1>0, <1>8, <1>10, <1>14 DEF Types
<1>19. LockInv'
  BY <1>0, <1>1, <1>14, LockFrame
<1>20. MarkInv'
  BY <1>0, <1>11, <1>16, MarkKept DEF MarkInv
<1>21. CallInv'
  BY <1>0, <1>11, <1>14, <1>17, CallKept DEF CallInv
<1> QED
  BY <1>10, <1>18, <1>19, <1>20, <1>21 DEF VersionInv

\* The invariant holds in every state that cut, repeated and concurrent STAGE, PUBLISH, ROLLBACK and compensation
\* calls reach.
THEOREM VersionsInductive == Spec => []VersionInv
<1>1. ASSUME VersionInv, Next PROVE VersionInv'
  <2>1. ASSUME NEW t \in Txns, TxnStep(t) PROVE VersionInv'
    <3>1. CASE StageAgain(t) \/ Reserve(t) \/ StagedAnswer(t) \/ WriteSidecar(t)
      BY <1>1, <3>1, StageQuiet
    <3>2. CASE FinishPublished(t) \/ Unfence(t) \/ FreeBase(t) \/ DeleteSidecar(t) \/ Stop(t)
      BY <1>1, <3>2, FinishQuiet
    <3>3. CASE Publish(t) \/ Rollback(t)
      BY <1>1, <3>3, StartQuiet
    <3>4. CASE \/ ApplyEffect(t) \/ RecordEffect(t) \/ RollbackUnknown(t) \/ Compensate(t)
               \/ \E i \in 1..Effects[t] : Prepare(t, i) \/ ReleaseEffect(t, i)
      BY <1>1, <3>4, StillSteps
    <3>5. CASE \E c \in Cards : Finalize(t, c)
      BY <1>1, <3>5, FinalizeStep
    <3>6. CASE MarkStaged(t) \/ MarkPublished(t) \/ Retire(t)
      BY <1>1, <3>6, MarkerSteps
    <3>7. CASE StageFresh(t)
      BY <1>1, <3>7, StageFreshStep
    <3>8. CASE Forget(t)
      BY <1>1, <3>8, ForgetStep
    <3>9. CASE WriteRevision(t) \/ DeleteRevision(t)
      BY <1>1, <3>9, FileSteps
    <3>10. CASE Advance(t)
      BY <1>1, <3>10, AdvanceStep
    <3> QED
      BY <2>1, <3>1, <3>2, <3>3, <3>4, <3>5, <3>6, <3>7, <3>8, <3>9, <3>10 DEF TxnStep
  <2>2. ASSUME NEW c \in Cards, LocalWrite(c) PROVE VersionInv'
    BY <1>1, <2>2, LocalStep
  <2>3. CASE (\E c \in Cards : ReadPointer(c)) \/ ReadFence \/ ReadAgain \/ Serve
    BY <1>1, <2>3, StillSteps
  <2> QED
    BY <1>1, <2>1, <2>2, <2>3 DEF Next
<1>2. ASSUME VersionInv, UNCHANGED vars PROVE VersionInv'
  <2>1. Quiet /\ UNCHANGED <<pc, todo>>
    BY <1>2 DEF vars, Quiet, VersionInv, Types
  <2> QED
    BY <1>2, <2>1, QuietStill
<1> QED
  BY <1>1, <1>2, InitVersions, PTL DEF Spec

\* No cut, repetition or interleaving of STAGE, PUBLISH, ROLLBACK, compensation and other writes loses the file of
\* a version that was ever current (card_version_rollback, _release_and_forget).
THEOREM PublishedKept == Spec => []PublishedIsKept
<1>1. VersionInv => PublishedIsKept
  BY DEF VersionInv, CardInv, PublishedIsKept
<1> QED
  BY <1>1, VersionsInductive, PTL

\* A transaction whose marker says rolled_back has no version that was ever current: what ROLLBACK retired was
\* never served (_release_and_forget).
THEOREM RolledBackWasNeverCurrent ==
    Spec => [](\A t \in Txns : marker[t].state = "rolled_back" => \A c \in Members[t] : Name(t, c) \notin ever[c])
<1>1. VersionInv => \A t \in Txns : marker[t].state = "rolled_back" => \A c \in Members[t] : Name(t, c) \notin ever[c]
  BY DEF VersionInv, MarkInv, MarkOK, Fresh
<1> QED
  BY <1>1, VersionsInductive, PTL
----------------------------------------------------------------------------
(* What the transactions come to: a publication that began is completed,   *)
(* what a reader serves is final, what a transaction leaves behind, what   *)
(* it was told, and what a compensation replaces.                          *)

Slots == [txn : Txns \cup {NoTxn}, base : Versions]
Answers == {"none", "published", "denied"}

\* The variables that the first invariant does not speak of.
RestTypes == /\ fenced \in [Cards -> SUBSET Versions] /\ slot \in [Cards -> Slots]
             /\ plan \in [Txns -> {NoPlan} \cup UNION {[Members[t] -> Nat] : t \in Txns}]
             /\ DOMAIN eff = Txns
             /\ \A t \in Txns : eff[t] \in [1..Effects[t] -> {"none", "prepared", "applied"}]
             /\ undo \in [Txns -> {"idle", "stage", "publish"}] /\ said \in [Txns -> Answers]

\* A Card has one version of each number.
NumberInv == \A c \in Cards : \A n, m \in ever[c] : n.ver = m.ver => n = m

\* A version of t was current on c.
Was(t, c) == \E n \in ever[c] : n.txn = t
NoneTaken(t) == \A i \in 1..Effects[t] : eff[t][i] = "none"
AllApplied(t) == \A i \in 1..Effects[t] : eff[t][i] = "applied"
Mine(t, c) == [txn |-> t, base |-> marker[t].base[c]]

\* What t was authorized against is what its marker names, and what numbers its versions.
PlanOK(t) == /\ plan[t] # NoPlan => plan[t] \in [Members[t] -> Nat]
             /\ marker[t].state # "none" => /\ plan[t] # NoPlan
                                            /\ \A c \in Members[t] : plan[t][c] = marker[t].base[c].ver
             /\ \A c \in Cards : \A n \in ever[c] : n.txn = t =>
                  c \in Members[t] /\ plan[t] # NoPlan /\ n.ver = plan[t][c] + 1

\* Effects are applied in the order the marker counts, behind a published marker.
EffOK(t) == /\ marker[t].state \in {"staging", "staged", "rolled_back"} =>
                 marker[t].done = 0 /\ \A i \in 1..Effects[t] : eff[t][i] # "applied"
            /\ marker[t].state = "rolled_back" => NoneTaken(t)
            /\ marker[t].state = "published" => /\ marker[t].done <= Effects[t]
                                                /\ \A i \in 1..marker[t].done : eff[t][i] = "applied"
                                                /\ \A c \in Members[t] : Was(t, c)
            /\ marker[t].state = "none" => \/ NoneTaken(t) /\ \A c \in Cards : ~Was(t, c)
                                           \/ AllApplied(t) /\ \A c \in Members[t] : Was(t, c)

\* A publication that began keeps its Cards.
PubOK(t) == /\ marker[t].state = "staged" /\ (\E c \in Members[t] : Own(t, c)) =>
                 \A c \in Members[t] : Own(t, c) \/ (current[c] = marker[t].base[c] /\ slot[c] = Mine(t, c))
            /\ marker[t].state = "published" /\ ~EffectsComplete(t) => \A c \in Members[t] : Own(t, c)

\* What a transaction has on disk is named by its marker, or was current.
RestOK(t) == \A c \in Cards :
    /\ slot[c].txn = t => c \in Members[t] /\ marker[t].state # "none"
    /\ \A n \in fenced[c] : n.txn = t => c \in Members[t] /\ marker[t].state # "none" /\ n = Name(t, c)
    /\ \A n \in files[c] : n.txn = t =>
         n \in ever[c] \/ (c \in Members[t] /\ marker[t].state # "none" /\ n = Name(t, c))

Unfenced(t, c) == \A n \in fenced[c] : n.txn # t
\* What a call at step p with members S left has done.
StepAt(t, p, S) ==
    /\ p \in {"reserve", "prepare"} => marker[t].state \in {"staging", "staged"}
    /\ p = "advance" => /\ marker[t].state = "staged"
                        /\ \A c \in S : current[c] = marker[t].base[c] /\ slot[c] = Mine(t, c)
                        /\ \A c \in Members[t] \ S : Own(t, c)
    /\ p \in {"effects", "unfence"} => marker[t].state = "published"
    /\ p = "unfence" => EffectsComplete(t) /\ S # {} /\ \A c \in Members[t] \ S : Unfenced(t, c)
    /\ p \in {"free", "forget"} =>
         /\ marker[t].state = "rolled_back" \/ (marker[t].state = "published" /\ EffectsComplete(t))
         /\ \A c \in Members[t] : Unfenced(t, c)
         /\ marker[t].state = "rolled_back" => \A c \in Members[t] : Name(t, c) \notin files[c]
    /\ p = "free" => S # {} /\ \A c \in Members[t] \ S : slot[c].txn # t
    /\ p = "forget" => \A c \in Members[t] : slot[c].txn # t
    /\ p \in {"delete", "deletesidecar"} => \A c \in Members[t] \ S : Name(t, c) \notin files[c] /\ Unfenced(t, c)
    /\ p = "deletesidecar" => Name(t, Min(S)) \notin files[Min(S)]

StepOK(t) == StepAt(t, pc[t], todo[t])

\* What was told stays true.
SaidOK(t) == said[t] # "denied" /\ (said[t] = "published" => \A c \in Members[t] : Was(t, c))

\* A compensation found, and its marker names, versions of the transaction it undoes.
UndoOK(x) == LET t == Undoes[x]
             IN  t # NoTxn => /\ undo[x] # "idle" => \A c \in Members[x] : Was(t, c) \/ Was(x, c)
                              /\ marker[x].state # "none" => \A c \in Members[x] : marker[x].base[c].txn = t

Readers == [at : {"idle", "fence", "again", "serve"}, card : Cards \cup {0}, name : Versions]
\* What the reader holds was current, and its effects are applied once it has passed the fence.
ReadInv == /\ rd \in Readers
           /\ rd.at # "idle" => /\ rd.card \in Cards /\ rd.name \in ever[rd.card] /\ rd.name.txn \in Txns
                                /\ rd.at \in {"again", "serve"} => AllApplied(rd.name.txn)

TxnOK(t) == PlanOK(t) /\ EffOK(t) /\ PubOK(t) /\ RestOK(t) /\ StepOK(t) /\ SaidOK(t) /\ UndoOK(t)
TxnInv == \A t \in Txns : TxnOK(t)

\* What a step leaves a transaction of its versions, files, sidecars, reservations and pointers.
EverKept(u) == \A c \in Cards : \A n \in Versions : n.txn = u => (n \in ever'[c] <=> n \in ever[c])
FilesKept(u) == \A c \in Cards : \A n \in Versions : n.txn = u => (n \in files'[c] <=> n \in files[c])
FencedKept(u) == \A c \in Cards : \A n \in Versions : n.txn = u => (n \in fenced'[c] <=> n \in fenced[c])
SlotKept(u) == \A c \in Cards : slot[c].txn = u \/ slot'[c].txn = u => slot'[c] = slot[c]
PointerKept(u) == \A c \in Cards : current'[c] # current[c] =>
    slot[c].txn # u /\ Settled(c) /\ current'[c].txn # u /\ (pc[u] # "idle" => c \notin Locks(u))
MarkerKept(u) == marker'[u] = marker[u]
BaseKept(u) == marker'[u].state = marker[u].state /\ marker'[u].base = marker[u].base
Grows == \A c \in Cards : ever[c] \subseteq ever'[c]

\* A member is a Card, and a transaction is not NoTxn.
LEMMA MemberIsCard == ASSUME NEW t \in Txns, NEW c \in Members[t] PROVE c \in Cards /\ t # NoTxn
BY VersionAssumption

\* What a version's name says.
LEMMA NameFields == ASSUME NEW t, NEW c PROVE Name(t, c).txn = t /\ Name(t, c).ver = marker[t].base[c].ver + 1
BY DEF Name

\* A reservation of t's names t.
LEMMA MineFields == ASSUME NEW t, NEW c PROVE Mine(t, c).txn = t
BY DEF Mine

\* A marker that keeps its base keeps the names.
LEMMA NameKept == ASSUME NEW t, NEW c, marker'[t].base = marker[t].base PROVE Name(t, c)' = Name(t, c)
BY DEF Name

\* What a marker names is a version.
LEMMA NameIsVersion ==
    ASSUME Types, NEW t \in Txns, NEW c \in Members[t], MarkOK(t), marker[t].state # "none"
    PROVE  Name(t, c) \in Versions
<1>1. marker[t].base[c] \in Versions
  BY DEF MarkOK
<1>2. marker[t].base[c].ver + 1 \in Nat
  BY <1>1, SMT DEF Versions
<1> QED
  BY <1>2 DEF Name, Versions

\* A transaction of which no version comes or goes was current where it was before ...
LEMMA WasKept == ASSUME Types, Types', NEW u \in Txns, EverKept(u) PROVE \A c \in Cards : Was(u, c)' <=> Was(u, c)
<1>1. \A c \in Cards : ever[c] \subseteq Versions /\ ever'[c] \subseteq Versions
  BY DEF Types
<1> QED
  BY <1>1 DEF Was, EverKept

\* ... and what was current stays so.
LEMMA WasGrows == ASSUME Grows, NEW u PROVE \A c \in Cards : Was(u, c) => Was(u, c)'
BY DEF Was, Grows

\* What holds of a transaction stays so while what it speaks of does: its plan, ...
LEMMA PlanKept ==
    ASSUME Types, Types', NEW u \in Txns, PlanOK(u), EverKept(u), plan'[u] = plan[u], BaseKept(u)
    PROVE  PlanOK(u)'
<1>1. \A c \in Cards : ever'[c] \subseteq Versions
  BY DEF Types
<1>2. ASSUME NEW c \in Cards, NEW n \in ever'[c], n.txn = u
      PROVE  c \in Members[u] /\ plan'[u] # NoPlan /\ n.ver = plan'[u][c] + 1
  <2>1. n \in ever[c]
    BY <1>1, <1>2 DEF EverKept
  <2>2. c \in Members[u] /\ plan[u] # NoPlan /\ n.ver = plan[u][c] + 1
    BY <1>2, <2>1 DEF PlanOK
  <2> QED
    BY <2>2
<1>3. marker'[u].state # "none" => /\ plan'[u] # NoPlan
                                    /\ \A c \in Members[u] : plan'[u][c] = marker'[u].base[c].ver
  BY DEF PlanOK, BaseKept
<1>4. plan'[u] # NoPlan => plan'[u] \in [Members[u] -> Nat]
  BY DEF PlanOK
<1> QED
  BY <1>2, <1>3, <1>4 DEF PlanOK, NoPlan

\* ... its effects, ...
LEMMA EffKept ==
    ASSUME Types, Types', NEW u \in Txns, EffOK(u), EverKept(u), MarkerKept(u), eff'[u] = eff[u]
    PROVE  EffOK(u)'
<1>1. \A c \in Cards : Was(u, c)' <=> Was(u, c)
  BY WasKept
<1>2. \A c \in Members[u] : c \in Cards
  BY MemberIsCard
<1>3. (NoneTaken(u)' <=> NoneTaken(u)) /\ (AllApplied(u)' <=> AllApplied(u))
  BY DEF NoneTaken, AllApplied
<1> QED
  BY <1>1, <1>2, <1>3 DEF EffOK, MarkerKept

\* ... its publication: no pointer of its moves, since it is not settled or it is reserved, ...
LEMMA PubKept ==
    ASSUME NEW u \in Txns, PubOK(u), MarkerKept(u), SlotKept(u), PointerKept(u)
    PROVE  PubOK(u)'
<1>0. \A c \in Members[u] : /\ c \in Cards /\ u # NoTxn /\ Name(u, c).txn = u
                            /\ Name(u, c)' = Name(u, c) /\ Mine(u, c)' = Mine(u, c)
  BY MemberIsCard DEF Name, Mine, MarkerKept
<1>1. ASSUME NEW c \in Members[u], marker[u].state = "staged" \/ (marker[u].state = "published" /\ ~EffectsComplete(u)),
             Own(u, c)
      PROVE  current'[c] = current[c]
  <2>1. ~Settled(c)
    BY <1>0, <1>1 DEF Own, Settled
  <2> QED
    BY <1>0, <2>1 DEF PointerKept
<1>2. ASSUME NEW c \in Members[u], Own(u, c)' PROVE Own(u, c)
  <2>1. current'[c].txn = u
    BY <1>0, <1>2 DEF Own
  <2>2. current'[c] = current[c]
    BY <1>0, <2>1 DEF PointerKept
  <2> QED
    BY <1>0, <1>2, <2>2 DEF Own
<1>3. ASSUME NEW c \in Members[u], current'[c] = current[c], Own(u, c) PROVE Own(u, c)'
  BY <1>0, <1>3 DEF Own
<1>4. ASSUME marker[u].state = "staged", NEW d \in Members[u], Own(u, d)', NEW c \in Members[u]
      PROVE  Own(u, c)' \/ (current'[c] = marker'[u].base[c] /\ slot'[c] = Mine(u, c)')
  <2>1. Own(u, c) \/ (current[c] = marker[u].base[c] /\ slot[c] = Mine(u, c))
    BY <1>2, <1>4 DEF PubOK
  <2>2. CASE Own(u, c)
    BY <1>1, <1>3, <1>4, <2>2
  <2>3. CASE current[c] = marker[u].base[c] /\ slot[c] = Mine(u, c)
    <3>1. slot[c].txn = u
      BY <2>3, MineFields
    <3>2. slot'[c] = slot[c] /\ current'[c] = current[c]
      BY <1>0, <3>1 DEF SlotKept, PointerKept
    <3> QED
      BY <1>0, <2>3, <3>2 DEF MarkerKept
  <2> QED
    BY <2>1, <2>2, <2>3
<1>5. ASSUME marker[u].state = "published", ~EffectsComplete(u), NEW c \in Members[u] PROVE Own(u, c)'
  BY <1>1, <1>3, <1>5 DEF PubOK
<1>6. EffectsComplete(u)' <=> EffectsComplete(u)
  BY DEF EffectsComplete, MarkerKept
<1> QED
  BY <1>4, <1>5, <1>6 DEF PubOK, MarkerKept

\* ... what it has on disk, ...
LEMMA RestKept ==
    ASSUME Types, Types', RestTypes, RestTypes', NEW u \in Txns, RestOK(u), BaseKept(u),
           EverKept(u), FilesKept(u), FencedKept(u), SlotKept(u)
    PROVE  RestOK(u)'
<1>1. \A c \in Cards : files'[c] \subseteq Versions /\ fenced'[c] \subseteq Versions
  BY DEF Types, RestTypes
<1>2. \A c \in Cards : Name(u, c)' = Name(u, c)
  BY NameKept DEF BaseKept
<1>3. ASSUME NEW c \in Cards, slot'[c].txn = u PROVE c \in Members[u] /\ marker'[u].state # "none"
  BY <1>3 DEF RestOK, BaseKept, SlotKept
<1>4. ASSUME NEW c \in Cards, NEW n \in fenced'[c], n.txn = u
      PROVE  c \in Members[u] /\ marker'[u].state # "none" /\ n = Name(u, c)'
  BY <1>1, <1>2, <1>4 DEF RestOK, BaseKept, FencedKept
<1>5. ASSUME NEW c \in Cards, NEW n \in files'[c], n.txn = u
      PROVE  n \in ever'[c] \/ (c \in Members[u] /\ marker'[u].state # "none" /\ n = Name(u, c)')
  <2>1. n \in Versions /\ n \in files[c]
    BY <1>1, <1>5 DEF FilesKept
  <2>2. n \in ever[c] \/ (c \in Members[u] /\ marker[u].state # "none" /\ n = Name(u, c))
    BY <1>5, <2>1 DEF RestOK
  <2> QED
    BY <1>2, <1>5, <2>1, <2>2 DEF BaseKept, EverKept
<1> QED
  BY <1>3, <1>4, <1>5 DEF RestOK

\* ... the step of its call, whose Cards no one else moves, ...
LEMMA StepKept ==
    ASSUME Types, Types', RestTypes, RestTypes', NEW u \in Txns, MarkOK(u), CallOK(u), StepOK(u), MarkerKept(u),
           pc'[u] = pc[u], todo'[u] = todo[u], FilesKept(u), FencedKept(u), SlotKept(u), PointerKept(u)
    PROVE  StepOK(u)'
<1>0. \A c \in Members[u] : c \in Cards /\ Name(u, c).txn = u /\ Name(u, c)' = Name(u, c) /\ Mine(u, c)' = Mine(u, c)
  BY MemberIsCard DEF Name, Mine, MarkerKept
<1>1. pc[u] \in {"reserve", "prepare"} => marker'[u].state \in {"staging", "staged"}
  BY DEF StepOK, StepAt, MarkerKept
<1>2. todo[u] \subseteq Members[u] /\ (pc[u] = "deletesidecar" => todo[u] # {} /\ marker[u].state = "rolled_back")
  BY DEF CallOK, CallAt
<1>3. ASSUME pc[u] # "idle" PROVE \A c \in Members[u] : current'[c] = current[c]
  BY <1>0, <1>3 DEF PointerKept, Locks
<1>4. ASSUME NEW c \in Members[u], Unfenced(u, c) PROVE Unfenced(u, c)'
  <2>1. fenced'[c] \subseteq Versions
    BY <1>0 DEF RestTypes
  <2> QED
    BY <1>0, <1>4, <2>1 DEF Unfenced, FencedKept
<1>5. ASSUME NEW c \in Members[u], marker[u].state # "none", Name(u, c) \notin files[c] PROVE Name(u, c)' \notin files'[c]
  BY <1>0, <1>5, NameIsVersion DEF FilesKept
<1>6. ASSUME NEW c \in Members[u], slot[c].txn # u PROVE slot'[c].txn # u
  BY <1>0, <1>6 DEF SlotKept
<1>7. ASSUME NEW c \in Members[u], slot[c] = Mine(u, c) PROVE slot'[c] = Mine(u, c)'
  <2>1. slot[c].txn = u
    BY <1>7, MineFields
  <2>2. slot'[c] = slot[c]
    BY <1>0, <2>1 DEF SlotKept
  <2> QED
    BY <1>0, <1>7, <2>2
<1>8. ASSUME NEW c \in Members[u], Own(u, c), current'[c] = current[c] PROVE Own(u, c)'
  BY <1>0, <1>8 DEF Own
<1>9. EffectsComplete(u)' <=> EffectsComplete(u)
  BY DEF EffectsComplete, MarkerKept
<1>10. ASSUME pc[u] = "advance"
      PROVE  /\ marker'[u].state = "staged"
             /\ \A c \in todo[u] : current'[c] = marker'[u].base[c] /\ slot'[c] = Mine(u, c)'
             /\ \A c \in Members[u] \ todo[u] : Own(u, c)'
  BY <1>2, <1>3, <1>7, <1>8, <1>10 DEF StepOK, StepAt, MarkerKept
<1>11. /\ pc[u] \in {"effects", "unfence"} => marker'[u].state = "published"
       /\ pc[u] = "unfence" => EffectsComplete(u)' /\ todo[u] # {} /\ \A c \in Members[u] \ todo[u] : Unfenced(u, c)'
  BY <1>4, <1>9 DEF StepOK, StepAt, MarkerKept
<1>12. ASSUME pc[u] \in {"free", "forget"}
       PROVE  /\ marker'[u].state = "rolled_back" \/ (marker'[u].state = "published" /\ EffectsComplete(u)')
              /\ \A c \in Members[u] : Unfenced(u, c)'
              /\ marker'[u].state = "rolled_back" => \A c \in Members[u] : Name(u, c)' \notin files'[c]
  BY <1>4, <1>5, <1>9, <1>12 DEF StepOK, StepAt, MarkerKept
<1>13. /\ pc[u] = "free" => todo[u] # {} /\ \A c \in Members[u] \ todo[u] : slot'[c].txn # u
       /\ pc[u] = "forget" => \A c \in Members[u] : slot'[c].txn # u
  BY <1>6 DEF StepOK, StepAt
<1>14. ASSUME pc[u] \in {"delete", "deletesidecar"}, NEW c \in Members[u] \ todo[u]
       PROVE  Name(u, c)' \notin files'[c] /\ Unfenced(u, c)'
  <2>1. marker[u].state # "none"
    BY <1>14 DEF CallOK, CallAt
  <2> QED
    BY <1>4, <1>5, <1>14, <2>1 DEF StepOK, StepAt
<1>15. ASSUME pc[u] = "deletesidecar" PROVE Name(u, Min(todo[u]))' \notin files'[Min(todo[u])]
  <2>1. Min(todo[u]) \in Members[u] /\ marker[u].state # "none"
    BY <1>2, <1>15, FirstLeft DEF First
  <2>2. Name(u, Min(todo[u])) \notin files[Min(todo[u])]
    BY <1>15 DEF StepOK, StepAt
  <2> DEFINE c == Min(todo[u])
  <2> HIDE DEF c
  <2>3. Name(u, c)' \notin files'[c]
    BY <1>5, <2>1, <2>2 DEF c
  <2> QED
    BY <2>3 DEF c, Name
<1> QED
  BY <1>1, <1>10, <1>11, <1>12, <1>13, <1>14, <1>15 DEF StepOK, StepAt

\* ... its answers, ...
LEMMA SaidKept == ASSUME NEW u \in Txns, SaidOK(u), said'[u] = said[u], Grows PROVE SaidOK(u)'
BY WasGrows, MemberIsCard DEF SaidOK

\* ... and what its compensation found.
LEMMA UndoKept ==
    ASSUME NEW u \in Txns, UndoOK(u), undo'[u] = undo[u] \/ undo'[u] = "idle", BaseKept(u), Grows
    PROVE  UndoOK(u)'
<1>1. \A c \in Members[u] : \A v : Was(v, c) => Was(v, c)'
  BY WasGrows, MemberIsCard
<1> QED
  BY <1>1 DEF UndoOK, BaseKept

\* A step of others.
Apart(u) == /\ MarkerKept(u) /\ plan'[u] = plan[u] /\ eff'[u] = eff[u] /\ pc'[u] = pc[u] /\ todo'[u] = todo[u]
            /\ said'[u] = said[u] /\ undo'[u] \in {undo[u], "idle"}
            /\ EverKept(u) /\ FilesKept(u) /\ FencedKept(u) /\ SlotKept(u) /\ PointerKept(u)

\* A step of others keeps all of it.
LEMMA ApartKept ==
    ASSUME Types, Types', RestTypes, RestTypes', Grows, NEW u \in Txns, MarkOK(u), CallOK(u), TxnOK(u), Apart(u)
    PROVE  TxnOK(u)'
<1>0. BaseKept(u)
  BY DEF Apart, MarkerKept, BaseKept
<1>1. PlanOK(u)' /\ EffOK(u)'
  BY <1>0, PlanKept, EffKept DEF Apart, TxnOK
<1>2. PubOK(u)' /\ RestOK(u)'
  BY <1>0, PubKept, RestKept DEF Apart, TxnOK
<1>3. StepOK(u)'
  BY StepKept DEF Apart, TxnOK
<1>4. SaidOK(u)' /\ UndoOK(u)'
  BY <1>0, SaidKept, UndoKept DEF Apart, TxnOK
<1> QED
  BY <1>1, <1>2, <1>3, <1>4 DEF TxnOK

OutcomeInv == RestTypes /\ NumberInv /\ TxnInv /\ ReadInv

\* A step that moves no pointer, ...
LEMMA Unmoved == ASSUME UNCHANGED cards, NEW u PROVE EverKept(u) /\ PointerKept(u) /\ Grows
BY DEF EverKept, PointerKept, Grows, cards

\* ... and one that writes no file, sidecar or reservation.
LEMMA DiskUnmoved == ASSUME UNCHANGED disk, NEW u PROVE FilesKept(u) /\ FencedKept(u) /\ SlotKept(u)
BY DEF FilesKept, FencedKept, SlotKept, disk

\* A step that moves no pointer is right when it is for the transaction it is about.
LEMMA ActorStep ==
    ASSUME VersionInv, VersionInv', OutcomeInv, RestTypes', UNCHANGED <<cards, rd>>, NEW t \in Txns,
           \A u \in Txns \ {t} : /\ MarkerKept(u) /\ plan'[u] = plan[u] /\ eff'[u] = eff[u] /\ pc'[u] = pc[u]
                                 /\ todo'[u] = todo[u] /\ said'[u] = said[u] /\ undo'[u] \in {undo[u], "idle"}
                                 /\ FilesKept(u) /\ FencedKept(u) /\ SlotKept(u),
           \A c \in Cards : Was(t, c) /\ AllApplied(t) => AllApplied(t)',
           TxnOK(t)'
    PROVE  OutcomeInv'
<1>0. /\ Types /\ Types' /\ MarkInv /\ CallInv
      /\ RestTypes /\ NumberInv /\ TxnInv /\ ReadInv
  BY DEF VersionInv, OutcomeInv
<1>1. ASSUME NEW u \in Txns, u # t PROVE TxnOK(u)'
  <2>1. Apart(u) /\ Grows
    BY <1>1, Unmoved DEF Apart
  <2>2. MarkOK(u) /\ CallOK(u) /\ TxnOK(u)
    BY <1>0 DEF MarkInv, CallInv, TxnInv
  <2> QED
    BY <1>0, <2>1, <2>2, ApartKept
<1>2. TxnInv'
  BY <1>1 DEF TxnInv
<1>3. NumberInv'
  BY <1>0 DEF NumberInv, cards
<1>4. ReadInv'
  <2>1. ASSUME rd.at # "idle"
        PROVE  /\ rd.card \in Cards /\ rd.name \in ever'[rd.card] /\ rd.name.txn \in Txns
               /\ rd.at \in {"again", "serve"} => AllApplied(rd.name.txn)'
    <3>1. rd.card \in Cards /\ rd.name \in ever[rd.card] /\ rd.name.txn \in Txns
      BY <1>0, <2>1 DEF ReadInv
    <3>2. rd.at \in {"again", "serve"} => AllApplied(rd.name.txn)
      BY <1>0, <2>1 DEF ReadInv
    <3>3. CASE rd.name.txn = t
      <4>1. Was(t, rd.card)
        BY <3>1, <3>3 DEF Was
      <4> QED
        BY <3>1, <3>2, <3>3, <4>1 DEF cards
    <3>4. CASE rd.name.txn # t
      <4>1. eff'[rd.name.txn] = eff[rd.name.txn]
        BY <3>1, <3>4
      <4> QED
        BY <3>1, <3>2, <4>1 DEF AllApplied, cards
    <3> QED
      BY <3>3, <3>4
  <2>2. rd' = rd /\ rd \in Readers
    BY <1>0 DEF ReadInv
  <2> QED
    BY <2>1, <2>2 DEF ReadInv, Readers
<1> QED
  BY <1>2, <1>3, <1>4 DEF OutcomeInv

\* A call that moves, and writes its reservations, sidecars or files at most.
LEMMA DiskStep ==
    ASSUME VersionInv, VersionInv', OutcomeInv, RestTypes', NEW t \in Txns, NEW step \in Steps, NEW left \in SUBSET Cards,
           Go(t, step, left), UNCHANGED <<cards, marker, plan, eff, said, rd>>,
           undo' = undo \/ undo' = [undo EXCEPT ![t] = "idle"],
           \A u \in Txns \ {t} : FilesKept(u) /\ FencedKept(u) /\ SlotKept(u),
           PubOK(t)', RestOK(t)', StepAt(t, step, left)'
    PROVE  OutcomeInv'
<1>0. Types /\ Types' /\ TxnOK(t) /\ RestTypes
  BY DEF VersionInv, OutcomeInv, TxnInv
<1>1. /\ pc'[t] = step /\ todo'[t] = left
      /\ \A u \in Txns \ {t} : pc'[u] = pc[u] /\ todo'[u] = todo[u]
  BY <1>0, GoEffect
<1>2. \A u \in Txns : undo'[u] \in {undo[u], "idle"}
  BY <1>0 DEF RestTypes
<1>3. BaseKept(t) /\ MarkerKept(t) /\ EverKept(t) /\ Grows
  BY Unmoved DEF BaseKept, MarkerKept
<1>4. PlanOK(t)' /\ EffOK(t)'
  BY <1>0, <1>3, PlanKept, EffKept DEF TxnOK
<1>5. SaidOK(t)' /\ UndoOK(t)'
  BY <1>0, <1>2, <1>3, SaidKept, UndoKept DEF TxnOK
<1>6. StepOK(t)'
  BY <1>1 DEF StepOK
<1>7. TxnOK(t)'
  BY <1>4, <1>5, <1>6 DEF TxnOK
<1>8. AllApplied(t) => AllApplied(t)'
  BY DEF AllApplied
<1>9. \A u \in Txns \ {t} : /\ MarkerKept(u) /\ plan'[u] = plan[u] /\ eff'[u] = eff[u] /\ pc'[u] = pc[u]
                            /\ todo'[u] = todo[u] /\ said'[u] = said[u] /\ undo'[u] \in {undo[u], "idle"}
                            /\ FilesKept(u) /\ FencedKept(u) /\ SlotKept(u)
  BY <1>1, <1>2 DEF MarkerKept
<1> QED
  BY <1>7, <1>8, <1>9, ActorStep

\* A call that moves and writes nothing.
LEMMA MoveStep ==
    ASSUME VersionInv, VersionInv', OutcomeInv, NEW t \in Txns, NEW step \in Steps, NEW left \in SUBSET Cards,
           Go(t, step, left), UNCHANGED <<cards, disk, marker, plan, eff, said, rd>>,
           undo' = undo \/ undo' = [undo EXCEPT ![t] = "idle"], StepAt(t, step, left)'
    PROVE  OutcomeInv'
<1>0. Types /\ Types' /\ TxnOK(t) /\ RestTypes
  BY DEF VersionInv, OutcomeInv, TxnInv
<1>1. RestTypes'
  BY <1>0 DEF RestTypes, disk
<1>2. \A u \in Txns : FilesKept(u) /\ FencedKept(u) /\ SlotKept(u)
  BY DiskUnmoved
<1>3. BaseKept(t) /\ MarkerKept(t) /\ EverKept(t) /\ PointerKept(t)
  BY Unmoved DEF BaseKept, MarkerKept
<1>4. PubOK(t)' /\ RestOK(t)'
  BY <1>0, <1>1, <1>2, <1>3, PubKept, RestKept DEF TxnOK
<1> QED
  BY <1>1, <1>2, <1>4, DiskStep

\* STAGE again, a staged answer, PUBLISH of a published marker, ROLLBACK's start, and a call that stops.
LEMMA MoveSteps ==
    ASSUME VersionInv, VersionInv', OutcomeInv, NEW t \in Txns,
           StageAgain(t) \/ StagedAnswer(t) \/ FinishPublished(t) \/ Rollback(t) \/ Stop(t)
    PROVE  OutcomeInv'
<1>0. Members[t] \in SUBSET Cards /\ {} \in SUBSET Cards
  BY MembersAreCards
<1>1. CASE StageAgain(t)
  <2>1. StepAt(t, "reserve", Members[t])' /\ "reserve" \in Steps
    BY <1>1 DEF StepAt, StageAgain, Steps
  <2> QED
    BY <1>0, <1>1, <2>1, MoveStep DEF StageAgain
<1>2. CASE StagedAnswer(t)
  <2>1. StepAt(t, "idle", {})' /\ "idle" \in Steps
    BY DEF StepAt, Steps
  <2> QED
    BY <1>0, <1>2, <2>1, MoveStep DEF StagedAnswer
<1>3. CASE FinishPublished(t)
  <2>1. StepAt(t, "effects", {})' /\ "effects" \in Steps
    BY <1>3 DEF StepAt, FinishPublished, Steps
  <2> QED
    BY <1>0, <1>3, <2>1, MoveStep DEF FinishPublished
<1>4. CASE Rollback(t)
  <2>1. StepAt(t, "retire", {})' /\ StepAt(t, "release", {})' /\ "retire" \in Steps /\ "release" \in Steps
    BY DEF StepAt, Steps
  <2>2. Go(t, "retire", {}) \/ Go(t, "release", {})
    BY <1>4 DEF Rollback
  <2> QED
    BY <1>0, <1>4, <2>1, <2>2, MoveStep DEF Rollback
<1>5. CASE Stop(t)
  <2>1. StepAt(t, "idle", {})' /\ "idle" \in Steps
    BY DEF StepAt, Steps
  <2> QED
    BY <1>0, <1>5, <2>1, MoveStep DEF Stop
<1> QED
  BY <1>1, <1>2, <1>3, <1>4, <1>5

\* Where the loop over the members goes.
LEMMA LoopCases ==
    ASSUME Types, NEW t \in Txns, NEW step, NEW next, Loop(t, step, next), todo[t] # {}, todo[t] \subseteq Members[t]
    PROVE  \E left \in SUBSET Cards :
             /\ left \subseteq Members[t] /\ left # {}
             /\ \/ Go(t, next, left) /\ left = Members[t] /\ todo[t] = {First(t)}
                \/ Go(t, step, left) /\ left = todo[t] \ {First(t)}
<1>0. Members[t] \in SUBSET Cards /\ Members[t] # {} /\ First(t) \in todo[t]
  BY MembersAreCards, FirstLeft
<1>1. CASE todo[t] = {First(t)}
  <2>1. Go(t, next, Members[t])
    BY <1>1 DEF Loop
  <2> QED
    BY <1>0, <1>1, <2>1
<1>2. CASE todo[t] # {First(t)}
  <2> DEFINE left == todo[t] \ {First(t)}
  <2>1. Go(t, step, left)
    BY <1>2 DEF Loop
  <2>2. left \in SUBSET Cards /\ left \subseteq Members[t] /\ left # {}
    BY <1>0, <1>2
  <2> QED
    BY <2>1, <2>2
<1> QED
  BY <1>1, <1>2

\* A reservation of t's.
LEMMA MineIsSlot ==
    ASSUME Types, NEW t \in Txns, NEW c \in Members[t], MarkOK(t), marker[t].state # "none"
    PROVE  Mine(t, c) \in Slots
<1>1. marker[t].base[c] \in Versions
  BY DEF MarkOK
<1> QED
  BY <1>1 DEF Mine, Slots

\* _reserve_card_version_bases.
LEMMA ReserveStep == ASSUME VersionInv, VersionInv', OutcomeInv, NEW t \in Txns, Reserve(t) PROVE OutcomeInv'
<1> DEFINE c == First(t)
<1>0. /\ Types /\ Types' /\ MarkOK(t) /\ CallOK(t) /\ TxnOK(t) /\ RestTypes
  BY DEF VersionInv, MarkInv, CallInv, OutcomeInv, TxnInv
<1>1. pc[t] = "reserve" /\ todo[t] # {} /\ todo[t] \subseteq Members[t] /\ marker[t].state \in {"staging", "staged"}
  BY <1>0 DEF Reserve, CallOK, CallAt, TxnOK, StepOK, StepAt
<1>2. c \in Members[t] /\ c \in Cards /\ t # NoTxn
  BY <1>0, <1>1, FirstLeft, MemberIsCard
<1>3. /\ slot[c] \in {NoSlot, Mine(t, c)} /\ slot' = [slot EXCEPT ![c] = Mine(t, c)]
      /\ current[c] = marker[t].base[c]
      /\ Loop(t, "reserve", "prepare") /\ UNCHANGED <<cards, files, fenced, marker, plan, eff, undo, said, rd>>
  BY DEF Reserve, Mine
<1> HIDE DEF c
<1>4. Mine(t, c) \in Slots /\ Mine(t, c).txn = t /\ NoSlot.txn = NoTxn
  BY <1>0, <1>1, <1>2, MineIsSlot, MineFields DEF NoSlot
<1>5. slot' \in [Cards -> Slots] /\ slot'[c] = Mine(t, c) /\ \A d \in Cards \ {c} : slot'[d] = slot[d]
  BY <1>0, <1>2, <1>3, <1>4 DEF RestTypes
<1>6. RestTypes'
  BY <1>0, <1>3, <1>5 DEF RestTypes
<1>7. ASSUME NEW u \in Txns \ {t} PROVE FilesKept(u) /\ FencedKept(u) /\ SlotKept(u)
  <2>1. slot'[c].txn = t /\ slot[c].txn \in {t, NoTxn} /\ u # t /\ u # NoTxn
    BY <1>3, <1>4, <1>5, VersionAssumption
  <2>2. slot[c].txn # u /\ slot'[c].txn # u
    BY <2>1
  <2>3. SlotKept(u)
    BY <1>5, <2>2 DEF SlotKept
  <2> QED
    BY <1>3, <2>3 DEF FilesKept, FencedKept
<1>8. \A d \in Members[t] : d \in Cards /\ Name(t, d)' = Name(t, d) /\ Mine(t, d)' = Mine(t, d) /\ (Own(t, d)' <=> Own(t, d))
  BY <1>3, MemberIsCard DEF Name, Mine, Own, cards
<1>9. PubOK(t)'
  <2>1. ASSUME NEW d \in Members[t], slot[d] = Mine(t, d) PROVE slot'[d] = Mine(t, d)'
    BY <1>5, <1>8, <2>1
  <2>2. EffectsComplete(t)' <=> EffectsComplete(t)
    BY <1>3 DEF EffectsComplete
  <2> QED
    BY <1>0, <1>1, <1>3, <1>8, <2>1, <2>2 DEF TxnOK, PubOK, cards
<1>10. RestOK(t)'
  <2>1. ASSUME NEW d \in Cards, slot'[d].txn = t PROVE d \in Members[t] /\ marker'[t].state # "none"
    BY <1>0, <1>1, <1>2, <1>3, <1>5, <2>1 DEF TxnOK, RestOK
  <2>2. \A d \in Cards : Name(t, d)' = Name(t, d)
    BY <1>3, NameKept
  <2> QED
    BY <1>0, <1>3, <2>1, <2>2 DEF TxnOK, RestOK, cards
<1>11. \A S : StepAt(t, "reserve", S)' /\ StepAt(t, "prepare", S)'
  BY <1>1, <1>3 DEF StepAt
<1>12. "reserve" \in Steps /\ "prepare" \in Steps
  BY DEF Steps
<1>13. PICK left \in SUBSET Cards : Go(t, "reserve", left) \/ Go(t, "prepare", left)
  BY <1>0, <1>1, <1>3, LoopCases
<1> QED
  BY <1>3, <1>6, <1>7, <1>9, <1>10, <1>11, <1>12, <1>13, DiskStep

\* PUBLISH claims every base before it moves a pointer (card_version_publish).
LEMMA PublishStep == ASSUME VersionInv, VersionInv', OutcomeInv, NEW t \in Txns, Publish(t) PROVE OutcomeInv'
<1>1. PICK left \in SUBSET Cards : left = {c \in Members[t] : ~Own(t, c)}
  BY MemberIsCard
<1>2. /\ Types /\ Types' /\ MarkOK(t) /\ TxnOK(t) /\ RestTypes
  BY DEF VersionInv, MarkInv, OutcomeInv, TxnInv
<1>3. /\ marker[t].state = "staged" /\ (\A c \in Members[t] : BaseStands(t, c))
      /\ Go(t, "advance", left) /\ UNCHANGED <<cards, files, fenced, marker, plan, eff, undo, said, rd>>
  BY <1>1 DEF Publish, StartPublish
<1>4. \A c \in Members[t] : c \in Cards /\ t # NoTxn
  BY MemberIsCard
<1>5. slot' = [c \in Cards |-> IF c \in left THEN Mine(t, c) ELSE slot[c]]
  BY <1>1, <1>4 DEF Publish, StartPublish, Mine
<1>6. \A c \in left : c \in Members[t] /\ slot[c] \in {NoSlot, Mine(t, c)} /\ current[c] = marker[t].base[c]
  BY <1>1, <1>3 DEF BaseStands, Mine
<1>7. \A c \in Members[t] \ left : Own(t, c)
  BY <1>1
<1>8. left \in SUBSET Cards
  OBVIOUS
<1>9. \A c \in left : Mine(t, c) \in Slots
  BY <1>2, <1>3, <1>6, MineIsSlot
<1>10. \A c \in Cards : slot'[c] = (IF c \in left THEN Mine(t, c) ELSE slot[c])
  BY <1>5
<1>11. slot' \in [Cards -> Slots]
  <2>1. \A c \in Cards : slot[c] \in Slots
    BY <1>2 DEF RestTypes
  <2>2. \A c \in Cards : (IF c \in left THEN Mine(t, c) ELSE slot[c]) \in Slots
    BY <1>9, <2>1
  <2> QED
    BY <1>5, <2>2
<1>12. RestTypes'
  BY <1>2, <1>3, <1>11 DEF RestTypes
<1>13. ASSUME NEW u \in Txns \ {t} PROVE FilesKept(u) /\ FencedKept(u) /\ SlotKept(u)
  <2>1. NoSlot.txn = NoTxn /\ \A c : Mine(t, c).txn = t
    BY MineFields DEF NoSlot
  <2>2. ASSUME NEW c \in left PROVE slot[c].txn # u /\ slot'[c].txn # u
    <3>1. c \in Cards /\ u # NoTxn
      BY <1>8, <2>2, VersionAssumption
    <3>2. slot'[c] = Mine(t, c) /\ slot[c] \in {NoSlot, Mine(t, c)}
      BY <1>6, <1>10, <2>2, <3>1
    <3> QED
      BY <2>1, <3>1, <3>2
  <2>3. SlotKept(u)
    BY <1>10, <2>2 DEF SlotKept
  <2> QED
    BY <1>3, <2>3 DEF FilesKept, FencedKept
<1>14. \A d \in Members[t] : Name(t, d)' = Name(t, d) /\ Mine(t, d)' = Mine(t, d) /\ (Own(t, d)' <=> Own(t, d))
  BY <1>3 DEF Name, Mine, Own, cards
<1>15. \A d \in left : current'[d] = marker'[t].base[d] /\ slot'[d] = Mine(t, d)'
  BY <1>3, <1>6, <1>8, <1>10, <1>14 DEF cards
<1>16. \A d \in Members[t] \ left : Own(t, d)'
  BY <1>7, <1>14
<1>17. PubOK(t)'
  BY <1>3, <1>15, <1>16 DEF PubOK
<1>18. RestOK(t)'
  <2>1. ASSUME NEW d \in Cards, slot'[d].txn = t PROVE d \in Members[t] /\ marker'[t].state # "none"
    <3>1. CASE d \in left
      BY <1>3, <1>6, <3>1
    <3>2. CASE d \notin left
      BY <1>2, <1>3, <1>10, <2>1, <3>2 DEF TxnOK, RestOK
    <3> QED
      BY <3>1, <3>2
  <2>2. \A d \in Cards : Name(t, d)' = Name(t, d)
    BY <1>3, NameKept
  <2> QED
    BY <1>2, <1>3, <2>1, <2>2 DEF TxnOK, RestOK, cards
<1>19. StepAt(t, "advance", left)' /\ "advance" \in Steps
  BY <1>3, <1>15, <1>16 DEF StepAt, Steps
<1> QED
  BY <1>3, <1>8, <1>12, <1>13, <1>17, <1>18, <1>19, DiskStep

\* _release_card_version_bases: the last reservation is gone when the loop ends.
LEMMA FreeStep == ASSUME VersionInv, VersionInv', OutcomeInv, NEW t \in Txns, FreeBase(t) PROVE OutcomeInv'
<1>0. /\ Types /\ Types' /\ CallOK(t) /\ TxnOK(t) /\ RestTypes
  BY DEF VersionInv, CallInv, OutcomeInv, TxnInv
<1>1. pc[t] = "free" /\ todo[t] # {} /\ todo[t] \subseteq Members[t] /\ StepAt(t, "free", todo[t])
  BY <1>0 DEF FreeBase, CallOK, CallAt, TxnOK, StepOK, StepAt
<1>2. PICK c \in Cards : c = First(t) /\ c \in Members[t] /\ t # NoTxn
  BY <1>0, <1>1, FirstLeft, MemberIsCard
<1>3. /\ slot' = [slot EXCEPT ![c] = IF slot[c].txn = t THEN NoSlot ELSE slot[c]]
      /\ Loop(t, "free", "forget") /\ UNCHANGED <<cards, files, fenced, marker, plan, eff, undo, said, rd>>
  BY <1>0, <1>2 DEF FreeBase, RestTypes
<1>4. NoSlot \in Slots /\ NoSlot.txn = NoTxn
  BY DEF NoSlot, Slots, Versions, Absent
<1>5. /\ slot' \in [Cards -> Slots] /\ \A d \in Cards \ {c} : slot'[d] = slot[d]
      /\ slot'[c] = IF slot[c].txn = t THEN NoSlot ELSE slot[c]
  <2>1. slot \in [Cards -> Slots] /\ slot[c] \in Slots
    BY <1>0 DEF RestTypes
  <2> QED
    BY <1>3, <1>4, <2>1
<1>6. RestTypes'
  BY <1>0, <1>3, <1>5 DEF RestTypes
<1>7. slot'[c].txn # t
  BY <1>2, <1>4, <1>5
<1>8. ASSUME NEW u \in Txns \ {t} PROVE FilesKept(u) /\ FencedKept(u) /\ SlotKept(u)
  <2>1. slot[c].txn = u \/ slot'[c].txn = u => slot'[c] = slot[c]
    BY <1>4, <1>5, VersionAssumption
  <2>2. SlotKept(u)
    BY <1>5, <2>1 DEF SlotKept
  <2> QED
    BY <1>3, <2>2 DEF FilesKept, FencedKept
<1>9. EffectsComplete(t)' <=> EffectsComplete(t)
  BY <1>3 DEF EffectsComplete
<1>10. PubOK(t)'
  BY <1>1, <1>3, <1>9 DEF StepAt, PubOK
<1>11. \A d \in Cards : Name(t, d)' = Name(t, d)
  BY <1>3, NameKept
<1>12. RestOK(t)'
  <2>1. ASSUME NEW d \in Cards, slot'[d].txn = t PROVE d \in Members[t] /\ marker'[t].state # "none"
    BY <1>0, <1>3, <1>5, <1>7, <2>1 DEF TxnOK, RestOK
  <2> QED
    BY <1>0, <1>3, <1>11, <2>1 DEF TxnOK, RestOK, cards
<1>13. ASSUME NEW d \in Members[t], d = c \/ d \notin todo[t] PROVE slot'[d].txn # t
  BY <1>1, <1>5, <1>7, <1>13, MemberIsCard DEF StepAt
<1>14. /\ marker'[t].state = "rolled_back" \/ (marker'[t].state = "published" /\ EffectsComplete(t)')
       /\ \A d \in Members[t] : Unfenced(t, d)'
       /\ marker'[t].state = "rolled_back" => \A d \in Members[t] : Name(t, d)' \notin files'[d]
  BY <1>1, <1>3, <1>9, <1>11, MemberIsCard DEF StepAt, Unfenced
<1>15. PICK left \in SUBSET Cards :
         /\ left # {}
         /\ \/ Go(t, "forget", left) /\ todo[t] = {First(t)}
            \/ Go(t, "free", left) /\ left = todo[t] \ {First(t)}
  BY <1>0, <1>1, <1>3, LoopCases
<1>16. CASE Go(t, "forget", left) /\ todo[t] = {First(t)}
  <2>1. \A d \in Members[t] : slot'[d].txn # t
    BY <1>2, <1>13, <1>16
  <2>2. StepAt(t, "forget", left)' /\ "forget" \in Steps
    BY <1>14, <2>1 DEF StepAt, Steps
  <2> QED
    BY <1>3, <1>6, <1>8, <1>10, <1>12, <1>16, <2>2, DiskStep
<1>17. CASE Go(t, "free", left) /\ left = todo[t] \ {First(t)}
  <2>1. \A d \in Members[t] \ left : slot'[d].txn # t
    BY <1>2, <1>13, <1>17
  <2>2. StepAt(t, "free", left)' /\ "free" \in Steps
    BY <1>14, <1>15, <2>1 DEF StepAt, Steps
  <2> QED
    BY <1>3, <1>6, <1>8, <1>10, <1>12, <1>17, <2>2, DiskStep
<1> QED
  BY <1>15, <1>16, <1>17

\* A step that changes t's sidecar of c at most leaves the others theirs.
LEMMA FencedOthers ==
    ASSUME Types, RestTypes, NEW t \in Txns, NEW c \in Cards, UNCHANGED <<files, slot>>,
           \/ fenced' = [fenced EXCEPT ![c] = @ \cup {Name(t, c)}]
           \/ fenced' = [fenced EXCEPT ![c] = @ \ {Name(t, c)}]
    PROVE  \A u \in Txns \ {t} : FilesKept(u) /\ FencedKept(u) /\ SlotKept(u)
<1>1. Name(t, c).txn = t
  BY NameFields
<1>2. fenced \in [Cards -> SUBSET Versions]
  BY DEF RestTypes
<1>3. \A d \in Cards \ {c} : fenced'[d] = fenced[d]
  BY <1>2
<1>4. \A n : n # Name(t, c) => (n \in fenced'[c] <=> n \in fenced[c])
  BY <1>2
<1>5. ASSUME NEW u \in Txns \ {t} PROVE FencedKept(u)
  BY <1>1, <1>3, <1>4 DEF FencedKept
<1>6. ASSUME NEW u \in Txns \ {t} PROVE FilesKept(u) /\ SlotKept(u)
  BY DEF FilesKept, SlotKept
<1> QED
  BY <1>5, <1>6

\* A step that changes t's file of c at most leaves the others theirs.
LEMMA FilesOthers ==
    ASSUME Types, RestTypes, NEW t \in Txns, NEW c \in Cards, UNCHANGED <<fenced, slot>>,
           \/ files' = [files EXCEPT ![c] = @ \cup {Name(t, c)}]
           \/ files' = [files EXCEPT ![c] = @ \ {Name(t, c)}]
    PROVE  \A u \in Txns \ {t} : FilesKept(u) /\ FencedKept(u) /\ SlotKept(u)
<1>1. Name(t, c).txn = t
  BY NameFields
<1>2. \A d \in Cards \ {c} : files'[d] = files[d]
  BY DEF Types
<1>3. \A n : n # Name(t, c) => (n \in files'[c] <=> n \in files[c])
  BY DEF Types
<1>4. ASSUME NEW u \in Txns \ {t} PROVE FilesKept(u)
  BY <1>1, <1>2, <1>3 DEF FilesKept
<1>5. ASSUME NEW u \in Txns \ {t} PROVE FencedKept(u) /\ SlotKept(u)
  BY DEF FencedKept, SlotKept
<1> QED
  BY <1>4, <1>5

\* A sidecar that goes was the only one t had on c.
LEMMA SidecarGone ==
    ASSUME Types, Types', RestTypes, NEW t \in Txns, RestOK(t), NEW c \in Cards, UNCHANGED <<cards, files, slot, marker>>,
           fenced' = [fenced EXCEPT ![c] = @ \ {Name(t, c)}]
    PROVE  /\ RestTypes' \/ ~UNCHANGED <<plan, eff, undo, said>>
           /\ RestOK(t)' /\ Unfenced(t, c)' /\ \A d \in Cards : Unfenced(t, d) => Unfenced(t, d)'
<1>1. fenced'[c] = fenced[c] \ {Name(t, c)} /\ \A d \in Cards \ {c} : fenced'[d] = fenced[d]
  BY DEF RestTypes
<1>2. \A d \in Cards : fenced'[d] \subseteq fenced[d]
  BY <1>1
<1>3. fenced' \in [Cards -> SUBSET Versions]
  <2>1. fenced \in [Cards -> SUBSET Versions] /\ fenced[c] \ {Name(t, c)} \in SUBSET Versions
    BY DEF RestTypes
  <2> QED
    BY <2>1
<1>4. RestTypes' \/ ~UNCHANGED <<plan, eff, undo, said>>
  BY <1>3 DEF RestTypes
<1>5. \A d \in Cards : Name(t, d)' = Name(t, d)
  BY NameKept
<1>6. RestOK(t)'
  BY <1>2, <1>5 DEF RestOK, cards
<1>7. Unfenced(t, c)'
  BY <1>1 DEF RestOK, Unfenced
<1>8. \A d \in Cards : Unfenced(t, d) => Unfenced(t, d)'
  BY <1>2 DEF Unfenced
<1> QED
  BY <1>4, <1>6, <1>7, <1>8

\* _write_staged_versions: the sidecar ...
LEMMA SidecarStep == ASSUME VersionInv, VersionInv', OutcomeInv, NEW t \in Txns, WriteSidecar(t) PROVE OutcomeInv'
<1>0. /\ Types /\ Types' /\ MarkOK(t) /\ CallOK(t) /\ TxnOK(t) /\ RestTypes
  BY DEF VersionInv, MarkInv, CallInv, OutcomeInv, TxnInv
<1>1. marker[t].state = "staging" /\ todo[t] # {} /\ todo[t] \subseteq Members[t] /\ todo[t] \in SUBSET Cards
  BY <1>0 DEF WriteSidecar, CallOK, CallAt, Types
<1>2. PICK c \in Cards : c = First(t) /\ c \in Members[t]
  BY <1>0, <1>1, FirstLeft, MemberIsCard
<1>3. /\ fenced' = [fenced EXCEPT ![c] = @ \cup {Name(t, c)}]
      /\ Go(t, "revision", todo[t]) /\ UNCHANGED <<cards, files, slot, marker, plan, eff, undo, said, rd>>
  BY <1>2 DEF WriteSidecar
<1>4. Name(t, c) \in Versions
  BY <1>0, <1>1, <1>2, NameIsVersion
<1>5. fenced \in [Cards -> SUBSET Versions]
  BY <1>0 DEF RestTypes
<1>6. /\ fenced'[c] = fenced[c] \cup {Name(t, c)} /\ \A d \in Cards \ {c} : fenced'[d] = fenced[d]
      /\ fenced' \in [Cards -> SUBSET Versions]
  BY <1>3, <1>4, <1>5
<1>7. RestTypes'
  BY <1>0, <1>3, <1>6 DEF RestTypes
<1>8. \A u \in Txns \ {t} : FilesKept(u) /\ FencedKept(u) /\ SlotKept(u)
  BY <1>0, <1>3, FencedOthers
<1>9. PubOK(t)'
  BY <1>1, <1>3 DEF PubOK
<1>10. RestOK(t)'
  <2>1. \A d \in Cards : Name(t, d)' = Name(t, d)
    BY <1>3, NameKept
  <2>2. ASSUME NEW d \in Cards, NEW n \in fenced'[d], n.txn = t
        PROVE  d \in Members[t] /\ marker'[t].state # "none" /\ n = Name(t, d)'
    <3>1. CASE n \in fenced[d]
      BY <1>0, <1>3, <2>1, <2>2, <3>1 DEF TxnOK, RestOK
    <3>2. CASE n \notin fenced[d]
      <4>1. d = c /\ n = Name(t, c)
        BY <1>6, <2>2, <3>2
      <4> QED
        BY <1>1, <1>2, <1>3, <2>1, <4>1
    <3> QED
      BY <3>1, <3>2
  <2> QED
    BY <1>0, <1>3, <2>1, <2>2 DEF TxnOK, RestOK, cards
<1>11. "revision" \in Steps /\ \A S : StepAt(t, "revision", S)'
  BY DEF StepAt, Steps
<1>12. PICK left \in SUBSET Cards : left = todo[t]
  BY <1>1
<1> QED
  BY <1>3, <1>7, <1>8, <1>9, <1>10, <1>11, <1>12, DiskStep

\* ... and the file.
LEMMA RevisionStep == ASSUME VersionInv, VersionInv', OutcomeInv, NEW t \in Txns, WriteRevision(t) PROVE OutcomeInv'
<1>0. /\ Types /\ Types' /\ MarkOK(t) /\ CallOK(t) /\ TxnOK(t) /\ RestTypes
  BY DEF VersionInv, MarkInv, CallInv, OutcomeInv, TxnInv
<1>1. marker[t].state = "staging" /\ todo[t] # {} /\ todo[t] \subseteq Members[t]
  BY <1>0 DEF WriteRevision, CallOK, CallAt
<1>2. PICK c \in Cards : c = First(t) /\ c \in Members[t]
  BY <1>0, <1>1, FirstLeft, MemberIsCard
<1>3. /\ files' = [files EXCEPT ![c] = @ \cup {Name(t, c)}]
      /\ Loop(t, "sidecar", "stage") /\ UNCHANGED <<cards, fenced, slot, marker, plan, eff, undo, said, rd>>
  BY <1>2 DEF WriteRevision
<1>4. files'[c] = files[c] \cup {Name(t, c)} /\ \A d \in Cards \ {c} : files'[d] = files[d]
  BY <1>0, <1>3 DEF Types
<1>5. RestTypes'
  BY <1>0, <1>3 DEF RestTypes
<1>6. \A u \in Txns \ {t} : FilesKept(u) /\ FencedKept(u) /\ SlotKept(u)
  BY <1>0, <1>3, FilesOthers
<1>7. PubOK(t)'
  BY <1>1, <1>3 DEF PubOK
<1>8. RestOK(t)'
  <2>1. \A d \in Cards : Name(t, d)' = Name(t, d)
    BY <1>3, NameKept
  <2>2. ASSUME NEW d \in Cards, NEW n \in files'[d], n.txn = t
        PROVE  n \in ever'[d] \/ (d \in Members[t] /\ marker'[t].state # "none" /\ n = Name(t, d)')
    <3>1. CASE n \in files[d]
      BY <1>0, <1>3, <2>1, <2>2, <3>1 DEF TxnOK, RestOK, cards
    <3>2. CASE n \notin files[d]
      <4>1. d = c /\ n = Name(t, c)
        BY <1>4, <2>2, <3>2
      <4> QED
        BY <1>1, <1>2, <1>3, <2>1, <4>1
    <3> QED
      BY <3>1, <3>2
  <2> QED
    BY <1>0, <1>3, <2>1, <2>2 DEF TxnOK, RestOK
<1>9. "sidecar" \in Steps /\ "stage" \in Steps /\ \A S : StepAt(t, "sidecar", S)' /\ StepAt(t, "stage", S)'
  BY DEF StepAt, Steps
<1>10. PICK left \in SUBSET Cards : Go(t, "sidecar", left) \/ Go(t, "stage", left)
  BY <1>0, <1>1, <1>3, LoopCases
<1> QED
  BY <1>3, <1>5, <1>6, <1>7, <1>8, <1>9, <1>10, DiskStep

\* _finish_published: the last sidecar is gone when the loop ends.
LEMMA UnfenceStep == ASSUME VersionInv, VersionInv', OutcomeInv, NEW t \in Txns, Unfence(t) PROVE OutcomeInv'
<1>0. /\ Types /\ Types' /\ CallOK(t) /\ TxnOK(t) /\ RestTypes /\ Members[t] \in SUBSET Cards /\ Members[t] # {}
  BY MembersAreCards DEF VersionInv, CallInv, OutcomeInv, TxnInv
<1>1. PICK S \in SUBSET Cards : S = IF pc[t] = "effects" THEN Members[t] ELSE todo[t]
  BY <1>0 DEF Types
<1>2. /\ S # {} /\ S \subseteq Members[t] /\ marker[t].state = "published" /\ EffectsComplete(t)
      /\ \A d \in Members[t] \ S : Unfenced(t, d)
  BY <1>0, <1>1 DEF Unfence, CallOK, CallAt, TxnOK, StepOK, StepAt
<1>3. PICK c \in Cards : c = Min(S) /\ c \in S
  BY <1>2, FirstCard
<1>4. /\ fenced' = [fenced EXCEPT ![c] = @ \ {Name(t, c)}]
      /\ IF S = {c} THEN Go(t, "free", Members[t]) ELSE Go(t, "unfence", S \ {c})
      /\ UNCHANGED <<cards, files, slot, marker, plan, eff, undo, said, rd>>
  BY <1>1, <1>3 DEF Unfence
<1>5. RestTypes' /\ RestOK(t)' /\ Unfenced(t, c)' /\ \A d \in Cards : Unfenced(t, d) => Unfenced(t, d)'
  <2>1. RestOK(t)
    BY <1>0 DEF TxnOK
  <2> QED
    BY <1>0, <1>4, <2>1, SidecarGone
<1>6. \A u \in Txns \ {t} : FilesKept(u) /\ FencedKept(u) /\ SlotKept(u)
  BY <1>0, <1>4, FencedOthers
<1>7. EffectsComplete(t)' /\ marker'[t].state = "published"
  BY <1>2, <1>4 DEF EffectsComplete
<1>8. PubOK(t)'
  BY <1>7 DEF PubOK
<1>9. \A d \in Members[t] : d \notin S \ {c} => Unfenced(t, d)'
  BY <1>2, <1>5, MemberIsCard
<1>10. CASE S = {c}
  <2>1. Go(t, "free", Members[t])
    BY <1>4, <1>10
  <2>2. StepAt(t, "free", Members[t])' /\ "free" \in Steps
    BY <1>0, <1>7, <1>9, <1>10 DEF StepAt, Steps
  <2> QED
    BY <1>0, <1>4, <1>5, <1>6, <1>8, <2>1, <2>2, DiskStep
<1>11. CASE S # {c}
  <2>1. PICK left \in SUBSET Cards : left = S \ {c} /\ left # {}
    BY <1>3, <1>11
  <2>2. Go(t, "unfence", left)
    BY <1>4, <1>11, <2>1
  <2>3. StepAt(t, "unfence", left)' /\ "unfence" \in Steps
    BY <1>7, <1>9, <2>1 DEF StepAt, Steps
  <2> QED
    BY <1>4, <1>5, <1>6, <1>8, <2>2, <2>3, DiskStep
<1> QED
  BY <1>10, <1>11

\* ROLLBACK deletes a file ...
LEMMA DeleteStep == ASSUME VersionInv, VersionInv', OutcomeInv, NEW t \in Txns, DeleteRevision(t) PROVE OutcomeInv'
<1>0. /\ Types /\ Types' /\ MarkOK(t) /\ CallOK(t) /\ TxnOK(t) /\ RestTypes
  BY DEF VersionInv, MarkInv, CallInv, OutcomeInv, TxnInv
<1>1. pc[t] = "delete" /\ marker[t].state = "rolled_back" /\ todo[t] # {} /\ todo[t] \subseteq Members[t]
  BY <1>0 DEF DeleteRevision, CallOK, CallAt
<1>2. PICK c \in Cards : c = First(t) /\ c \in Members[t]
  BY <1>0, <1>1, FirstLeft, MemberIsCard
<1>3. /\ files' = [files EXCEPT ![c] = @ \ {Name(t, c)}]
      /\ Go(t, "deletesidecar", todo[t]) /\ UNCHANGED <<cards, fenced, slot, marker, plan, eff, undo, said, rd>>
  BY <1>2 DEF DeleteRevision
<1>4. files'[c] = files[c] \ {Name(t, c)} /\ \A d \in Cards : files'[d] \subseteq files[d]
  BY <1>0, <1>3 DEF Types
<1>5. RestTypes'
  BY <1>0, <1>3 DEF RestTypes
<1>6. \A u \in Txns \ {t} : FilesKept(u) /\ FencedKept(u) /\ SlotKept(u)
  BY <1>0, <1>3, FilesOthers
<1>7. PubOK(t)'
  BY <1>1, <1>3 DEF PubOK
<1>8. \A d \in Cards : Name(t, d)' = Name(t, d)
  BY <1>3, NameKept
<1>9. RestOK(t)'
  BY <1>0, <1>3, <1>4, <1>8 DEF TxnOK, RestOK, cards
<1>10. PICK left \in SUBSET Cards : left = todo[t]
  BY <1>0 DEF Types
<1>11. \A d \in Members[t] \ left : Name(t, d)' \notin files'[d] /\ Unfenced(t, d)'
  <2>1. \A d \in Members[t] \ left : d \in Cards /\ Name(t, d) \notin files[d] /\ Unfenced(t, d)
    BY <1>0, <1>1, <1>10, MemberIsCard DEF TxnOK, StepOK, StepAt
  <2> QED
    BY <1>3, <1>4, <1>8, <2>1 DEF Unfenced
<1>12. Name(t, Min(left))' \notin files'[Min(left)]
  <2>1. Name(t, c)' \notin files'[c] /\ c = Min(left)
    BY <1>2, <1>4, <1>8, <1>10 DEF First
  <2> QED
    BY <2>1 DEF Name
<1>13. StepAt(t, "deletesidecar", left)' /\ "deletesidecar" \in Steps
  BY <1>11, <1>12 DEF StepAt, Steps
<1> QED
  BY <1>3, <1>5, <1>6, <1>7, <1>9, <1>10, <1>13, DiskStep

\* ... and its sidecar (_release_and_forget): nothing of t's is left when the loop ends.
LEMMA DeleteSidecarStep == ASSUME VersionInv, VersionInv', OutcomeInv, NEW t \in Txns, DeleteSidecar(t) PROVE OutcomeInv'
<1>0. /\ Types /\ Types' /\ CallOK(t) /\ TxnOK(t) /\ RestTypes
  BY DEF VersionInv, CallInv, OutcomeInv, TxnInv
<1>1. pc[t] = "deletesidecar" /\ marker[t].state = "rolled_back" /\ todo[t] # {} /\ todo[t] \subseteq Members[t]
  BY <1>0 DEF DeleteSidecar, CallOK, CallAt
<1>2. PICK c \in Cards : c = First(t) /\ c \in Members[t]
  BY <1>0, <1>1, FirstLeft, MemberIsCard
<1>3. /\ fenced' = [fenced EXCEPT ![c] = @ \ {Name(t, c)}]
      /\ Loop(t, "delete", "free") /\ UNCHANGED <<cards, files, slot, marker, plan, eff, undo, said, rd>>
  BY <1>2 DEF DeleteSidecar
<1>4. RestTypes' /\ RestOK(t)' /\ Unfenced(t, c)' /\ \A d \in Cards : Unfenced(t, d) => Unfenced(t, d)'
  <2>1. RestOK(t)
    BY <1>0 DEF TxnOK
  <2> QED
    BY <1>0, <1>3, <2>1, SidecarGone
<1>5. \A u \in Txns \ {t} : FilesKept(u) /\ FencedKept(u) /\ SlotKept(u)
  BY <1>0, <1>3, FencedOthers
<1>6. PubOK(t)'
  BY <1>1, <1>3 DEF PubOK
<1>7. ASSUME NEW d \in Members[t], d = c \/ d \notin todo[t] PROVE Name(t, d)' \notin files'[d] /\ Unfenced(t, d)'
  <2>1. d \in Cards /\ Name(t, d)' = Name(t, d)
    BY <1>3, MemberIsCard, NameKept
  <2>2. Name(t, d) \notin files[d]
    BY <1>0, <1>1, <1>2, <1>7 DEF TxnOK, StepOK, StepAt, First
  <2>3. d # c => Unfenced(t, d)
    BY <1>0, <1>1, <1>7 DEF TxnOK, StepOK, StepAt
  <2> QED
    BY <1>3, <1>4, <2>1, <2>2, <2>3
<1>8. PICK left \in SUBSET Cards :
         /\ left # {}
         /\ \/ Go(t, "free", left) /\ left = Members[t] /\ todo[t] = {First(t)}
            \/ Go(t, "delete", left) /\ left = todo[t] \ {First(t)}
  BY <1>0, <1>1, <1>3, LoopCases
<1>9. CASE Go(t, "free", left) /\ left = Members[t] /\ todo[t] = {First(t)}
  <2>1. \A d \in Members[t] : Name(t, d)' \notin files'[d] /\ Unfenced(t, d)'
    BY <1>2, <1>7, <1>9
  <2>2. StepAt(t, "free", left)' /\ "free" \in Steps
    BY <1>1, <1>3, <1>8, <1>9, <2>1 DEF StepAt, Steps
  <2> QED
    BY <1>3, <1>4, <1>5, <1>6, <1>9, <2>2, DiskStep
<1>10. CASE Go(t, "delete", left) /\ left = todo[t] \ {First(t)}
  <2>1. \A d \in Members[t] \ left : Name(t, d)' \notin files'[d] /\ Unfenced(t, d)'
    BY <1>2, <1>7, <1>10
  <2>2. StepAt(t, "delete", left)' /\ "delete" \in Steps
    BY <2>1 DEF StepAt, Steps
  <2> QED
    BY <1>3, <1>4, <1>5, <1>6, <1>10, <2>2, DiskStep
<1> QED
  BY <1>8, <1>9, <1>10

\* A step that changes an effect of t at most.
LEMMA EffectStep ==
    ASSUME VersionInv, VersionInv', OutcomeInv, NEW t \in Txns, NEW i \in 1..Effects[t],
           NEW e \in {"none", "prepared", "applied"}, eff' = [eff EXCEPT ![t][i] = e],
           UNCHANGED <<cards, disk, marker, plan, pc, todo, undo, said, rd>>,
           EffOK(t)', \A c \in Cards : Was(t, c) /\ AllApplied(t) => AllApplied(t)'
    PROVE  OutcomeInv'
<1>0. Types /\ Types' /\ MarkOK(t) /\ CallOK(t) /\ TxnOK(t) /\ RestTypes
  BY DEF VersionInv, OutcomeInv, TxnInv, MarkInv, CallInv
<1>1. DOMAIN eff = Txns /\ \A u \in Txns : eff[u] \in [1..Effects[u] -> {"none", "prepared", "applied"}]
  BY <1>0 DEF RestTypes
<1>2. DOMAIN eff' = Txns /\ (\A u \in Txns \ {t} : eff'[u] = eff[u]) /\ eff'[t] = [eff[t] EXCEPT ![i] = e]
  BY <1>1
<1>3. eff'[t] \in [1..Effects[t] -> {"none", "prepared", "applied"}]
  <2>1. eff[t] \in [1..Effects[t] -> {"none", "prepared", "applied"}]
    BY <1>1
  <2> QED
    BY <1>2, <2>1
<1>4. \A u \in Txns : eff'[u] \in [1..Effects[u] -> {"none", "prepared", "applied"}]
  BY <1>1, <1>2, <1>3
<1>5. RestTypes'
  BY <1>0, <1>2, <1>4 DEF RestTypes, disk
<1>6. \A u \in Txns : FilesKept(u) /\ FencedKept(u) /\ SlotKept(u)
  BY DiskUnmoved
<1>7. BaseKept(t) /\ MarkerKept(t) /\ EverKept(t) /\ PointerKept(t) /\ Grows
  BY Unmoved DEF BaseKept, MarkerKept
<1>8. PlanOK(t)' /\ PubOK(t)' /\ RestOK(t)'
  BY <1>0, <1>5, <1>6, <1>7, PlanKept, PubKept, RestKept DEF TxnOK
<1>9. StepOK(t)'
  BY <1>0, <1>5, <1>6, <1>7, StepKept DEF TxnOK
<1>10. SaidOK(t)' /\ UndoOK(t)'
  BY <1>0, <1>7, SaidKept, UndoKept DEF TxnOK
<1>11. TxnOK(t)'
  BY <1>8, <1>9, <1>10 DEF TxnOK
<1>12. \A u \in Txns \ {t} : /\ MarkerKept(u) /\ plan'[u] = plan[u] /\ eff'[u] = eff[u] /\ pc'[u] = pc[u]
                             /\ todo'[u] = todo[u] /\ said'[u] = said[u] /\ undo'[u] \in {undo[u], "idle"}
                             /\ FilesKept(u) /\ FencedKept(u) /\ SlotKept(u)
  BY <1>2, <1>6 DEF MarkerKept
<1> QED
  BY <1>5, <1>11, <1>12, ActorStep

\* An effect that t's call moves is the only one that changes.
LEMMA EffectMoves ==
    ASSUME RestTypes, NEW t \in Txns, NEW i \in 1..Effects[t], NEW e, eff' = [eff EXCEPT ![t][i] = e]
    PROVE  eff'[t][i] = e /\ \A j \in 1..Effects[t] : j # i => eff'[t][j] = eff[t][j]
<1>1. DOMAIN eff = Txns /\ eff[t] \in [1..Effects[t] -> {"none", "prepared", "applied"}]
  BY DEF RestTypes
<1>2. eff'[t] = [eff[t] EXCEPT ![i] = e]
  BY <1>1
<1> QED
  BY <1>1, <1>2

\* Effects are prepared and released only behind a marker that is not published.
LEMMA PrepareStep ==
    ASSUME VersionInv, VersionInv', OutcomeInv, NEW t \in Txns, NEW i \in 1..Effects[t], Prepare(t, i) \/ ReleaseEffect(t, i)
    PROVE  OutcomeInv'
<1>0. Types /\ MarkOK(t) /\ CallOK(t) /\ TxnOK(t) /\ RestTypes
  BY DEF VersionInv, OutcomeInv, TxnInv, MarkInv, CallInv
<1>1. PICK e \in {"none", "prepared"} :
        /\ eff' = [eff EXCEPT ![t][i] = e]
        /\ UNCHANGED <<cards, disk, marker, plan, pc, todo, undo, said, rd>>
  BY DEF Prepare, ReleaseEffect
<1>2. marker[t].state \in {"staging", "staged"}
  BY <1>0 DEF Prepare, ReleaseEffect, CallOK, CallAt
<1>3. eff'[t][i] = e /\ \A j \in 1..Effects[t] : j # i => eff'[t][j] = eff[t][j]
  BY <1>0, <1>1, EffectMoves
<1>4. marker[t].done = 0 /\ \A j \in 1..Effects[t] : eff[t][j] # "applied"
  BY <1>0, <1>2 DEF TxnOK, EffOK
<1>5. \A j \in 1..Effects[t] : eff'[t][j] # "applied"
  BY <1>3, <1>4
<1>6. EffOK(t)'
  BY <1>1, <1>2, <1>4, <1>5 DEF EffOK
<1>7. ~AllApplied(t)
  BY <1>4 DEF AllApplied
<1> QED
  BY <1>1, <1>6, <1>7, EffectStep

\* A marker counts with a number.
LEMMA DoneIsNat == ASSUME Types, NEW t \in Txns PROVE marker[t].done \in Nat
<1>1. marker[t] \in Markers
  BY DEF Types
<1> QED
  BY <1>1 DEF Markers

\* _apply_once: the next effect in order.
LEMMA ApplyStep == ASSUME VersionInv, VersionInv', OutcomeInv, NEW t \in Txns, ApplyEffect(t) PROVE OutcomeInv'
<1>0. Types /\ Types' /\ TxnOK(t) /\ RestTypes
  BY DEF VersionInv, OutcomeInv, TxnInv
<1>1. PICK i : /\ i = marker[t].done + 1 /\ eff[t][i] = "prepared" /\ eff' = [eff EXCEPT ![t][i] = "applied"]
               /\ UNCHANGED <<cards, disk, marker, plan, pc, todo, undo, said, rd>>
               /\ pc[t] = "effects" /\ ~EffectsComplete(t)
  BY DEF ApplyEffect
<1>2. marker[t].state = "published"
  BY <1>0, <1>1 DEF TxnOK, StepOK, StepAt
<1>3. eff[t] \in [1..Effects[t] -> {"none", "prepared", "applied"}] /\ DOMAIN eff = Txns
  BY <1>0 DEF RestTypes
<1>4. marker[t].done \in Nat /\ Effects[t] \in Nat /\ marker[t].done <= Effects[t] /\ marker[t].done # Effects[t]
  BY <1>0, <1>1, <1>2, DoneIsNat, VersionAssumption DEF TxnOK, EffOK, EffectsComplete
<1>5. i \in 1..Effects[t] /\ \A j \in 1..marker[t].done : j # i /\ j \in 1..Effects[t]
  BY <1>1, <1>4, SMT
<1>6. eff'[t][i] = "applied" /\ \A j \in 1..Effects[t] : j # i => eff'[t][j] = eff[t][j]
  BY <1>0, <1>1, <1>5, EffectMoves
<1>7. \A j \in 1..marker[t].done : eff'[t][j] = "applied"
  BY <1>0, <1>2, <1>5, <1>6 DEF TxnOK, EffOK
<1>8. \A c \in Members[t] : Was(t, c)'
  <2>1. \A c \in Members[t] : Was(t, c)
    BY <1>0, <1>2 DEF TxnOK, EffOK
  <2> QED
    BY <1>1, <2>1 DEF Was, cards
<1>9. EffOK(t)'
  BY <1>1, <1>2, <1>4, <1>7, <1>8 DEF EffOK
<1>10. ~AllApplied(t)
  BY <1>1, <1>5 DEF AllApplied
<1> QED
  BY <1>1, <1>5, <1>9, <1>10, EffectStep

\* The marker counts one more effect.
LEMMA DoneEffect ==
    ASSUME Types, NEW t \in Txns, marker' = [marker EXCEPT ![t].done = @ + 1]
    PROVE  /\ marker'[t].state = marker[t].state /\ marker'[t].base = marker[t].base
           /\ marker'[t].done = marker[t].done + 1
           /\ \A u \in Txns \ {t} : marker'[u] = marker[u]
<1>1. marker[t] \in Markers /\ marker \in [Txns -> Markers]
  BY DEF Types
<1>2. marker' = [marker EXCEPT ![t] = [marker[t] EXCEPT !.done = marker[t].done + 1]]
  BY <1>1
<1>3. marker'[t] = [marker[t] EXCEPT !.done = marker[t].done + 1] /\ \A u \in Txns \ {t} : marker'[u] = marker[u]
  BY <1>1, <1>2
<1>4. marker'[t].state = marker[t].state /\ marker'[t].base = marker[t].base /\ marker'[t].done = marker[t].done + 1
  BY <1>1, <1>3 DEF Markers
<1> QED
  BY <1>3, <1>4

\* The outcome of an effect is recorded once it is applied.
LEMMA RecordStep == ASSUME VersionInv, VersionInv', OutcomeInv, NEW t \in Txns, RecordEffect(t) PROVE OutcomeInv'
<1>0. Types /\ Types' /\ TxnOK(t) /\ RestTypes
  BY DEF VersionInv, OutcomeInv, TxnInv
<1>1. /\ pc[t] = "effects" /\ ~EffectsComplete(t) /\ eff[t][marker[t].done + 1] = "applied"
      /\ marker' = [marker EXCEPT ![t].done = @ + 1]
      /\ UNCHANGED <<cards, disk, plan, eff, pc, todo, undo, said, rd>>
  BY DEF RecordEffect
<1>2. marker[t].state = "published"
  BY <1>0, <1>1 DEF TxnOK, StepOK, StepAt
<1>3. /\ marker'[t].state = marker[t].state /\ marker'[t].base = marker[t].base
      /\ marker'[t].done = marker[t].done + 1
      /\ \A u \in Txns \ {t} : marker'[u] = marker[u]
  BY <1>0, <1>1, DoneEffect
<1>4. marker[t].done \in Nat /\ Effects[t] \in Nat /\ marker[t].done <= Effects[t] /\ marker[t].done # Effects[t]
  BY <1>0, <1>1, <1>2, DoneIsNat, VersionAssumption DEF TxnOK, EffOK, EffectsComplete
<1>5. marker'[t].done <= Effects[t] /\ \A j \in 1..marker'[t].done : j \in 1..marker[t].done \/ j = marker[t].done + 1
  BY <1>3, <1>4, SMT
<1>6. \A j \in 1..marker'[t].done : eff'[t][j] = "applied"
  BY <1>0, <1>1, <1>2, <1>5 DEF TxnOK, EffOK
<1>7. \A c \in Members[t] : Was(t, c)'
  <2>1. \A c \in Members[t] : Was(t, c)
    BY <1>0, <1>2 DEF TxnOK, EffOK
  <2> QED
    BY <1>1, <2>1 DEF Was, cards
<1>8. EffOK(t)'
  BY <1>2, <1>3, <1>5, <1>6, <1>7 DEF EffOK
<1>9. RestTypes'
  BY <1>0, <1>1 DEF RestTypes, disk
<1>10. \A u \in Txns : FilesKept(u) /\ FencedKept(u) /\ SlotKept(u)
  BY <1>1, DiskUnmoved
<1>11. BaseKept(t) /\ EverKept(t) /\ Grows
  BY <1>1, <1>3, Unmoved DEF BaseKept
<1>12. PlanOK(t)' /\ RestOK(t)'
  BY <1>0, <1>1, <1>9, <1>10, <1>11, PlanKept, RestKept DEF TxnOK
<1>13. SaidOK(t)' /\ UndoOK(t)'
  BY <1>0, <1>1, <1>11, SaidKept, UndoKept DEF TxnOK
<1>14. PubOK(t)'
  <2>1. \A c \in Members[t] : Own(t, c)
    BY <1>0, <1>1, <1>2 DEF TxnOK, PubOK
  <2>2. \A c \in Members[t] : Own(t, c)'
    BY <1>1, <1>3, <2>1 DEF Own, Name, cards
  <2> QED
    BY <1>2, <1>3, <2>2 DEF PubOK
<1>15. StepOK(t)'
  BY <1>1, <1>2, <1>3 DEF StepOK, StepAt
<1>16. TxnOK(t)'
  BY <1>8, <1>12, <1>13, <1>14, <1>15 DEF TxnOK
<1>17. AllApplied(t) => AllApplied(t)'
  BY <1>1 DEF AllApplied
<1>18. \A u \in Txns \ {t} : /\ MarkerKept(u) /\ plan'[u] = plan[u] /\ eff'[u] = eff[u] /\ pc'[u] = pc[u]
                             /\ todo'[u] = todo[u] /\ said'[u] = said[u] /\ undo'[u] \in {undo[u], "idle"}
                             /\ FilesKept(u) /\ FencedKept(u) /\ SlotKept(u)
  BY <1>1, <1>3, <1>10 DEF MarkerKept
<1> QED
  BY <1>1, <1>9, <1>16, <1>17, <1>18, ActorStep

\* A marker that is there takes another state: its count stays.
LEMMA StateLeaves ==
    ASSUME Types, NEW p \in Txns, NEW s \in States, marker' = [marker EXCEPT ![p].state = s]
    PROVE  /\ marker'[p].state = s /\ marker'[p].base = marker[p].base /\ marker'[p].done = marker[p].done
           /\ \A u \in Txns \ {p} : marker'[u] = marker[u]
<1>1. marker[p] \in Markers /\ marker \in [Txns -> Markers]
  BY DEF Types
<1>2. marker'[p] = [marker[p] EXCEPT !.state = s] /\ \A u \in Txns \ {p} : marker'[u] = marker[u]
  BY <1>1
<1>3. marker'[p].state = s /\ marker'[p].base = marker[p].base /\ marker'[p].done = marker[p].done
  BY <1>1, <1>2 DEF Markers
<1> QED
  BY <1>2, <1>3

\* A step that changes the state of one marker, and moves its call at most.
LEMMA StateStep ==
    ASSUME VersionInv, VersionInv', OutcomeInv, NEW p \in Txns, NEW s \in States \ {"none"},
           marker[p].state # "none", marker' = [marker EXCEPT ![p].state = s],
           UNCHANGED <<cards, disk, plan, eff, said, rd>>,
           \A u \in Txns \ {p} : pc'[u] = pc[u] /\ todo'[u] = todo[u] /\ undo'[u] = undo[u],
           undo' \in [Txns -> {"idle", "stage", "publish"}], undo[p] = "idle" => undo'[p] = "idle",
           EffOK(p)', PubOK(p)', StepOK(p)'
    PROVE  OutcomeInv'
<1>0. Types /\ Types' /\ TxnOK(p) /\ RestTypes
  BY DEF VersionInv, OutcomeInv, TxnInv
<1>1. /\ marker'[p].state = s /\ marker'[p].base = marker[p].base
      /\ \A u \in Txns \ {p} : marker'[u] = marker[u]
  BY <1>0, StateLeaves
<1>2. RestTypes'
  BY <1>0 DEF RestTypes, disk
<1>3. \A u \in Txns : FilesKept(u) /\ FencedKept(u) /\ SlotKept(u)
  BY DiskUnmoved
<1>4. EverKept(p) /\ Grows
  BY Unmoved
<1>5. PlanOK(p)'
  <2>1. /\ plan[p] # NoPlan => plan[p] \in [Members[p] -> Nat]
        /\ plan[p] # NoPlan /\ \A c \in Members[p] : plan[p][c] = marker[p].base[c].ver
        /\ \A c \in Cards : \A n \in ever[c] : n.txn = p => c \in Members[p] /\ plan[p] # NoPlan /\ n.ver = plan[p][c] + 1
    BY <1>0 DEF TxnOK, PlanOK
  <2>2. \A c \in Members[p] : plan'[p][c] = marker'[p].base[c].ver
    BY <1>1, <2>1
  <2>3. \A c \in Cards : \A n \in ever'[c] : n.txn = p => c \in Members[p] /\ plan'[p] # NoPlan /\ n.ver = plan'[p][c] + 1
    BY <2>1 DEF cards
  <2>4. plan'[p] # NoPlan /\ (plan'[p] # NoPlan => plan'[p] \in [Members[p] -> Nat])
    BY <2>1
  <2> QED
    BY <2>2, <2>3, <2>4 DEF PlanOK, NoPlan
<1>6. RestOK(p)'
  <2>1. \A c \in Cards : Name(p, c)' = Name(p, c)
    BY <1>1, NameKept
  <2>2. marker'[p].state # "none"
    BY <1>1
  <2>3. RestOK(p)
    BY <1>0 DEF TxnOK
  <2>4. files' = files /\ fenced' = fenced /\ slot' = slot /\ ever' = ever
    BY DEF cards, disk
  <2> QED
    BY <2>1, <2>2, <2>3, <2>4 DEF RestOK
<1>7. SaidOK(p)'
  BY <1>0, <1>4, SaidKept DEF TxnOK
<1>8. UndoOK(p)'
  <2>1. \A c \in Members[p] : \A v : Was(v, c) => Was(v, c)'
    BY <1>4, WasGrows, MemberIsCard
  <2> QED
    BY <1>0, <1>1, <2>1 DEF TxnOK, UndoOK
<1>9. TxnOK(p)'
  BY <1>5, <1>6, <1>7, <1>8 DEF TxnOK
<1>10. AllApplied(p) => AllApplied(p)'
  BY DEF AllApplied
<1>11. \A u \in Txns \ {p} : /\ MarkerKept(u) /\ plan'[u] = plan[u] /\ eff'[u] = eff[u] /\ pc'[u] = pc[u]
                             /\ todo'[u] = todo[u] /\ said'[u] = said[u] /\ undo'[u] \in {undo[u], "idle"}
                             /\ FilesKept(u) /\ FencedKept(u) /\ SlotKept(u)
  BY <1>1, <1>3 DEF MarkerKept
<1> QED
  BY <1>2, <1>9, <1>10, <1>11, ActorStep

\* A staged marker whose versions are all current may be marked published.
LEMMA PublishedNow ==
    ASSUME VersionInv, NEW p \in Txns, TxnOK(p), marker[p].state = "staged", \A c \in Members[p] : Own(p, c),
           marker' = [marker EXCEPT ![p].state = "published"], UNCHANGED <<cards, eff>>
    PROVE  EffOK(p)' /\ PubOK(p)'
<1>0. Types /\ CardInv
  BY DEF VersionInv
<1>1. marker'[p].state = "published" /\ marker'[p].base = marker[p].base /\ marker'[p].done = marker[p].done
  BY <1>0, StateLeaves DEF States
<1>2. marker[p].done = 0
  BY DEF TxnOK, EffOK
<1>3. marker'[p].done <= Effects[p] /\ \A j \in 1..marker'[p].done : FALSE
  <2>1. marker'[p].done = 0 /\ Effects[p] \in Nat
    BY <1>1, <1>2, VersionAssumption
  <2> QED
    BY <2>1, SMT
<1>4. \A c \in Members[p] : Was(p, c)'
  <2>1. ASSUME NEW c \in Members[p] PROVE Name(p, c) \in ever[c] /\ Name(p, c).txn = p
    BY <1>0, OwnWasCurrent, NameFields
  <2> QED
    BY <2>1 DEF Was, cards
<1>5. EffOK(p)'
  BY <1>1, <1>3, <1>4 DEF EffOK
<1>6. \A c \in Members[p] : Own(p, c)'
  BY <1>1 DEF Own, Name, cards
<1>7. PubOK(p)'
  BY <1>1, <1>6 DEF PubOK
<1> QED
  BY <1>5, <1>7

\* STAGE ends: no pointer names the version yet.
LEMMA MarkStagedStep == ASSUME VersionInv, VersionInv', OutcomeInv, NEW t \in Txns, MarkStaged(t) PROVE OutcomeInv'
<1>0. Types /\ CardInv /\ MarkOK(t) /\ CallOK(t) /\ TxnOK(t) /\ RestTypes
  BY DEF VersionInv, MarkInv, CallInv, OutcomeInv, TxnInv
<1>1. marker[t].state = "staging" /\ Fresh(t)
  BY <1>0 DEF MarkStaged, CallOK, CallAt, MarkOK
<1>2. /\ marker' = [marker EXCEPT ![t].state = "staged"] /\ Go(t, "idle", {})
      /\ undo' = [undo EXCEPT ![t] = IF @ = "stage" THEN "publish" ELSE @]
      /\ UNCHANGED <<cards, disk, plan, eff, said, rd>>
  BY DEF MarkStaged
<1>3. marker'[t].state = "staged" /\ marker'[t].base = marker[t].base /\ marker'[t].done = marker[t].done
  <2>1. "staged" \in States
    BY DEF States
  <2> QED
    BY <1>0, <1>2, <2>1, StateLeaves
<1>4. pc'[t] = "idle" /\ \A u \in Txns \ {t} : pc'[u] = pc[u] /\ todo'[u] = todo[u]
  <2>1. "idle" \in Steps /\ {} \in SUBSET Cards
    BY DEF Steps
  <2> QED
    BY <1>0, <1>2, <2>1, GoEffect
<1>5. undo \in [Txns -> {"idle", "stage", "publish"}]
  BY <1>0 DEF RestTypes
<1>6. /\ undo' \in [Txns -> {"idle", "stage", "publish"}] /\ (undo[t] = "idle" => undo'[t] = "idle")
      /\ \A u \in Txns \ {t} : undo'[u] = undo[u]
  BY <1>2, <1>5
<1>7. EffOK(t)'
  BY <1>0, <1>1, <1>2, <1>3 DEF TxnOK, EffOK
<1>8. PubOK(t)'
  <2>1. \A c \in Members[t] : ~Own(t, c)
    BY <1>0, <1>1, OwnWasCurrent DEF Fresh
  <2>2. \A c \in Members[t] : ~Own(t, c)'
    BY <1>2, <1>3, <2>1 DEF Own, Name, cards
  <2> QED
    BY <1>3, <2>2 DEF PubOK
<1>9. StepOK(t)'
  BY <1>4 DEF StepOK, StepAt
<1>10. "staged" \in States \ {"none"}
  BY DEF States
<1> QED
  BY <1>1, <1>2, <1>4, <1>6, <1>7, <1>8, <1>9, <1>10, StateStep

\* PUBLISH marks the group once every pointer has moved.
LEMMA MarkPublishedStep == ASSUME VersionInv, VersionInv', OutcomeInv, NEW t \in Txns, MarkPublished(t) PROVE OutcomeInv'
<1>0. Types /\ TxnOK(t) /\ RestTypes
  BY DEF VersionInv, OutcomeInv, TxnInv
<1>1. /\ pc[t] = "advance" /\ todo[t] = {} /\ marker' = [marker EXCEPT ![t].state = "published"] /\ Go(t, "effects", {})
      /\ UNCHANGED <<cards, disk, plan, eff, undo, said, rd>>
  BY DEF MarkPublished
<1>2. marker[t].state = "staged" /\ \A c \in Members[t] : Own(t, c)
  BY <1>0, <1>1 DEF TxnOK, StepOK, StepAt
<1>3. EffOK(t)' /\ PubOK(t)'
  BY <1>0, <1>1, <1>2, PublishedNow
<1>4. pc'[t] = "effects" /\ \A u \in Txns \ {t} : pc'[u] = pc[u] /\ todo'[u] = todo[u]
  BY <1>0, <1>1, GoEffect DEF Steps
<1>5. marker'[t].state = "published"
  BY <1>0, <1>1, StateLeaves DEF States
<1>6. StepOK(t)'
  BY <1>4, <1>5 DEF StepOK, StepAt
<1>7. "published" \in States \ {"none"} /\ undo' \in [Txns -> {"idle", "stage", "publish"}]
  BY <1>0, <1>1 DEF States, RestTypes
<1> QED
  BY <1>1, <1>2, <1>3, <1>4, <1>6, <1>7, StateStep

\* finalize_current_version marks a publication that stopped: its call does not run, for it would hold the Card.
LEMMA FinalStep ==
    ASSUME VersionInv, VersionInv', OutcomeInv, NEW t \in Txns, NEW c \in Cards, Finalize(t, c)
    PROVE  OutcomeInv'
<1>0. Types /\ CardInv /\ RestTypes /\ TxnInv
  BY DEF VersionInv, OutcomeInv
<1>1. PICK p : /\ p = current[c].txn /\ p # NoTxn /\ marker[p].state = "staged" /\ (\A m \in Members[p] : Own(p, m))
               /\ marker' = [marker EXCEPT ![p].state = "published"] /\ Enter(t) /\ c \in Reads[t]
               /\ UNCHANGED <<cards, disk, plan, eff, pc, todo, undo, said, rd>>
  BY DEF Finalize
<1>2. p \in Txns
  <2>1. current[c] \in Versions
    BY <1>0 DEF Types
  <2>2. current[c].txn \in Txns \cup {NoTxn}
    BY <2>1 DEF Versions
  <2> QED
    BY <1>1, <2>2
<1>3. TxnOK(p)
  BY <1>0, <1>2 DEF TxnInv
<1>4. c \in Members[p]
  <2>1. current[c] # Absent
    BY <1>1, SMT DEF Absent
  <2>2. current[c] \in ever[c]
    BY <1>0, <2>1 DEF CardInv
  <2> QED
    BY <1>1, <1>3, <2>2 DEF TxnOK, PlanOK
<1>5. pc[p] = "idle"
  BY <1>1, <1>2, <1>4 DEF Enter, Held, Locks
<1>6. EffOK(p)' /\ PubOK(p)'
  BY <1>1, <1>2, <1>3, PublishedNow
<1>7. StepOK(p)'
  BY <1>1, <1>5 DEF StepOK, StepAt
<1>8. "published" \in States \ {"none"} /\ undo' \in [Txns -> {"idle", "stage", "publish"}]
  BY <1>0, <1>1 DEF States, RestTypes
<1> QED
  BY <1>1, <1>2, <1>6, <1>7, <1>8, StateStep

\* ROLLBACK retires a marker once every effect is released.
LEMMA RetireStep == ASSUME VersionInv, VersionInv', OutcomeInv, NEW t \in Txns, Retire(t) PROVE OutcomeInv'
<1>0. Types /\ CallOK(t) /\ TxnOK(t) /\ RestTypes /\ Members[t] \in SUBSET Cards
  BY MembersAreCards DEF VersionInv, CallInv, OutcomeInv, TxnInv
<1>1. /\ marker' = [marker EXCEPT ![t].state = "rolled_back"] /\ Go(t, "delete", Members[t])
      /\ UNCHANGED <<cards, disk, plan, eff, undo, said, rd>>
  BY DEF Retire
<1>2. marker[t].state \in {"staging", "staged", "rolled_back"}
  BY <1>0 DEF Retire, CallOK, CallAt
<1>3. NoneTaken(t)
  <2>1. CASE pc[t] = "retire"
    BY <1>0, <2>1 DEF CallOK, CallAt, TxnOK, EffOK
  <2>2. CASE pc[t] # "retire"
    BY <2>2 DEF Retire, NoneTaken
  <2> QED
    BY <2>1, <2>2
<1>4. marker'[t].state = "rolled_back" /\ marker'[t].done = marker[t].done
  BY <1>0, <1>1, StateLeaves DEF States
<1>5. NoneTaken(t)'
  BY <1>1, <1>3 DEF NoneTaken
<1>6. EffOK(t)'
  <2>1. marker[t].done = 0 /\ \A i \in 1..Effects[t] : eff[t][i] # "applied"
    BY <1>0, <1>2 DEF TxnOK, EffOK
  <2> QED
    BY <1>1, <1>4, <1>5, <2>1 DEF EffOK
<1>7. PubOK(t)'
  BY <1>4 DEF PubOK
<1>8. pc'[t] = "delete" /\ todo'[t] = Members[t] /\ \A u \in Txns \ {t} : pc'[u] = pc[u] /\ todo'[u] = todo[u]
  BY <1>0, <1>1, GoEffect DEF Steps
<1>9. StepOK(t)'
  BY <1>8 DEF StepOK, StepAt
<1>10. "rolled_back" \in States \ {"none"} /\ undo' \in [Txns -> {"idle", "stage", "publish"}]
  BY <1>0, <1>1 DEF States, RestTypes
<1> QED
  BY <1>1, <1>2, <1>6, <1>7, <1>8, <1>9, <1>10, StateStep

\* A version is its transaction and its number.
LEMMA VersionEq == ASSUME NEW n \in Versions, NEW m \in Versions, n.txn = m.txn, n.ver = m.ver PROVE n = m
BY SMT DEF Versions

\* A pointer that names a version of a transaction names one that was current.
LEMMA CurrentWas ==
    ASSUME CardInv, NEW t \in Txns, NEW c \in Cards, current[c].txn = t
    PROVE  current[c] \in ever[c] /\ Was(t, c)
<1>1. t # NoTxn
  BY VersionAssumption
<1>2. current[c] # Absent
  BY <1>1, SMT DEF Absent
<1>3. current[c] \in ever[c]
  BY <1>2 DEF CardInv
<1> QED
  BY <1>3 DEF Was

\* A version of t that was current has the number its marker gives it.
LEMMA WasName ==
    ASSUME Types, NEW t \in Txns, MarkOK(t), PlanOK(t), marker[t].state # "none",
           NEW c \in Cards, NEW n \in ever[c], n.txn = t
    PROVE  c \in Members[t] /\ n = Name(t, c)
<1>1. c \in Members[t] /\ n.ver = plan[t][c] + 1
  BY DEF PlanOK
<1>2. plan[t][c] = marker[t].base[c].ver
  BY <1>1 DEF PlanOK
<1>3. n \in Versions /\ Name(t, c) \in Versions
  BY <1>1, NameIsVersion DEF Types
<1>4. Name(t, c).txn = t /\ Name(t, c).ver = marker[t].base[c].ver + 1
  BY NameFields
<1>5. n.txn = Name(t, c).txn /\ n.ver = Name(t, c).ver
  BY <1>1, <1>2, <1>4
<1> QED
  BY <1>1, <1>3, <1>5, VersionEq

\* A fresh transaction was never current.
LEMMA FreshWasNot ==
    ASSUME Types, NEW t \in Txns, MarkOK(t), PlanOK(t), marker[t].state # "none", Fresh(t)
    PROVE  \A c \in Cards : ~Was(t, c)
BY WasName DEF Was, Fresh

\* STAGE without a marker is the first of its transaction that gets that far: published versions carry the numbers
\* that follow the plan, and the plan no longer fits.
LEMMA StageIsFirst ==
    ASSUME VersionInv, OutcomeInv, NEW t \in Txns, StageFresh(t)
    PROVE  NoneTaken(t) /\ \A c \in Cards : ~Was(t, c)
<1>0. Types /\ CardInv /\ PlanOK(t) /\ EffOK(t)
  BY DEF VersionInv, OutcomeInv, TxnInv, TxnOK
<1>1. ASSUME NEW c \in Cards, NEW n \in ever[c], n.txn = t PROVE FALSE
  <2>1. c \in Members[t] /\ plan[t] # NoPlan /\ n.ver = plan[t][c] + 1
    BY <1>0, <1>1 DEF PlanOK
  <2>2. plan[t] = Bases(t)
    BY <2>1 DEF StageFresh
  <2>3. plan[t][c] = current[c].ver
    BY <2>1, <2>2 DEF Bases
  <2>4. n.ver <= current[c].ver
    BY <1>0 DEF CardInv
  <2>5. current[c] \in Versions
    BY <1>0 DEF Types
  <2>6. current[c].ver \in Nat
    BY <2>5 DEF Versions
  <2> QED
    BY <2>1, <2>3, <2>4, <2>6, SMT
<1>2. \A c \in Cards : ~Was(t, c)
  BY <1>1 DEF Was
<1>3. \E c \in Members[t] : c \in Cards
  BY MembersAreCards
<1>4. marker[t].state = "none"
  BY DEF StageFresh
<1> QED
  BY <1>0, <1>2, <1>3, <1>4 DEF EffOK

\* A compensation stages over versions of the transaction it undoes.
LEMMA StagesOverUndone ==
    ASSUME VersionInv, OutcomeInv, NEW x \in Txns, StageFresh(x), Undoes[x] # NoTxn, NEW c \in Members[x]
    PROVE  current[c].txn = Undoes[x]
<1> DEFINE t == Undoes[x]
<1>0. Types /\ CardInv /\ NumberInv /\ UndoOK(x)
  BY DEF VersionInv, OutcomeInv, TxnInv, TxnOK
<1>1. t \in Txns /\ c \in Cards
  BY MemberIsCard, VersionAssumption
<1>2. PlanOK(t)
  BY <1>1 DEF OutcomeInv, TxnInv, TxnOK
<1>3. undo[x] = "stage" /\ current[c].ver = plan[t][c] + 1
  BY DEF StageFresh, PlannedBase
<1> HIDE DEF t
<1>4. Was(t, c)
  <2>1. ~Was(x, c)
    BY <1>1, StageIsFirst
  <2> QED
    BY <1>0, <1>3, <2>1 DEF UndoOK, t
<1>5. PICK n \in ever[c] : n.txn = t
  BY <1>4 DEF Was
<1>6. c \in Members[t] /\ plan[t] # NoPlan /\ n.ver = plan[t][c] + 1
  BY <1>1, <1>2, <1>5 DEF PlanOK
<1>7. plan[t][c] \in Nat
  BY <1>2, <1>6 DEF PlanOK
<1>8. current[c].ver # 0
  BY <1>3, <1>7, SMT
<1>9. current[c] # Absent
  BY <1>8, SMT DEF Absent
<1>10. current[c] \in ever[c]
  BY <1>0, <1>1, <1>9 DEF CardInv
<1>11. current[c] = n
  BY <1>0, <1>1, <1>3, <1>6, <1>10 DEF NumberInv
<1> QED
  BY <1>5, <1>11 DEF t

\* STAGE without a marker.
LEMMA FreshStep == ASSUME VersionInv, VersionInv', OutcomeInv, NEW t \in Txns, StageFresh(t) PROVE OutcomeInv'
<1>0. /\ Types /\ Types' /\ TxnOK(t) /\ RestTypes /\ Members[t] \in SUBSET Cards /\ Members[t] # {}
  BY MembersAreCards DEF VersionInv, OutcomeInv, TxnInv
<1>1. PICK b, r : /\ b = [c \in Members[t] |-> current[c]]
                  /\ marker' = [marker EXCEPT ![t] = [state |-> "staging", base |-> b, reads |-> r, done |-> 0]]
  BY DEF StageFresh
<1>2. /\ plan' = [plan EXCEPT ![t] = Bases(t)] /\ Go(t, "reserve", Members[t])
      /\ UNCHANGED <<cards, disk, eff, undo, said, rd>> /\ marker[t].state = "none"
  BY DEF StageFresh
<1>3. NoneTaken(t) /\ \A c \in Cards : ~Was(t, c)
  BY StageIsFirst
<1>4. /\ marker'[t].state = "staging" /\ marker'[t].done = 0 /\ marker'[t].base = b
      /\ \A u \in Txns \ {t} : marker'[u] = marker[u]
  <2>1. marker \in [Txns -> Markers]
    BY <1>0 DEF Types
  <2> DEFINE m == [state |-> "staging", base |-> b, reads |-> r, done |-> 0]
  <2>2. m.state = "staging" /\ m.done = 0 /\ m.base = b
    OBVIOUS
  <2>3. marker' = [marker EXCEPT ![t] = m]
    BY <1>1
  <2> HIDE DEF m
  <2>4. marker'[t] = m /\ \A u \in Txns \ {t} : marker'[u] = marker[u]
    BY <2>1, <2>3
  <2> QED
    BY <2>2, <2>4
<1>5. \A c \in Members[t] : c \in Cards /\ current[c].ver \in Nat
  <2>1. \A c \in Members[t] : c \in Cards /\ current[c] \in Versions
    BY <1>0 DEF Types
  <2> QED
    BY <2>1 DEF Versions
<1>6. Bases(t) \in [Members[t] -> Nat] /\ \A c \in Members[t] : Bases(t)[c] = current[c].ver
  BY <1>5 DEF Bases
<1>7. Bases(t) # NoPlan
  <2>1. DOMAIN Bases(t) = Members[t]
    BY DEF Bases
  <2>2. DOMAIN NoPlan = {}
    BY SMT DEF NoPlan
  <2> QED
    BY <1>0, <2>1, <2>2
<1>8. plan'[t] = Bases(t) /\ \A u \in Txns \ {t} : plan'[u] = plan[u]
  BY <1>0, <1>2 DEF RestTypes
<1>9. RestTypes'
  <2> DEFINE P == {NoPlan} \cup UNION {[Members[u] -> Nat] : u \in Txns}
  <2>1. plan \in [Txns -> P] /\ Bases(t) \in P
    BY <1>0, <1>6 DEF RestTypes
  <2> HIDE DEF P
  <2>2. plan' \in [Txns -> P]
    BY <1>2, <2>1
  <2> USE DEF P
  <2> QED
    BY <1>0, <1>2, <2>2 DEF RestTypes, disk
<1>10. \A c \in Cards : ~Was(t, c)'
  BY <1>2, <1>3 DEF Was, cards
<1>11. PlanOK(t)'
  <2>1. ASSUME NEW c \in Members[t] PROVE plan'[t][c] = marker'[t].base[c].ver
    <3>1. b[c] = current[c]
      BY <1>1
    <3>2. plan'[t][c] = current[c].ver
      BY <1>6, <1>8
    <3> QED
      BY <1>4, <3>1, <3>2
  <2>2. plan'[t] # NoPlan /\ plan'[t] \in [Members[t] -> Nat]
    BY <1>6, <1>7, <1>8
  <2>3. \A c \in Cards : \A n \in ever'[c] : n.txn # t
    BY <1>10 DEF Was
  <2> QED
    BY <2>1, <2>2, <2>3 DEF PlanOK, NoPlan
<1>12. EffOK(t)'
  BY <1>2, <1>3, <1>4 DEF EffOK, NoneTaken
<1>13. PubOK(t)'
  BY <1>4 DEF PubOK
<1>14. RestOK(t)'
  <2>1. \A c \in Cards : /\ slot[c].txn # t /\ (\A n \in fenced[c] : n.txn # t)
                         /\ \A n \in files[c] : n.txn = t => n \in ever[c]
    BY <1>0, <1>2 DEF TxnOK, RestOK
  <2> QED
    BY <1>2, <2>1 DEF RestOK, disk, cards
<1>15. pc'[t] = "reserve" /\ \A u \in Txns \ {t} : pc'[u] = pc[u] /\ todo'[u] = todo[u]
  <2>1. "reserve" \in Steps
    BY DEF Steps
  <2> QED
    BY <1>0, <1>2, <2>1, GoEffect
<1>16. StepOK(t)'
  BY <1>4, <1>15 DEF StepOK, StepAt
<1>17. Grows
  BY <1>2, Unmoved
<1>18. SaidOK(t)'
  BY <1>0, <1>2, <1>17, SaidKept DEF TxnOK
<1>19. UndoOK(t)'
  <2>1. ASSUME Undoes[t] # NoTxn, NEW c \in Members[t] PROVE marker'[t].base[c].txn = Undoes[t]
    <3>1. current[c].txn = Undoes[t]
      BY <2>1, StagesOverUndone
    <3> QED
      BY <1>1, <1>4, <2>1, <3>1
  <2>2. \A c \in Members[t] : \A v : Was(v, c) => Was(v, c)'
    BY <1>17, WasGrows, MemberIsCard
  <2> QED
    BY <1>0, <1>2, <2>1, <2>2 DEF TxnOK, UndoOK
<1>20. TxnOK(t)'
  BY <1>11, <1>12, <1>13, <1>14, <1>16, <1>18, <1>19 DEF TxnOK
<1>21. \A u \in Txns \ {t} : /\ MarkerKept(u) /\ plan'[u] = plan[u] /\ eff'[u] = eff[u] /\ pc'[u] = pc[u]
                             /\ todo'[u] = todo[u] /\ said'[u] = said[u] /\ undo'[u] \in {undo[u], "idle"}
                             /\ FilesKept(u) /\ FencedKept(u) /\ SlotKept(u)
  BY <1>2, <1>4, <1>8, <1>15, DiskUnmoved DEF MarkerKept
<1> QED
  BY <1>2, <1>3, <1>9, <1>20, <1>21, ActorStep

\* The marker goes last: what it named is published or gone, and the answer agrees with every earlier one.
LEMMA ForgetsStep == ASSUME VersionInv, VersionInv', OutcomeInv, NEW t \in Txns, Forget(t) PROVE OutcomeInv'
<1>0. /\ Types /\ Types' /\ MarkOK(t) /\ TxnOK(t) /\ RestTypes /\ Members[t] # {}
  BY MembersAreCards DEF VersionInv, MarkInv, OutcomeInv, TxnInv
<1>1. /\ pc[t] = "forget" /\ Told(t, marker[t].state = "published") /\ marker' = [marker EXCEPT ![t] = NoMarker]
      /\ Go(t, "idle", {}) /\ undo' = [undo EXCEPT ![t] = "idle"] /\ UNCHANGED <<cards, disk, plan, eff, rd>>
  BY DEF Forget
<1>2. /\ marker[t].state = "rolled_back" \/ (marker[t].state = "published" /\ EffectsComplete(t))
      /\ \A c \in Members[t] : Unfenced(t, c) /\ slot[c].txn # t
      /\ marker[t].state = "rolled_back" => \A c \in Members[t] : Name(t, c) \notin files[c]
  BY <1>0, <1>1 DEF TxnOK, StepOK, StepAt
<1>3. marker'[t].state = "none" /\ \A u \in Txns \ {t} : marker'[u] = marker[u]
  <2>1. marker \in [Txns -> Markers] /\ NoMarker.state = "none"
    BY <1>0 DEF Types, NoMarker
  <2> QED
    BY <1>1, <2>1
<1>4. pc'[t] = "idle" /\ \A u \in Txns \ {t} : pc'[u] = pc[u] /\ todo'[u] = todo[u]
  <2>1. "idle" \in Steps /\ {} \in SUBSET Cards
    BY DEF Steps
  <2> QED
    BY <1>0, <1>1, <2>1, GoEffect
<1>5. /\ undo' \in [Txns -> {"idle", "stage", "publish"}] /\ undo'[t] = "idle"
      /\ \A u \in Txns \ {t} : undo'[u] = undo[u]
  <2>1. undo \in [Txns -> {"idle", "stage", "publish"}]
    BY <1>0 DEF RestTypes
  <2> QED
    BY <1>1, <2>1
<1>6. \/ marker[t].state = "rolled_back" /\ NoneTaken(t) /\ \A c \in Cards : ~Was(t, c)
      \/ marker[t].state = "published" /\ AllApplied(t) /\ \A c \in Members[t] : Was(t, c)
  <2>1. CASE marker[t].state = "rolled_back"
    BY <1>0, <2>1, FreshWasNot DEF MarkOK, TxnOK, EffOK
  <2>2. CASE marker[t].state = "published"
    <3>1. marker[t].done = Effects[t]
      BY <1>2, <2>2 DEF EffectsComplete
    <3> QED
      BY <1>0, <2>2, <3>1 DEF TxnOK, EffOK, AllApplied
  <2> QED
    BY <1>2, <2>1, <2>2
<1>7. \A c \in Cards : Was(t, c)' <=> Was(t, c)
  BY <1>1 DEF Was, cards
<1>8. \A c \in Members[t] : c \in Cards
  BY MemberIsCard
<1>9. PlanOK(t)'
  <2>1. \A c \in Cards : \A n \in ever[c] : n.txn = t => c \in Members[t] /\ plan[t] # NoPlan /\ n.ver = plan[t][c] + 1
    BY <1>0 DEF TxnOK, PlanOK
  <2>2. plan[t] # NoPlan => plan[t] \in [Members[t] -> Nat]
    BY <1>0 DEF TxnOK, PlanOK
  <2> QED
    BY <1>1, <1>3, <2>1, <2>2 DEF PlanOK, NoPlan, cards
<1>10. EffOK(t)'
  <2>1. (NoneTaken(t) => NoneTaken(t)') /\ (AllApplied(t) => AllApplied(t)')
    BY <1>1 DEF NoneTaken, AllApplied
  <2> QED
    BY <1>3, <1>6, <1>7, <1>8, <2>1 DEF EffOK
<1>11. PubOK(t)'
  BY <1>3 DEF PubOK
<1>12. RestOK(t)'
  <2>1. ASSUME NEW c \in Cards, NEW n \in files[c], n.txn = t PROVE n \in ever[c]
    <3>1. n \in ever[c] \/ (c \in Members[t] /\ n = Name(t, c))
      BY <1>0, <2>1 DEF TxnOK, RestOK
    <3>2. CASE c \in Members[t] /\ n = Name(t, c)
      <4>1. marker[t].state = "published" /\ Was(t, c)
        BY <1>2, <1>6, <2>1, <3>2
      <4>2. PICK m \in ever[c] : m.txn = t
        BY <4>1 DEF Was
      <4>3. m = Name(t, c)
        <5>1. PlanOK(t) /\ marker[t].state # "none"
          BY <1>0, <4>1 DEF TxnOK
        <5> QED
          BY <1>0, <2>1, <4>2, <5>1, WasName
      <4> QED
        BY <3>2, <4>3
    <3> QED
      BY <3>1, <3>2
  <2>2. \A c \in Cards : slot[c].txn # t
    BY <1>0, <1>2 DEF TxnOK, RestOK
  <2>3. \A c \in Cards : \A n \in fenced[c] : n.txn # t
    BY <1>0, <1>2 DEF TxnOK, RestOK, Unfenced
  <2> QED
    BY <1>1, <2>1, <2>2, <2>3 DEF RestOK, disk, cards
<1>13. StepOK(t)'
  BY <1>4 DEF StepOK, StepAt
<1>14. said \in [Txns -> Answers] /\ SaidOK(t)
  BY <1>0 DEF RestTypes, TxnOK
<1>15. /\ marker[t].state = "published" => said'[t] = "published"
       /\ marker[t].state # "published" /\ said[t] = "none" => said'[t] = "none"
       /\ \A u \in Txns \ {t} : said'[u] = said[u]
  BY <1>1, <1>14 DEF Told
<1>16. said' \in [Txns -> Answers]
  BY <1>1, <1>14 DEF Told, Answers
<1>17. SaidOK(t)'
  <2>1. CASE marker[t].state = "published"
    BY <1>6, <1>7, <1>8, <1>15, <2>1 DEF SaidOK
  <2>2. CASE marker[t].state # "published"
    <3>1. said[t] # "published"
      BY <1>0, <1>6, <1>8, <1>14, <2>2 DEF SaidOK
    <3>2. said[t] = "none"
      BY <1>14, <3>1 DEF SaidOK, Answers
    <3> QED
      BY <1>15, <2>2, <3>2 DEF SaidOK
  <2> QED
    BY <2>1, <2>2
<1>18. UndoOK(t)'
  BY <1>3, <1>5 DEF UndoOK
<1>19. TxnOK(t)'
  BY <1>9, <1>10, <1>11, <1>12, <1>13, <1>17, <1>18 DEF TxnOK
<1>20. RestTypes'
  BY <1>0, <1>1, <1>5, <1>16 DEF RestTypes, disk
<1>21. AllApplied(t) => AllApplied(t)'
  BY <1>1 DEF AllApplied
<1>22. \A u \in Txns \ {t} : /\ MarkerKept(u) /\ plan'[u] = plan[u] /\ eff'[u] = eff[u] /\ pc'[u] = pc[u]
                             /\ todo'[u] = todo[u] /\ said'[u] = said[u] /\ undo'[u] \in {undo[u], "idle"}
                             /\ FilesKept(u) /\ FencedKept(u) /\ SlotKept(u)
  BY <1>1, <1>3, <1>4, <1>5, <1>15, DiskUnmoved DEF MarkerKept
<1> QED
  BY <1>1, <1>19, <1>20, <1>21, <1>22, ActorStep

\* A step that changes an answer or a compensation's step at most.
LEMMA AnswerStep ==
    ASSUME VersionInv, VersionInv', OutcomeInv, RestTypes', NEW t \in Txns,
           UNCHANGED <<cards, disk, marker, plan, eff, pc, todo, rd>>,
           \A u \in Txns \ {t} : said'[u] = said[u] /\ undo'[u] = undo[u],
           SaidOK(t)', UndoOK(t)'
    PROVE  OutcomeInv'
<1>0. Types /\ Types' /\ MarkOK(t) /\ CallOK(t) /\ TxnOK(t) /\ RestTypes
  BY DEF VersionInv, OutcomeInv, TxnInv, MarkInv, CallInv
<1>1. \A u \in Txns : FilesKept(u) /\ FencedKept(u) /\ SlotKept(u)
  BY DiskUnmoved
<1>2. BaseKept(t) /\ MarkerKept(t) /\ EverKept(t) /\ PointerKept(t)
  BY Unmoved DEF BaseKept, MarkerKept
<1>3. PlanOK(t)' /\ EffOK(t)' /\ PubOK(t)'
  BY <1>0, <1>1, <1>2, PlanKept, EffKept, PubKept DEF TxnOK
<1>4. RestOK(t)' /\ StepOK(t)'
  BY <1>0, <1>1, <1>2, RestKept, StepKept DEF TxnOK
<1>5. TxnOK(t)'
  BY <1>3, <1>4 DEF TxnOK
<1>6. AllApplied(t) => AllApplied(t)'
  BY DEF AllApplied
<1>7. \A u \in Txns \ {t} : /\ MarkerKept(u) /\ plan'[u] = plan[u] /\ eff'[u] = eff[u] /\ pc'[u] = pc[u]
                            /\ todo'[u] = todo[u] /\ said'[u] = said[u] /\ undo'[u] \in {undo[u], "idle"}
                            /\ FilesKept(u) /\ FencedKept(u) /\ SlotKept(u)
  BY <1>1 DEF MarkerKept
<1> QED
  BY <1>5, <1>6, <1>7, ActorStep

\* ROLLBACK without a marker: the version files there are tell whether the transaction was published.
LEMMA UnknownStep == ASSUME VersionInv, VersionInv', OutcomeInv, NEW t \in Txns, RollbackUnknown(t) PROVE OutcomeInv'
<1> DEFINE there == plan[t] # NoPlan /\ \A c \in Members[t] : [txn |-> t, ver |-> plan[t][c] + 1] \in files[c]
<1>0. Types /\ CardInv /\ TxnOK(t) /\ RestTypes
  BY DEF VersionInv, OutcomeInv, TxnInv
<1>1. /\ Told(t, there) /\ UNCHANGED <<cards, disk, marker, plan, eff, pc, todo, undo, rd>> /\ marker[t].state = "none"
  BY DEF RollbackUnknown
<1>2. ASSUME there, NEW c \in Members[t] PROVE Was(t, c)
  <2>1. PICK n \in files[c] : n = [txn |-> t, ver |-> plan[t][c] + 1]
    BY <1>2
  <2>2. n.txn = t
    BY <2>1
  <2>3. n \in ever[c]
    BY <1>0, <1>1, <2>1, <2>2, MemberIsCard DEF TxnOK, RestOK
  <2> QED
    BY <2>2, <2>3 DEF Was
<1>3. ASSUME \A c \in Members[t] : Was(t, c) PROVE there
  <2>1. ASSUME NEW c \in Members[t] PROVE plan[t] # NoPlan /\ [txn |-> t, ver |-> plan[t][c] + 1] \in files[c]
    <3>1. PICK n \in ever[c] : n.txn = t
      BY <1>3, <2>1 DEF Was
    <3>2. c \in Cards /\ n \in Versions /\ n \in files[c]
      BY <1>0, <3>1, MemberIsCard DEF Types, CardInv
    <3>3. plan[t] # NoPlan /\ n.ver = plan[t][c] + 1
      BY <1>0, <3>1, <3>2 DEF TxnOK, PlanOK
    <3>4. n = [txn |-> t, ver |-> plan[t][c] + 1]
      BY <3>1, <3>2, <3>3, SMT DEF Versions
    <3> QED
      BY <3>2, <3>3, <3>4
  <2>2. Members[t] # {}
    BY MembersAreCards
  <2> QED
    BY <2>1, <2>2
<1> HIDE DEF there
<1>4. said \in [Txns -> Answers] /\ SaidOK(t)
  BY <1>0 DEF RestTypes, TxnOK
<1>5. /\ there => said'[t] = "published"
      /\ ~there /\ said[t] = "none" => said'[t] = "none"
      /\ \A u \in Txns \ {t} : said'[u] = said[u]
  BY <1>1, <1>4 DEF Told
<1>6. said' \in [Txns -> Answers]
  BY <1>1, <1>4 DEF Told, Answers
<1>7. RestTypes'
  BY <1>0, <1>1, <1>6 DEF RestTypes, disk
<1>8. Grows
  BY <1>1, Unmoved
<1>9. SaidOK(t)'
  <2>1. CASE there
    BY <1>2, <1>5, <1>8, <2>1, WasGrows, MemberIsCard DEF SaidOK
  <2>2. CASE ~there
    <3>1. said[t] = "none"
      BY <1>3, <1>4, <2>2 DEF SaidOK, Answers
    <3> QED
      BY <1>5, <2>2, <3>1 DEF SaidOK
  <2> QED
    BY <2>1, <2>2
<1>10. UndoOK(t)'
  BY <1>0, <1>1, <1>8, UndoKept DEF TxnOK, BaseKept
<1> QED
  BY <1>1, <1>5, <1>7, <1>9, <1>10, AnswerStep

\* card_version_compensation_plan: what the pointers name was current.
LEMMA CompensateStep == ASSUME VersionInv, VersionInv', OutcomeInv, NEW x \in Txns, Compensate(x) PROVE OutcomeInv'
<1> DEFINE t == Undoes[x]
<1>0. Types /\ CardInv /\ TxnOK(x) /\ RestTypes
  BY DEF VersionInv, OutcomeInv, TxnInv
<1>1. /\ t # NoTxn
      /\ \A c \in Members[t] : current[c] = [txn |-> t, ver |-> plan[t][c] + 1] \/ current[c].txn = x
      /\ undo' = [undo EXCEPT ![x] = IF marker[x].state = "none" THEN "stage" ELSE "publish"]
      /\ UNCHANGED <<cards, disk, marker, plan, eff, pc, todo, said, rd>>
  BY DEF Compensate
<1>2. t \in Txns /\ Members[x] = Members[t]
  BY <1>1, VersionAssumption
<1>3. /\ undo' \in [Txns -> {"idle", "stage", "publish"}] /\ \A u \in Txns \ {x} : undo'[u] = undo[u]
  <2>1. undo \in [Txns -> {"idle", "stage", "publish"}]
    BY <1>0 DEF RestTypes
  <2> QED
    BY <1>1, <2>1
<1>4. RestTypes'
  BY <1>0, <1>1, <1>3 DEF RestTypes, disk
<1>5. Grows
  BY <1>1, Unmoved
<1> HIDE DEF t
<1>6. ASSUME NEW c \in Members[x] PROVE Was(t, c) \/ Was(x, c)
  <2>1. \A v : [txn |-> t, ver |-> v].txn = t
    OBVIOUS
  <2>2. c \in Cards /\ (current[c].txn = t \/ current[c].txn = x)
    BY <1>1, <1>2, <2>1, MemberIsCard
  <2> QED
    BY <1>0, <1>2, <2>2, CurrentWas
<1>7. \A c \in Members[x] : Was(t, c)' \/ Was(x, c)'
  BY <1>5, <1>6, WasGrows, MemberIsCard
<1>8. UndoOK(x)'
  BY <1>0, <1>1, <1>7 DEF TxnOK, UndoOK, t
<1>9. SaidOK(x)'
  BY <1>0, <1>1, <1>5, SaidKept DEF TxnOK
<1> QED
  BY <1>1, <1>3, <1>4, <1>8, <1>9, AnswerStep

\* A pointer that moves to the next number keeps numbers apart and what the reader holds.
LEMMA NextNumber ==
    ASSUME VersionInv, OutcomeInv, NEW c \in Cards, NEW n \in Versions, n.ver = current[c].ver + 1,
           ever' = [ever EXCEPT ![c] = @ \cup {n}], UNCHANGED <<eff, rd>>
    PROVE  Grows /\ NumberInv' /\ ReadInv'
<1>0. Types /\ CardInv /\ NumberInv /\ ReadInv
  BY DEF VersionInv, OutcomeInv
<1>1. ever'[c] = ever[c] \cup {n} /\ \A d \in Cards \ {c} : ever'[d] = ever[d]
  BY <1>0 DEF Types
<1>2. Grows
  BY <1>1 DEF Grows
<1>3. \A m \in ever[c] : m.ver # n.ver
  <2>1. ASSUME NEW m \in ever[c] PROVE m.ver \in Nat /\ current[c].ver \in Nat /\ m.ver <= current[c].ver
    <3>1. m \in Versions /\ current[c] \in Versions /\ m.ver <= current[c].ver
      BY <1>0 DEF Types, CardInv
    <3> QED
      BY <3>1 DEF Versions
  <2> QED
    BY <2>1, SMT
<1>4. ASSUME NEW d \in Cards, NEW m \in ever'[d], NEW k \in ever'[d], m.ver = k.ver PROVE m = k
  <2>1. CASE d # c
    BY <1>0, <1>1, <1>4, <2>1 DEF NumberInv
  <2>2. CASE d = c
    <3>1. m \in ever[c] \cup {n} /\ k \in ever[c] \cup {n}
      BY <1>1, <1>4, <2>2
    <3>2. CASE m = n
      BY <1>3, <1>4, <3>1, <3>2
    <3>3. CASE k = n
      BY <1>3, <1>4, <3>1, <3>3
    <3>4. CASE m \in ever[c] /\ k \in ever[c]
      BY <1>0, <1>4, <3>4 DEF NumberInv
    <3> QED
      BY <3>1, <3>2, <3>3, <3>4
  <2> QED
    BY <2>1, <2>2
<1>5. NumberInv'
  BY <1>4 DEF NumberInv
<1>6. ReadInv'
  <2>1. rd.at # "idle" => rd.card \in Cards /\ rd.name \in ever'[rd.card] /\ rd.name.txn \in Txns
    BY <1>0, <1>2 DEF ReadInv, Grows
  <2>2. rd.at \in {"again", "serve"} => AllApplied(rd.name.txn)'
    BY <1>0 DEF ReadInv, AllApplied
  <2>3. rd' = rd /\ rd \in Readers
    BY <1>0 DEF ReadInv
  <2> QED
    BY <2>1, <2>2, <2>3 DEF ReadInv, Readers
<1> QED
  BY <1>2, <1>5, <1>6

\* A writer that is no transaction here.
LEMMA WriteStep == ASSUME VersionInv, VersionInv', OutcomeInv, NEW c \in Cards, LocalWrite(c) PROVE OutcomeInv'
<1>0. Types /\ Types' /\ CardInv /\ MarkInv /\ CallInv /\ RestTypes /\ TxnInv
  BY DEF VersionInv, OutcomeInv
<1>1. PICK n : /\ n = [txn |-> NoTxn, ver |-> current[c].ver + 1] /\ current' = [current EXCEPT ![c] = n]
               /\ ever' = [ever EXCEPT ![c] = @ \cup {n}] /\ files' = [files EXCEPT ![c] = @ \cup {n}]
               /\ UNCHANGED <<fenced, slot, marker, plan, eff, pc, todo, undo, said, rd>>
               /\ ~Held(c) /\ slot[c] = NoSlot /\ Settled(c)
  BY DEF LocalWrite
<1>2. n.txn = NoTxn /\ n.ver = current[c].ver + 1
  BY <1>1
<1>3. n \in Versions
  <2>1. current[c] \in Versions
    BY <1>0 DEF Types
  <2>2. current[c].ver + 1 \in Nat
    BY <2>1, SMT DEF Versions
  <2> QED
    BY <1>1, <2>2 DEF Versions
<1>4. Grows /\ NumberInv' /\ ReadInv'
  BY <1>1, <1>2, <1>3, NextNumber
<1>5. /\ current'[c] = n /\ ever'[c] = ever[c] \cup {n} /\ files'[c] = files[c] \cup {n}
      /\ \A d \in Cards \ {c} : current'[d] = current[d] /\ ever'[d] = ever[d] /\ files'[d] = files[d]
  BY <1>0, <1>1 DEF Types
<1>6. RestTypes'
  BY <1>0, <1>1 DEF RestTypes
<1>7. ASSUME NEW u \in Txns PROVE TxnOK(u)'
  <2>1. NoSlot.txn = NoTxn
    BY DEF NoSlot
  <2>2. u # NoTxn /\ slot[c].txn # u
    BY <1>1, <2>1, VersionAssumption
  <2>3. EverKept(u) /\ FilesKept(u)
    BY <1>2, <1>5, <2>2 DEF EverKept, FilesKept
  <2>4. FencedKept(u) /\ SlotKept(u) /\ MarkerKept(u)
    BY <1>1 DEF FencedKept, SlotKept, MarkerKept
  <2>5. pc[u] # "idle" => c \notin Locks(u)
    BY <1>1 DEF Held
  <2>6. PointerKept(u)
    BY <1>1, <1>2, <1>5, <2>2, <2>5 DEF PointerKept
  <2>7. Apart(u)
    BY <1>1, <2>3, <2>4, <2>6 DEF Apart
  <2>8. MarkOK(u) /\ CallOK(u) /\ TxnOK(u)
    BY <1>0 DEF MarkInv, CallInv, TxnInv
  <2> QED
    BY <1>0, <1>4, <1>6, <2>7, <2>8, ApartKept
<1> QED
  BY <1>4, <1>6, <1>7 DEF OutcomeInv, TxnInv

\* advance_current.
LEMMA AdvancesStep == ASSUME VersionInv, VersionInv', OutcomeInv, NEW t \in Txns, Advance(t) PROVE OutcomeInv'
<1>0. /\ Types /\ Types' /\ CardInv /\ LockInv /\ MarkInv /\ CallInv /\ RestTypes /\ TxnInv
      /\ MarkOK(t) /\ CallOK(t) /\ TxnOK(t)
  BY DEF VersionInv, OutcomeInv, MarkInv, CallInv, TxnInv
<1>1. pc[t] = "advance" /\ todo[t] # {} /\ todo[t] \subseteq Members[t]
  BY <1>0 DEF Advance, CallOK, CallAt
<1>2. PICK c \in Cards : c = First(t) /\ c \in Members[t] /\ c \in todo[t] /\ t # NoTxn
  BY <1>0, <1>1, FirstLeft, MemberIsCard
<1>3. PICK n : n = Name(t, c)
  OBVIOUS
<1>4. /\ current' = [current EXCEPT ![c] = n] /\ ever' = [ever EXCEPT ![c] = @ \cup {n}] /\ Settled(c)
      /\ Go(t, "advance", todo[t] \ {c}) /\ UNCHANGED <<disk, marker, plan, eff, undo, said, rd>>
  BY <1>2, <1>3 DEF Advance
<1>5. /\ marker[t].state = "staged"
      /\ \A d \in todo[t] : current[d] = marker[t].base[d] /\ slot[d] = Mine(t, d)
      /\ \A d \in Members[t] \ todo[t] : Own(t, d)
  BY <1>0, <1>1 DEF TxnOK, StepOK, StepAt
<1>6. n \in Versions /\ n.txn = t /\ n.ver = current[c].ver + 1
  <2>1. n \in Versions
    BY <1>0, <1>2, <1>3, <1>5, NameIsVersion
  <2>2. n.txn = t /\ n.ver = marker[t].base[c].ver + 1
    BY <1>3, NameFields
  <2> QED
    BY <1>2, <1>5, <2>1, <2>2
<1>7. Grows /\ NumberInv' /\ ReadInv'
  BY <1>4, <1>6, NextNumber
<1>8. /\ current'[c] = n /\ ever'[c] = ever[c] \cup {n}
      /\ \A d \in Cards \ {c} : current'[d] = current[d] /\ ever'[d] = ever[d]
  BY <1>0, <1>4 DEF Types
<1>9. RestTypes'
  BY <1>0, <1>4 DEF RestTypes, disk
<1>10. PICK left \in SUBSET Cards : left = todo[t] \ {c}
  BY <1>0 DEF Types
<1>11. pc'[t] = "advance" /\ todo'[t] = left /\ \A u \in Txns \ {t} : pc'[u] = pc[u] /\ todo'[u] = todo[u]
  <2>1. "advance" \in Steps
    BY DEF Steps
  <2> QED
    BY <1>0, <1>4, <1>10, <2>1, GoEffect
<1>12. ASSUME NEW u \in Txns, u # t PROVE TxnOK(u)'
  <2>1. slot[c].txn # u
    BY <1>2, <1>5, <1>12, MineFields
  <2>2. EverKept(u)
    BY <1>6, <1>8, <1>12 DEF EverKept
  <2>3. FilesKept(u) /\ FencedKept(u) /\ SlotKept(u) /\ MarkerKept(u)
    BY <1>4, DiskUnmoved DEF MarkerKept
  <2>4. pc[u] # "idle" => c \notin Locks(u)
    <3>1. c \in Locks(t) /\ pc[t] # "idle"
      BY <1>1, <1>2 DEF Locks
    <3> QED
      BY <1>0, <1>12, <3>1 DEF LockInv
  <2>5. PointerKept(u)
    BY <1>4, <1>6, <1>8, <1>12, <2>1, <2>4 DEF PointerKept
  <2>6. Apart(u)
    BY <1>4, <1>11, <1>12, <2>2, <2>3, <2>5 DEF Apart
  <2>7. MarkOK(u) /\ CallOK(u) /\ TxnOK(u)
    BY <1>0, <1>12 DEF MarkInv, CallInv, TxnInv
  <2> QED
    BY <1>0, <1>7, <1>9, <2>6, <2>7, ApartKept
<1>13. marker'[t] = marker[t] /\ \A d \in Cards : Name(t, d)' = Name(t, d) /\ Mine(t, d)' = Mine(t, d)
  BY <1>4 DEF Name, Mine
<1>14. PlanOK(t)'
  <2>1. /\ plan[t] # NoPlan /\ plan[t] \in [Members[t] -> Nat] /\ \A d \in Members[t] : plan[t][d] = marker[t].base[d].ver
        /\ \A d \in Cards : \A m \in ever[d] : m.txn = t => d \in Members[t] /\ m.ver = plan[t][d] + 1
    BY <1>0, <1>5 DEF TxnOK, PlanOK
  <2>2. n.ver = plan[t][c] + 1
    BY <1>2, <1>5, <1>6, <2>1
  <2>3. \A d \in Cards : \A m \in ever'[d] : m.txn = t => d \in Members[t] /\ m.ver = plan'[t][d] + 1
    BY <1>2, <1>4, <1>8, <2>1, <2>2
  <2>4. /\ plan'[t] # NoPlan /\ plan'[t] \in [Members[t] -> Nat]
        /\ \A d \in Members[t] : plan'[t][d] = marker'[t].base[d].ver
    BY <1>4, <2>1
  <2> QED
    BY <2>3, <2>4 DEF PlanOK, NoPlan
<1>15. EffOK(t)'
  BY <1>0, <1>4, <1>5 DEF TxnOK, EffOK
<1>16. \A d \in left : current'[d] = marker'[t].base[d] /\ slot'[d] = Mine(t, d)'
  BY <1>4, <1>5, <1>8, <1>10, <1>13 DEF disk
<1>17. \A d \in Members[t] \ left : Own(t, d)'
  <2>1. ASSUME NEW d \in Members[t] \ left PROVE current'[d] = Name(t, d) /\ d \in Cards
    <3>1. CASE d = c
      BY <1>3, <1>8, <3>1
    <3>2. CASE d # c
      BY <1>5, <1>8, <1>10, <3>2, MemberIsCard DEF Own
    <3> QED
      BY <3>1, <3>2
  <2> QED
    BY <1>13, <2>1 DEF Own
<1>18. PubOK(t)'
  BY <1>5, <1>13, <1>16, <1>17 DEF PubOK
<1>19. RestOK(t)'
  <2>1. \A d \in Cards : ever[d] \subseteq ever'[d]
    BY <1>7 DEF Grows
  <2> QED
    BY <1>0, <1>4, <1>13, <2>1 DEF TxnOK, RestOK, disk
<1>20. StepOK(t)'
  BY <1>5, <1>11, <1>13, <1>16, <1>17 DEF StepOK, StepAt
<1>21. SaidOK(t)' /\ UndoOK(t)'
  BY <1>0, <1>4, <1>7, SaidKept, UndoKept DEF TxnOK, BaseKept
<1>22. TxnOK(t)'
  BY <1>14, <1>15, <1>18, <1>19, <1>20, <1>21 DEF TxnOK
<1> QED
  BY <1>7, <1>9, <1>12, <1>22 DEF OutcomeInv, TxnInv

\* A step of the reader.
LEMMA ReaderMoves ==
    ASSUME VersionInv, VersionInv', OutcomeInv, UNCHANGED <<cards, disk, marker, plan, eff, pc, todo, undo, said>>, ReadInv'
    PROVE  OutcomeInv'
<1>0. Types /\ Types' /\ MarkInv /\ CallInv /\ RestTypes /\ NumberInv /\ TxnInv
  BY DEF VersionInv, OutcomeInv
<1>1. RestTypes'
  BY <1>0 DEF RestTypes, disk
<1>2. NumberInv'
  BY <1>0 DEF NumberInv, cards
<1>3. ASSUME NEW u \in Txns PROVE TxnOK(u)'
  <2>1. EverKept(u) /\ PointerKept(u) /\ Grows /\ FilesKept(u) /\ FencedKept(u) /\ SlotKept(u)
    BY Unmoved, DiskUnmoved
  <2>2. Apart(u)
    BY <2>1 DEF Apart, MarkerKept
  <2>3. MarkOK(u) /\ CallOK(u) /\ TxnOK(u)
    BY <1>0, <1>3 DEF MarkInv, CallInv, TxnInv
  <2> QED
    BY <1>0, <1>1, <1>3, <2>1, <2>2, <2>3, ApartKept
<1> QED
  BY <1>1, <1>2, <1>3 DEF OutcomeInv, TxnInv

\* A version that was current and whose marker is gone, or counts every effect, has its effects applied.
LEMMA CommittedIsApplied ==
    ASSUME Types, NEW t \in Txns, EffOK(t), NEW c \in Cards, Was(t, c), Committed(t)
    PROVE  AllApplied(t)
<1>1. CASE marker[t].state = "none"
  BY <1>1 DEF EffOK
<1>2. CASE marker[t].state = "published"
  <2>1. marker[t].done = Effects[t]
    BY <1>2 DEF Committed, EffectsComplete
  <2> QED
    BY <1>2, <2>1 DEF EffOK, AllApplied
<1>3. CASE marker[t].state = "staged"
  <2>1. Effects[t] = 0
    BY <1>3 DEF Committed, EffectsComplete, EffOK
  <2>2. \A i \in 1..Effects[t] : FALSE
    BY <2>1, SMT
  <2> QED
    BY <2>2 DEF AllApplied
<1> QED
  BY <1>1, <1>2, <1>3 DEF Committed

\* read_current_authority.
LEMMA ReaderSteps ==
    ASSUME VersionInv, VersionInv', OutcomeInv, (\E c \in Cards : ReadPointer(c)) \/ ReadFence \/ ReadAgain \/ Serve
    PROVE  OutcomeInv'
<1>0. Types /\ CardInv /\ TxnInv /\ ReadInv
  BY DEF VersionInv, OutcomeInv
<1>1. NoRead \in Readers /\ NoRead.at = "idle"
  BY DEF NoRead, Readers, Absent, Versions
<1>2. UNCHANGED <<cards, disk, marker, plan, eff, pc, todo, undo, said>>
  BY DEF ReadPointer, ReadFence, ReadAgain, Serve
<1>3. (\A c \in Cards : ever'[c] = ever[c]) /\ \A u : AllApplied(u)' <=> AllApplied(u)
  BY <1>2 DEF AllApplied, cards
<1>4. CASE rd' = NoRead
  <2>1. ReadInv'
    BY <1>1, <1>4 DEF ReadInv, Readers
  <2> QED
    BY <1>2, <2>1, ReaderMoves
<1>5. ASSUME NEW c \in Cards, ReadPointer(c) PROVE OutcomeInv'
  <2> DEFINE r == [at |-> "fence", card |-> c, name |-> current[c]]
  <2>1. current[c] \in Versions /\ current[c].txn # NoTxn /\ rd' = r
    BY <1>0, <1>5 DEF Types, ReadPointer
  <2>2. current[c].txn \in Txns
    BY <2>1 DEF Versions
  <2>3. current[c] \in ever[c]
    BY <1>0, <2>2, CurrentWas
  <2>4. r \in Readers /\ r.at = "fence" /\ r.card = c /\ r.name = current[c]
    BY <2>1 DEF Readers
  <2> HIDE DEF r
  <2>5. ReadInv'
    BY <1>3, <2>1, <2>2, <2>3, <2>4 DEF ReadInv, Readers
  <2> QED
    BY <1>2, <2>5, ReaderMoves
<1>6. ASSUME rd.at # "idle", NEW a \in {"again", "serve"}, rd' = [rd EXCEPT !.at = a], AllApplied(rd.name.txn)
      PROVE  OutcomeInv'
  <2>1. rd \in Readers /\ rd.card \in Cards /\ rd.name \in ever[rd.card] /\ rd.name.txn \in Txns
    BY <1>0, <1>6 DEF ReadInv
  <2>2. rd'.at = a /\ rd'.card = rd.card /\ rd'.name = rd.name
    BY <1>6, <2>1 DEF Readers
  <2>3. a \in {"idle", "fence", "again", "serve"}
    BY <1>6
  <2>4. rd' \in Readers /\ rd'.at = a /\ rd'.card = rd.card /\ rd'.name = rd.name
    BY <1>6, <2>1, <2>2, <2>3, SMT DEF Readers
  <2>5. AllApplied(rd.name.txn)'
    BY <1>2, <1>6, <2>4 DEF AllApplied
  <2>6. rd'.card \in Cards /\ rd'.name \in ever'[rd'.card] /\ rd'.name.txn \in Txns
    <3>1. rd.name \in ever'[rd.card]
      BY <1>2, <2>1 DEF cards
    <3> QED
      BY <2>1, <2>4, <3>1
  <2>7. ReadInv'
    BY <2>4, <2>5, <2>6 DEF ReadInv, Readers
  <2> QED
    BY <1>2, <2>7, ReaderMoves
<1>7. CASE ReadFence
  <2>1. rd.at = "fence"
    BY <1>7 DEF ReadFence
  <2>2. rd.card \in Cards /\ rd.name \in ever[rd.card] /\ rd.name.txn \in Txns
    BY <1>0, <2>1 DEF ReadInv
  <2>3. CASE Committed(rd.name.txn)
    <3>1. PICK a \in {"again", "serve"} : rd' = [rd EXCEPT !.at = a]
      BY <1>7, <2>3 DEF ReadFence
    <3>2. EffOK(rd.name.txn) /\ Was(rd.name.txn, rd.card)
      BY <1>0, <2>2 DEF TxnInv, TxnOK, Was
    <3>3. AllApplied(rd.name.txn)
      BY <1>0, <2>2, <2>3, <3>2, CommittedIsApplied
    <3> QED
      BY <1>6, <2>1, <3>1, <3>3
  <2>4. CASE ~Committed(rd.name.txn)
    BY <1>4, <1>7, <2>4 DEF ReadFence
  <2> QED
    BY <2>3, <2>4
<1>8. CASE ReadAgain
  <2>1. rd.at = "again"
    BY <1>8 DEF ReadAgain
  <2>2. AllApplied(rd.name.txn)
    BY <1>0, <2>1 DEF ReadInv
  <2>3. rd' = [rd EXCEPT !.at = "serve"] \/ rd' = NoRead
    BY <1>8 DEF ReadAgain
  <2> QED
    BY <1>4, <1>6, <2>1, <2>2, <2>3
<1>9. CASE Serve
  BY <1>4, <1>9 DEF Serve
<1> QED
  BY <1>5, <1>7, <1>8, <1>9

\* Init establishes the second invariant.
LEMMA InitOutcome == Init => OutcomeInv
<1> SUFFICES ASSUME Init PROVE OutcomeInv
  OBVIOUS
<1>1. \A c \in Cards : ever[c] = {current[c]} \ {Absent} /\ files[c] = ever[c] /\ fenced[c] = {} /\ slot[c] = NoSlot
  BY DEF Init
<1>2. \A c \in Cards : current[c].txn = NoTxn
  <2>1. \A c \in Cards : current[c] \in {Absent, [txn |-> NoTxn, ver |-> 1]}
    BY DEF Init
  <2>2. Absent.txn = NoTxn /\ [txn |-> NoTxn, ver |-> 1].txn = NoTxn
    BY DEF Absent
  <2> QED
    BY <2>1, <2>2
<1>3. NumberInv
  BY <1>1 DEF NumberInv
<1>4. RestTypes
  <2>1. fenced \in [Cards -> SUBSET Versions]
    BY DEF Init
  <2>2. NoSlot \in Slots
    BY DEF NoSlot, Slots, Absent, Versions
  <2>3. slot \in [Cards -> Slots]
    BY <2>2 DEF Init
  <2>4. plan \in [Txns -> {NoPlan} \cup UNION {[Members[t] -> Nat] : t \in Txns}]
    BY DEF Init
  <2>5. DOMAIN eff = Txns
    BY DEF Init
  <2>6. \A t \in Txns : eff[t] = [i \in 1..Effects[t] |-> "none"]
    BY DEF Init
  <2>7. \A t \in Txns : eff[t] \in [1..Effects[t] -> {"none", "prepared", "applied"}]
    BY <2>6
  <2>8. undo \in [Txns -> {"idle", "stage", "publish"}] /\ said \in [Txns -> Answers]
    BY DEF Init, Answers
  <2> QED
    BY <2>1, <2>3, <2>4, <2>5, <2>7, <2>8 DEF RestTypes
<1>5. ReadInv
  <2>1. rd = NoRead /\ NoRead \in Readers /\ NoRead.at = "idle"
    BY DEF Init, NoRead, Readers, Absent, Versions
  <2> QED
    BY <2>1 DEF ReadInv
<1>6. ASSUME NEW t \in Txns PROVE TxnOK(t)
  <2>1. t # NoTxn
    BY VersionAssumption
  <2>2. marker[t].state = "none" /\ pc[t] = "idle" /\ said[t] = "none" /\ undo[t] = "idle" /\ plan[t] = NoPlan
    BY DEF Init, NoMarker
  <2>3. \A c \in Cards : \A n \in ever[c] : n.txn # t
    BY <1>1, <1>2, <2>1
  <2>4. NoneTaken(t) /\ \A c \in Cards : ~Was(t, c)
    BY <2>3 DEF Init, NoneTaken, Was
  <2>5. PlanOK(t) /\ EffOK(t) /\ PubOK(t)
    BY <2>2, <2>3, <2>4 DEF PlanOK, EffOK, PubOK
  <2>6. RestOK(t)
    <3>1. NoSlot.txn = NoTxn
      BY DEF NoSlot
    <3> QED
      BY <1>1, <2>1, <2>3, <3>1 DEF RestOK
  <2>7. StepOK(t) /\ SaidOK(t) /\ UndoOK(t)
    BY <2>2 DEF StepOK, StepAt, SaidOK, UndoOK
  <2> QED
    BY <2>5, <2>6, <2>7 DEF TxnOK
<1> QED
  BY <1>3, <1>4, <1>5, <1>6 DEF OutcomeInv, TxnInv

\* The second invariant holds in every state that cut, repeated and concurrent calls reach.
THEOREM RestInductive == Spec => []OutcomeInv
<1>1. ASSUME VersionInv, VersionInv', OutcomeInv, Next PROVE OutcomeInv'
  <2>1. ASSUME NEW t \in Txns, TxnStep(t) PROVE OutcomeInv'
    <3>1. CASE StageAgain(t) \/ StagedAnswer(t) \/ FinishPublished(t) \/ Rollback(t) \/ Stop(t)
      BY <1>1, <3>1, MoveSteps
    <3>2. CASE Reserve(t) \/ Publish(t) \/ FreeBase(t)
      BY <1>1, <3>2, ReserveStep, PublishStep, FreeStep
    <3>3. CASE WriteSidecar(t) \/ WriteRevision(t) \/ Unfence(t) \/ DeleteRevision(t) \/ DeleteSidecar(t)
      BY <1>1, <3>3, SidecarStep, RevisionStep, UnfenceStep, DeleteStep, DeleteSidecarStep
    <3>4. CASE ApplyEffect(t) \/ RecordEffect(t) \/ \E i \in 1..Effects[t] : Prepare(t, i) \/ ReleaseEffect(t, i)
      BY <1>1, <3>4, ApplyStep, RecordStep, PrepareStep
    <3>5. CASE MarkStaged(t) \/ MarkPublished(t) \/ Retire(t) \/ \E c \in Cards : Finalize(t, c)
      BY <1>1, <3>5, MarkStagedStep, MarkPublishedStep, RetireStep, FinalStep
    <3>6. CASE StageFresh(t) \/ Forget(t) \/ RollbackUnknown(t) \/ Compensate(t) \/ Advance(t)
      BY <1>1, <3>6, FreshStep, ForgetsStep, UnknownStep, CompensateStep, AdvancesStep
    <3> QED
      BY <2>1, <3>1, <3>2, <3>3, <3>4, <3>5, <3>6 DEF TxnStep
  <2>2. ASSUME NEW c \in Cards, LocalWrite(c) PROVE OutcomeInv'
    BY <1>1, <2>2, WriteStep
  <2>3. CASE (\E c \in Cards : ReadPointer(c)) \/ ReadFence \/ ReadAgain \/ Serve
    BY <1>1, <2>3, ReaderSteps
  <2> QED
    BY <1>1, <2>1, <2>2, <2>3 DEF Next
<1>2. ASSUME VersionInv, VersionInv', OutcomeInv, UNCHANGED vars PROVE OutcomeInv'
  <2>1. UNCHANGED <<cards, disk, marker, plan, eff, pc, todo, undo, said, rd>>
    BY <1>2 DEF vars, cards, disk
  <2>2. ReadInv'
    BY <1>2, <2>1 DEF OutcomeInv, ReadInv, AllApplied, cards, Readers
  <2> QED
    BY <1>2, <2>1, <2>2, ReaderMoves
<1> QED
  BY <1>1, <1>2, InitOutcome, VersionsInductive, PTL DEF Spec

\* A publication of which one pointer has moved keeps its other members at their bases until it has moved them too, and
\* all of them until every effect is recorded (card_version_publish, card_version_reservation).
THEOREM StartedCompletes == Spec => []StartedPublicationCompletes
<1>1. OutcomeInv => StartedPublicationCompletes
  BY DEF OutcomeInv, TxnInv, TxnOK, PubOK, StartedPublicationCompletes, Own
<1> QED
  BY <1>1, RestInductive, PTL

\* A reader without a lock serves only versions whose effects are all applied, whatever was staged, published,
\* rolled back or forgotten between its looks (assert_current_version_readable).
THEOREM ServedFinal == Spec => []ServedIsFinal
<1>1. OutcomeInv => ServedIsFinal
  BY DEF OutcomeInv, ReadInv, AllApplied, ServedIsFinal
<1> QED
  BY <1>1, RestInductive, PTL

\* However often its calls were cut and repeated, a transaction whose marker is gone has left no reservation, no
\* sidecar and no file that was not current, and all of its effects or none (_finish_published, _release_and_forget).
THEOREM NothingLeft == Spec => []NothingRemains
<1>1. OutcomeInv => NothingRemains
  <2> SUFFICES ASSUME OutcomeInv, NEW t \in Txns, marker[t].state = "none"
               PROVE  /\ \A c \in Cards : slot[c].txn # t /\ \A n \in fenced[c] : n.txn # t
                      /\ \A c \in Cards : \A n \in files[c] : n.txn = t => n \in ever[c]
                      /\ \/ \A i \in 1..Effects[t] : eff[t][i] = "none"
                         \/ \A i \in 1..Effects[t] : eff[t][i] = "applied"
    BY DEF NothingRemains
  <2>1. RestOK(t) /\ EffOK(t)
    BY DEF OutcomeInv, TxnInv, TxnOK
  <2>2. /\ \A c \in Cards : slot[c].txn # t /\ \A n \in fenced[c] : n.txn # t
        /\ \A c \in Cards : \A n \in files[c] : n.txn = t => n \in ever[c]
    BY <2>1 DEF RestOK
  <2> QED
    BY <2>1, <2>2 DEF EffOK, NoneTaken, AllApplied
<1> QED
  BY <1>1, RestInductive, PTL

\* No ROLLBACK contradicts an earlier answer that the transaction is published (card_version_rollback).
THEOREM PublishedFinal == Spec => []PublishedIsFinal
<1>1. OutcomeInv => PublishedIsFinal
  BY DEF OutcomeInv, TxnInv, TxnOK, SaidOK, PublishedIsFinal
<1> QED
  BY <1>1, RestInductive, PTL

\* A compensation moves a pointer only from the version it undoes, also when other writers came between its plan
\* and its STAGE (compensate_card_version).
THEOREM CompensatesOnly == Spec => CompensatesExactly
<1> DEFINE A == \A c \in Cards : LET x == current'[c].txn
                                 IN  current'[c] # current[c] /\ x # NoTxn /\ Undoes[x] # NoTxn => current[c].txn = Undoes[x]
<1>1. ASSUME VersionInv, OutcomeInv, Next PROVE A
  <2>1. ASSUME UNCHANGED cards PROVE A
    BY <2>1 DEF cards
  <2>2. ASSUME NEW t \in Txns, Advance(t) PROVE A
    <3>0. Types /\ CallOK(t) /\ TxnOK(t)
      BY <1>1 DEF VersionInv, CallInv, OutcomeInv, TxnInv
    <3>1. pc[t] = "advance" /\ todo[t] # {} /\ todo[t] \subseteq Members[t]
      BY <2>2, <3>0 DEF Advance, CallOK, CallAt
    <3>2. PICK c \in Cards : c = First(t) /\ c \in Members[t] /\ c \in todo[t]
      BY <3>0, <3>1, FirstLeft, MemberIsCard
    <3>3. current' = [current EXCEPT ![c] = Name(t, c)] /\ Name(t, c).txn = t
      BY <2>2, <3>2, NameFields DEF Advance
    <3>4. current'[c].txn = t /\ \A d \in Cards \ {c} : current'[d] = current[d]
      BY <3>0, <3>3 DEF Types
    <3>5. marker[t].state = "staged" /\ current[c] = marker[t].base[c]
      BY <3>0, <3>1, <3>2 DEF TxnOK, StepOK, StepAt
    <3>6. Undoes[t] # NoTxn => marker[t].base[c].txn = Undoes[t]
      BY <3>0, <3>2, <3>5 DEF TxnOK, UndoOK
    <3> QED
      BY <3>4, <3>5, <3>6
  <2>3. ASSUME NEW c \in Cards, LocalWrite(c) PROVE A
    <3>1. PICK n : n = [txn |-> NoTxn, ver |-> current[c].ver + 1] /\ current' = [current EXCEPT ![c] = n]
      BY <2>3 DEF LocalWrite
    <3>2. n.txn = NoTxn
      BY <3>1
    <3>3. current \in [Cards -> Versions]
      BY <1>1 DEF VersionInv, Types
    <3>4. current'[c] = n /\ \A d \in Cards \ {c} : current'[d] = current[d]
      BY <3>1, <3>3
    <3> QED
      BY <3>2, <3>4
  <2> HIDE DEF A
  <2>4. ASSUME NEW t \in Txns, TxnStep(t) PROVE A
    <3>1. CASE StageFresh(t) \/ StageAgain(t) \/ Reserve(t) \/ StagedAnswer(t) \/ WriteSidecar(t) \/ WriteRevision(t)
      BY <2>1, <3>1 DEF StageFresh, StageAgain, Reserve, StagedAnswer, WriteSidecar, WriteRevision
    <3>2. CASE MarkStaged(t) \/ Publish(t) \/ MarkPublished(t) \/ FinishPublished(t) \/ ApplyEffect(t) \/ RecordEffect(t)
      BY <2>1, <3>2 DEF MarkStaged, Publish, StartPublish, MarkPublished, FinishPublished, ApplyEffect, RecordEffect
    <3>3. CASE Unfence(t) \/ FreeBase(t) \/ Forget(t) \/ RollbackUnknown(t) \/ Rollback(t) \/ Retire(t)
      BY <2>1, <3>3 DEF Unfence, FreeBase, Forget, RollbackUnknown, Rollback, Retire
    <3>4. CASE DeleteRevision(t) \/ DeleteSidecar(t) \/ Compensate(t) \/ Stop(t)
      BY <2>1, <3>4 DEF DeleteRevision, DeleteSidecar, Compensate, Stop
    <3>5. CASE (\E i \in 1..Effects[t] : Prepare(t, i) \/ ReleaseEffect(t, i)) \/ \E c \in Cards : Finalize(t, c)
      BY <2>1, <3>5 DEF Prepare, ReleaseEffect, Finalize
    <3> QED
      BY <2>2, <2>4, <3>1, <3>2, <3>3, <3>4, <3>5 DEF TxnStep
  <2>5. CASE (\E c \in Cards : ReadPointer(c)) \/ ReadFence \/ ReadAgain \/ Serve
    BY <2>1, <2>5 DEF ReadPointer, ReadFence, ReadAgain, Serve
  <2> QED
    BY <1>1, <2>3, <2>4, <2>5 DEF Next
<1>2. VersionInv /\ OutcomeInv /\ [Next]_vars => [A]_vars
  BY <1>1
<1> HIDE DEF A
<1>3. Spec => [][A]_vars
  BY <1>2, VersionsInductive, RestInductive, PTL DEF Spec
<1> QED
  BY <1>3 DEF CompensatesExactly, A
==============================================================================
