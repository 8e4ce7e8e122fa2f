--------------------------- MODULE CardRowsProofs ---------------------------
(***************************************************************************)
(* The fenced rows keep a live lease holder's view, for any number of      *)
(* operations, keys, tokens and documents.                                 *)
(*                                                                         *)
(* The argument: a statement in flight was guarded while its operation     *)
(* owned the key, after its token was drawn.  Whoever owns the key now     *)
(* acquired it later and drew later, so its token is larger: a late claim  *)
(* keeps its fence, and a late write names a fence that is gone.           *)
(***************************************************************************)
EXTENDS CardRows, TLAPS

\* An operation is in a section exactly while it runs, and a pointer's claims
\* and writes run inside its Card's section.
SectionInv == \A o \in Ops :
    /\ at[o] = "out" => keys[o] = {} /\ read[o] = "never" /\ token[o] = 0 /\ claim[o] = 0
    /\ kind = "pointer" /\ at[o] \notin {"out", "in"} => RowKey \in keys[o]
    /\ kind = "pointer" /\ read[o] = "now" => RowKey \in keys[o]
    /\ at[o] \in {"guard", "row", "hintread", "hintguard", "hint"} => token[o] > 0
    /\ at[o] = "hintread" => obs[o].rev = 0

\* Tokens come from the sequence, and no two operations share one.
TokenInv ==
    /\ row.fence <= seq
    /\ \A o \in Ops : token[o] <= seq /\ claim[o] <= seq
    /\ \A o, p \in Ops : o # p =>
         /\ token[o] > 0 => token[o] # token[p] /\ token[o] # claim[p]
         /\ claim[o] > 0 => claim[o] # claim[p]

Owner(o) == kind = "pointer" /\ RowKey \in keys[o] /\ redis[RowKey] = o

\* What another operation still has in flight carries a smaller token than any the owner drew.
FenceInv == \A o \in Ops : Owner(o) =>
    /\ token[o] > 0 => row.fence <= token[o]
    /\ \A p \in Ops : p # o /\ at[p] = "row" =>
         /\ token[o] > 0 => token[p] < token[o]
         /\ read[o] = "now" /\ obs[o].rev > 0 => token[p] < claim[o]

KeepInv == \A o \in Ops : Owner(o) /\ read[o] = "now" /\ obs[o].rev > 0 =>
    /\ row.rev = obs[o].rev /\ row.inc = obs[o].inc
    /\ row.fence = claim[o] /\ claim[o] > 0

\* A revision of an incarnation names one document.
SeenInv ==
    /\ row.rev > 0 => row.inc > 0 /\ row.inc <= incs
    /\ \A o \in Ops : obs[o].rev > 0 =>
         /\ obs[o].inc > 0 /\ obs[o].inc <= incs
         /\ row.rev > 0 /\ row.inc = obs[o].inc => obs[o].rev <= row.rev
         /\ row.rev = obs[o].rev /\ row.inc = obs[o].inc => row.doc = seen[o]

\* What is adopted was written before the rows were turned on.
DeadInv ==
    /\ docs >= CUTOVER
    /\ dead # {} => kind = "marker"
    /\ \A d \in dead : d <= docs
    /\ kind = "marker" /\ row.rev > 0 => row.doc <= docs
    /\ kind = "marker" /\ hint.doc # NoDoc /\ hint.era = "files" => hint.doc = CUTOVER
    /\ kind = "marker" => \A o \in Ops : call[o] = "adopt" => doc[o] = CUTOVER
    /\ row.rev > 0 /\ row.doc \in dead => row.doc <= CUTOVER

RowsInv == TypeOK /\ SectionInv /\ TokenInv /\ FenceInv /\ KeepInv /\ SeenInv /\ DeadInv

\* Init establishes the invariant.
LEMMA InitRows == Init => RowsInv
BY RowsAssumption DEF Init, RowsInv, TypeOK, OpTypes, Tokens, SectionInv, TokenInv, Owner, FenceInv, KeepInv,
     SeenInv, DeadInv, NoRow, NoHint, Unseen, NoDoc, CUTOVER

\* Every step keeps the types.
LEMMA TypeStep == OpTypes /\ Next => OpTypes'
<1> SUFFICES ASSUME OpTypes, Next PROVE OpTypes'
  OBVIOUS
<1> USE RowsAssumption DEF OpTypes, Tokens, NoDoc, Unseen, NoRow
<1>0. kind' = kind
  BY DEF Next
<1>1. ASSUME NEW k \in Keys, Expire(k) PROVE OpTypes'
  BY <1>0, <1>1 DEF Expire, stored, context
<1>2. ASSUME NEW o \in Ops, NEW k \in Keys, Acquire(o, k) PROVE OpTypes'
  BY <1>0, <1>2 DEF Acquire, stored, NextKey
<1>3. ASSUME NEW o \in Ops, Exit(o) PROVE OpTypes'
  BY <1>0, <1>3 DEF Exit, Leave, Closed, Released, stored
<1>4. ASSUME NEW o \in Ops, ExitInner(o) PROVE OpTypes'
  BY <1>0, <1>4, Zenon DEF ExitInner, stored
<1>5. ASSUME NEW o \in Ops, Crash(o) PROVE OpTypes'
  BY <1>0, <1>5 DEF Crash, Closed, stored
<1>6. ASSUME NEW o \in Ops, StartRead(o) PROVE OpTypes'
  BY <1>0, <1>6 DEF StartRead, Draw, lease, stored, Holder
<1>7. ASSUME NEW o \in Ops, Peek(o) PROVE OpTypes'
  BY <1>0, <1>7 DEF Peek, lease, stored, Holder
<1>8. ASSUME NEW o \in Ops, StartWrite(o) PROVE OpTypes'
  BY <1>0, <1>8 DEF StartWrite, Draw, lease, stored, Holder
<1>9. ASSUME NEW o \in Ops, Guard(o) PROVE OpTypes'
  BY <1>0, <1>9 DEF Guard, Owns, lease, stored, context
<1>10. ASSUME NEW o \in Ops, GuardRefuses(o) PROVE OpTypes'
  BY <1>0, <1>10 DEF GuardRefuses, Leave, Closed, Released, stored
<1>11. ASSUME NEW o \in Ops, ReadRow(o) PROVE OpTypes'
  <2>1. row' \in [rev : Nat, inc : Nat, doc : Nat, fence : Tokens]
    BY <1>11, Zenon DEF ReadRow, Claimed
  <2>2. claim' \in [Ops -> Tokens]
    BY <1>11 DEF ReadRow
  <2>3. obs' \in [Ops -> [rev : Nat, inc : Nat]] /\ seen' \in [Ops -> Nat] /\ doc' \in [Ops -> Nat]
    BY <1>11 DEF ReadRow, Idle
  <2> QED
    BY <1>0, <1>11, <2>1, <2>2, <2>3 DEF ReadRow, Idle, lease
<1>12. ASSUME NEW o \in Ops, ReadNoRow(o) PROVE OpTypes'
  BY <1>0, <1>12 DEF ReadNoRow, Idle, lease, stored
<1>13. ASSUME NEW o \in Ops, ReadHint(o) PROVE OpTypes'
  <2>1. hint.doc \in Nat
    OBVIOUS
  <2>2. doc' \in [Ops -> Nat] /\ seen' \in [Ops -> Nat]
    BY <1>13, <2>1 DEF ReadHint, Idle
  <2>3. at' \in [Ops -> {"out", "in", "guard", "row", "hintread", "hintguard", "hint"}]
    <3>1. \E x \in {"in", "hintguard", "guard"} : at' = [at EXCEPT ![o] = x]
      BY ZenonT(30), <1>13 DEF ReadHint, Idle
    <3> QED
      BY <3>1
  <2>4. call' \in [Ops -> {"none", "read", "reread", "adopt", "write", "remove"}]
    BY <1>13 DEF ReadHint, Idle
  <2> QED
    BY <1>0, <1>13, <2>2, <2>3, <2>4 DEF ReadHint, lease, stored
<1>14. ASSUME NEW o \in Ops, AdoptRow(o) PROVE OpTypes'
  BY <1>0, <1>14 DEF AdoptRow, lease, context
<1>15. ASSUME NEW o \in Ops, AdoptionFails(o) PROVE OpTypes'
  BY <1>0, <1>15 DEF AdoptionFails, Leave, Closed, Released, stored
<1>16. ASSUME NEW o \in Ops, CreateRow(o) PROVE OpTypes'
  BY <1>0, <1>16 DEF CreateRow, Writing, Written, Wrote, lease
<1>17. ASSUME NEW o \in Ops, UpdateRow(o) PROVE OpTypes'
  <2>1. row.rev + 1 \in Nat /\ Written(o) \in Nat /\ docs' \in Nat
    BY <1>17 DEF UpdateRow, Matches, Writing, Written, Wrote, lease
  <2>2. row' \in [rev : Nat, inc : Nat, doc : Nat, fence : Tokens]
    BY <1>17, <2>1, Zenon DEF UpdateRow
  <2>3. obs' \in [Ops -> [rev : Nat, inc : Nat]]
    BY <1>17, <2>1 DEF UpdateRow
  <2>4. doc' \in [Ops -> Nat] /\ seen' \in [Ops -> Nat]
    BY <1>17, <2>1 DEF UpdateRow, Wrote
  <2> QED
    BY <1>0, <1>17, <2>1, <2>2, <2>3, <2>4 DEF UpdateRow, Wrote, lease
<1>18. ASSUME NEW o \in Ops, DeleteRow(o) PROVE OpTypes'
  <2>1. row' \in [rev : Nat, inc : Nat, doc : Nat, fence : Tokens]
    BY <1>18 DEF DeleteRow
  <2>2. dead' \subseteq Nat
    BY <1>18, Zenon DEF DeleteRow
  <2> QED
    BY <1>0, <1>18, <2>1, <2>2 DEF DeleteRow, Idle, lease
<1>19. ASSUME NEW o \in Ops, Moved(o) PROVE OpTypes'
  BY <1>0, <1>19 DEF Moved, Leave, Closed, Released, stored
<1>20. ASSUME NEW o \in Ops, WriteHint(o) PROVE OpTypes'
  BY <1>0, <1>20 DEF WriteHint, Idle, lease, context
<1> QED
  BY ZenonT(30), <1>1, <1>2, <1>3, <1>4, <1>5, <1>6, <1>7, <1>8, <1>9, <1>10, <1>11, <1>12, <1>13, <1>14,
     <1>15, <1>16, <1>17, <1>18, <1>19, <1>20 DEF Next, OpStep

\* Every step keeps what is said of sections.
LEMMA SectionStep == OpTypes /\ SectionInv /\ Next => SectionInv'
<1> SUFFICES ASSUME OpTypes, SectionInv, Next PROVE SectionInv'
  OBVIOUS
<1> USE RowsAssumption DEF OpTypes, Tokens, NoDoc, Unseen, NoRow, SectionInv
<1>0. kind' = kind
  BY DEF Next
<1>1. ASSUME NEW k \in Keys, Expire(k) PROVE SectionInv'
  BY <1>0, <1>1 DEF Expire, stored, context
<1>2. ASSUME NEW o \in Ops, NEW k \in Keys, Acquire(o, k) PROVE SectionInv'
  BY <1>0, <1>2 DEF Acquire, stored, NextKey
<1>3. ASSUME NEW o \in Ops, Exit(o) PROVE SectionInv'
  BY <1>0, <1>3 DEF Exit, Leave, Closed, Released, stored
<1>4. ASSUME NEW o \in Ops, ExitInner(o) PROVE SectionInv'
  BY <1>0, <1>4 DEF ExitInner, stored
<1>5. ASSUME NEW o \in Ops, Crash(o) PROVE SectionInv'
  BY <1>0, <1>5 DEF Crash, Closed, stored
<1>6. ASSUME NEW o \in Ops, StartRead(o) PROVE SectionInv'
  BY <1>0, <1>6 DEF StartRead, Draw, lease, stored, Holder
<1>7. ASSUME NEW o \in Ops, Peek(o) PROVE SectionInv'
  BY <1>0, <1>7 DEF Peek, lease, stored, Holder
<1>8. ASSUME NEW o \in Ops, StartWrite(o) PROVE SectionInv'
  BY <1>0, <1>8 DEF StartWrite, Draw, lease, stored, Holder
<1>9. ASSUME NEW o \in Ops, Guard(o) PROVE SectionInv'
  BY <1>0, <1>9 DEF Guard, Owns, lease, stored, context
<1>10. ASSUME NEW o \in Ops, GuardRefuses(o) PROVE SectionInv'
  BY <1>0, <1>10 DEF GuardRefuses, Leave, Closed, Released, stored
<1>11. ASSUME NEW o \in Ops, ReadRow(o) PROVE SectionInv'
  BY <1>0, <1>11 DEF ReadRow, Claimed, Idle, lease
<1>12. ASSUME NEW o \in Ops, ReadNoRow(o) PROVE SectionInv'
  BY <1>0, <1>12 DEF ReadNoRow, Idle, lease, stored
<1>13. ASSUME NEW o \in Ops, ReadHint(o) PROVE SectionInv'
  BY <1>0, <1>13 DEF ReadHint, Idle, lease, stored
<1>14. ASSUME NEW o \in Ops, AdoptRow(o) PROVE SectionInv'
  BY <1>0, <1>14 DEF AdoptRow, lease, context
<1>15. ASSUME NEW o \in Ops, AdoptionFails(o) PROVE SectionInv'
  BY <1>0, <1>15 DEF AdoptionFails, Leave, Closed, Released, stored
<1>16. ASSUME NEW o \in Ops, CreateRow(o) PROVE SectionInv'
  BY <1>0, <1>16 DEF CreateRow, Writing, Written, Wrote, lease
<1>17. ASSUME NEW o \in Ops, UpdateRow(o) PROVE SectionInv'
  BY <1>0, <1>17 DEF UpdateRow, Matches, Writing, Written, Wrote, lease
<1>18. ASSUME NEW o \in Ops, DeleteRow(o) PROVE SectionInv'
  BY <1>0, <1>18 DEF DeleteRow, Matches, Idle, lease
<1>19. ASSUME NEW o \in Ops, Moved(o) PROVE SectionInv'
  BY <1>0, <1>19 DEF Moved, Leave, Closed, Released, stored
<1>20. ASSUME NEW o \in Ops, WriteHint(o) PROVE SectionInv'
  BY <1>0, <1>20 DEF WriteHint, Idle, lease, context
<1> QED
  BY ZenonT(30), <1>1, <1>2, <1>3, <1>4, <1>5, <1>6, <1>7, <1>8, <1>9, <1>10, <1>11, <1>12, <1>13, <1>14,
     <1>15, <1>16, <1>17, <1>18, <1>19, <1>20 DEF Next, OpStep

\* Every step keeps the tokens apart.
LEMMA TokenStep == OpTypes /\ SectionInv /\ TokenInv /\ Next => TokenInv'
<1> SUFFICES ASSUME OpTypes, SectionInv, TokenInv, Next PROVE TokenInv'
  OBVIOUS
<1> USE RowsAssumption DEF OpTypes, Tokens, NoDoc, Unseen, NoRow, SectionInv, TokenInv
<1>0. kind' = kind
  BY DEF Next
<1>1. ASSUME NEW k \in Keys, Expire(k) PROVE TokenInv'
  BY <1>0, <1>1 DEF Expire, stored, context
<1>2. ASSUME NEW o \in Ops, NEW k \in Keys, Acquire(o, k) PROVE TokenInv'
  BY <1>0, <1>2 DEF Acquire, stored, NextKey
<1>3. ASSUME NEW o \in Ops, Exit(o) PROVE TokenInv'
  BY <1>0, <1>3 DEF Exit, Leave, Closed, Released, stored
<1>4. ASSUME NEW o \in Ops, ExitInner(o) PROVE TokenInv'
  BY <1>0, <1>4 DEF ExitInner, stored
<1>5. ASSUME NEW o \in Ops, Crash(o) PROVE TokenInv'
  BY <1>0, <1>5 DEF Crash, Closed, stored
<1>6. ASSUME NEW o \in Ops, StartRead(o) PROVE TokenInv'
  <2>1. CASE token[o] > 0
    BY <1>0, <1>6, <2>1 DEF StartRead, Draw, lease, stored, Holder
  <2>2. CASE ~(token[o] > 0)
    <3>1. /\ seq' = seq + 1 /\ token' = [token EXCEPT ![o] = seq + 1]
          /\ UNCHANGED <<claim, row>>
      BY <1>6, <2>2 DEF StartRead, Draw, stored
    <3>2. token'[o] = seq + 1 /\ \A p \in Ops \ {o} : token'[p] = token[p]
      BY <3>1
    <3>3. \A p \in Ops : token[p] <= seq /\ claim[p] <= seq
      OBVIOUS
    <3>4. seq \in Nat /\ \A p \in Ops : token[p] \in Nat /\ claim[p] \in Nat
      OBVIOUS
    <3>5. row'.fence <= seq' /\ \A p \in Ops : token'[p] <= seq' /\ claim'[p] <= seq'
      BY <3>1, <3>2, <3>3, <3>4
    <3>6. ASSUME NEW p \in Ops, NEW q \in Ops, p # q
          PROVE  /\ token'[p] > 0 => token'[p] # token'[q] /\ token'[p] # claim'[q]
                 /\ claim'[p] > 0 => claim'[p] # claim'[q]
      BY <3>1, <3>2, <3>3, <3>4, <3>6
    <3> QED
      BY <3>5, <3>6
  <2> QED
    BY <2>1, <2>2
<1>7. ASSUME NEW o \in Ops, Peek(o) PROVE TokenInv'
  BY <1>0, <1>7 DEF Peek, lease, stored, Holder
<1>8. ASSUME NEW o \in Ops, StartWrite(o) PROVE TokenInv'
  <2>1. CASE token[o] > 0
    BY <1>0, <1>8, <2>1 DEF StartWrite, Draw, lease, stored, Holder
  <2>2. CASE ~(token[o] > 0)
    <3>1. /\ seq' = seq + 1 /\ token' = [token EXCEPT ![o] = seq + 1]
          /\ UNCHANGED <<claim, row>>
      BY <1>8, <2>2, Zenon DEF StartWrite, Draw, stored
    <3>2. token'[o] = seq + 1 /\ \A p \in Ops \ {o} : token'[p] = token[p]
      BY <3>1
    <3>3. \A p \in Ops : token[p] <= seq /\ claim[p] <= seq
      OBVIOUS
    <3>4. seq \in Nat /\ \A p \in Ops : token[p] \in Nat /\ claim[p] \in Nat
      OBVIOUS
    <3>5. row'.fence <= seq' /\ \A p \in Ops : token'[p] <= seq' /\ claim'[p] <= seq'
      BY <3>1, <3>2, <3>3, <3>4
    <3>6. ASSUME NEW p \in Ops, NEW q \in Ops, p # q
          PROVE  /\ token'[p] > 0 => token'[p] # token'[q] /\ token'[p] # claim'[q]
                 /\ claim'[p] > 0 => claim'[p] # claim'[q]
      BY <3>1, <3>2, <3>3, <3>4, <3>6
    <3> QED
      BY <3>5, <3>6
  <2> QED
    BY <2>1, <2>2
<1>9. ASSUME NEW o \in Ops, Guard(o) PROVE TokenInv'
  BY <1>0, <1>9 DEF Guard, Owns, lease, stored, context
<1>10. ASSUME NEW o \in Ops, GuardRefuses(o) PROVE TokenInv'
  BY <1>0, <1>10 DEF GuardRefuses, Leave, Closed, Released, stored
<1>11. ASSUME NEW o \in Ops, ReadRow(o) PROVE TokenInv'
  BY <1>0, <1>11 DEF ReadRow, Claimed, Idle, lease
<1>12. ASSUME NEW o \in Ops, ReadNoRow(o) PROVE TokenInv'
  BY <1>0, <1>12 DEF ReadNoRow, Idle, lease, stored
<1>13. ASSUME NEW o \in Ops, ReadHint(o) PROVE TokenInv'
  BY <1>0, <1>13 DEF ReadHint, Idle, lease, stored
<1>14. ASSUME NEW o \in Ops, AdoptRow(o) PROVE TokenInv'
  BY <1>0, <1>14 DEF AdoptRow, lease, context
<1>15. ASSUME NEW o \in Ops, AdoptionFails(o) PROVE TokenInv'
  BY <1>0, <1>15 DEF AdoptionFails, Leave, Closed, Released, stored
<1>16. ASSUME NEW o \in Ops, CreateRow(o) PROVE TokenInv'
  BY <1>0, <1>16 DEF CreateRow, Writing, Written, Wrote, lease
<1>17. ASSUME NEW o \in Ops, UpdateRow(o) PROVE TokenInv'
  BY <1>0, <1>17 DEF UpdateRow, Matches, Writing, Written, Wrote, lease
<1>18. ASSUME NEW o \in Ops, DeleteRow(o) PROVE TokenInv'
  BY <1>0, <1>18 DEF DeleteRow, Matches, Idle, lease
<1>19. ASSUME NEW o \in Ops, Moved(o) PROVE TokenInv'
  BY <1>0, <1>19 DEF Moved, Leave, Closed, Released, stored
<1>20. ASSUME NEW o \in Ops, WriteHint(o) PROVE TokenInv'
  BY <1>0, <1>20 DEF WriteHint, Idle, lease, context
<1> QED
  BY ZenonT(30), <1>1, <1>2, <1>3, <1>4, <1>5, <1>6, <1>7, <1>8, <1>9, <1>10, <1>11, <1>12, <1>13, <1>14,
     <1>15, <1>16, <1>17, <1>18, <1>19, <1>20 DEF Next, OpStep

\* Every step keeps late tokens below the owner's.
LEMMA FenceStep == OpTypes /\ SectionInv /\ TokenInv /\ FenceInv /\ KeepInv /\ Next => FenceInv'
<1> SUFFICES ASSUME OpTypes, SectionInv, TokenInv, FenceInv, KeepInv, Next PROVE FenceInv'
  OBVIOUS
<1> USE RowsAssumption DEF OpTypes, Tokens, NoDoc, Unseen, NoRow, SectionInv, TokenInv, Owner, FenceInv, KeepInv
<1>0. kind' = kind
  BY DEF Next
<1>1. ASSUME NEW k \in Keys, Expire(k) PROVE FenceInv'
  BY <1>0, <1>1 DEF Expire, stored, context
<1>2. ASSUME NEW o \in Ops, NEW k \in Keys, Acquire(o, k) PROVE FenceInv'
  BY <1>0, <1>2 DEF Acquire, stored, NextKey
<1>3. ASSUME NEW o \in Ops, Exit(o) PROVE FenceInv'
  BY <1>0, <1>3 DEF Exit, Leave, Closed, Released, stored
<1>4. ASSUME NEW o \in Ops, ExitInner(o) PROVE FenceInv'
  BY <1>0, <1>4 DEF ExitInner, stored
<1>5. ASSUME NEW o \in Ops, Crash(o) PROVE FenceInv'
  BY <1>0, <1>5 DEF Crash, Closed, stored
<1>6. ASSUME NEW o \in Ops, StartRead(o) PROVE FenceInv'
  <2>1. CASE token[o] > 0
    BY <1>0, <1>6, <2>1 DEF StartRead, Draw, lease, stored, Holder
  <2>2. CASE ~(token[o] > 0)
    BY <1>0, <1>6, <2>2 DEF StartRead, Draw, lease, stored, Holder
  <2> QED
    BY <2>1, <2>2, Zenon
<1>7. ASSUME NEW o \in Ops, Peek(o) PROVE FenceInv'
  BY <1>0, <1>7 DEF Peek, lease, stored, Holder
<1>8. ASSUME NEW o \in Ops, StartWrite(o) PROVE FenceInv'
  <2>1. CASE token[o] > 0
    BY <1>0, <1>8, <2>1 DEF StartWrite, Draw, lease, stored, Holder
  <2>2. CASE ~(token[o] > 0)
    BY <1>0, <1>8, <2>2 DEF StartWrite, Draw, lease, stored, Holder
  <2> QED
    BY <2>1, <2>2
<1>9. ASSUME NEW o \in Ops, Guard(o) PROVE FenceInv'
  BY <1>0, <1>9 DEF Guard, Owns, lease, stored, context
<1>10. ASSUME NEW o \in Ops, GuardRefuses(o) PROVE FenceInv'
  BY <1>0, <1>10 DEF GuardRefuses, Leave, Closed, Released, stored
<1>11. ASSUME NEW o \in Ops, ReadRow(o) PROVE FenceInv'
  BY <1>0, <1>11 DEF ReadRow, Claimed, Idle, lease
<1>12. ASSUME NEW o \in Ops, ReadNoRow(o) PROVE FenceInv'
  BY <1>0, <1>12 DEF ReadNoRow, Idle, lease, stored
<1>13. ASSUME NEW o \in Ops, ReadHint(o) PROVE FenceInv'
  BY <1>0, <1>13 DEF ReadHint, Idle, lease, stored
<1>14. ASSUME NEW o \in Ops, AdoptRow(o) PROVE FenceInv'
  BY <1>0, <1>14 DEF AdoptRow, lease, context
<1>15. ASSUME NEW o \in Ops, AdoptionFails(o) PROVE FenceInv'
  BY <1>0, <1>15 DEF AdoptionFails, Leave, Closed, Released, stored
<1>16. ASSUME NEW o \in Ops, CreateRow(o) PROVE FenceInv'
  BY SMTT(30), <1>0, <1>16 DEF CreateRow, Writing, Written, Wrote, lease
<1>17. ASSUME NEW o \in Ops, UpdateRow(o) PROVE FenceInv'
  BY <1>0, <1>17 DEF UpdateRow, Matches, Writing, Written, Wrote, lease
<1>18. ASSUME NEW o \in Ops, DeleteRow(o) PROVE FenceInv'
  BY <1>0, <1>18, Zenon DEF DeleteRow, Matches, Idle, lease
<1>19. ASSUME NEW o \in Ops, Moved(o) PROVE FenceInv'
  BY SMTT(30), <1>0, <1>19 DEF Moved, Leave, Closed, Released, stored
<1>20. ASSUME NEW o \in Ops, WriteHint(o) PROVE FenceInv'
  BY <1>0, <1>20 DEF WriteHint, Idle, lease, context
<1> QED
  BY ZenonT(30), <1>1, <1>2, <1>3, <1>4, <1>5, <1>6, <1>7, <1>8, <1>9, <1>10, <1>11, <1>12, <1>13, <1>14,
     <1>15, <1>16, <1>17, <1>18, <1>19, <1>20 DEF Next, OpStep

\* Where leaving a section leaves an operation, and what it keeps of the others.
LEMMA ClosedEffect ==
    ASSUME OpTypes, NEW o \in Ops, Closed(o)
    PROVE  /\ obs'[o].rev = 0 /\ keys'[o] = {}
           /\ \A p \in Ops \ {o} : /\ keys'[p] = keys[p] /\ read'[p] = read[p] /\ claim'[p] = claim[p]
                                 /\ obs'[p] = obs[p] /\ seen'[p] = seen[p]
<1>1. obs'[o].rev = 0 /\ keys'[o] = {}
  BY DEF Closed, OpTypes, Unseen
<1>2. ASSUME NEW p \in Ops \ {o}
      PROVE  /\ keys'[p] = keys[p] /\ read'[p] = read[p] /\ claim'[p] = claim[p]
             /\ obs'[p] = obs[p] /\ seen'[p] = seen[p]
  BY DEF Closed, OpTypes
<1> QED
  BY <1>1, <1>2

\* A step that keeps the row, and every observation it does not drop, keeps what a revision names.
LEMMA SeenFrame ==
    ASSUME SeenInv, row' = row, incs' = incs,
           \A p \in Ops : obs'[p].rev > 0 => obs'[p] = obs[p] /\ seen'[p] = seen[p]
    PROVE  SeenInv'
BY DEF SeenInv

\* So leaving a section keeps it.
LEMMA SeenClosed ==
    ASSUME OpTypes, SeenInv, NEW o \in Ops, Closed(o), UNCHANGED stored
    PROVE  SeenInv'
<1>1. \A p \in Ops : obs'[p].rev > 0 => obs'[p] = obs[p] /\ seen'[p] = seen[p]
  BY ClosedEffect
<1>2. row' = row /\ incs' = incs
  BY Zenon DEF stored
<1> QED
  BY <1>1, <1>2, SeenFrame

\* A step that keeps the row, and makes no operation an owner that was none, keeps the owner's row.
LEMMA KeepFrame ==
    ASSUME KeepInv, row' = row,
           \A p \in Ops : Owner(p)' /\ read'[p] = "now" /\ obs'[p].rev > 0
                          => Owner(p) /\ read[p] = "now" /\ obs'[p] = obs[p] /\ claim'[p] = claim[p]
    PROVE  KeepInv'
<1> SUFFICES ASSUME NEW p \in Ops, Owner(p)', read'[p] = "now", obs'[p].rev > 0
             PROVE  row'.rev = obs'[p].rev /\ row'.inc = obs'[p].inc /\ row'.fence = claim'[p] /\ claim'[p] > 0
  BY DEF KeepInv
<1>1. Owner(p) /\ read[p] = "now" /\ obs'[p] = obs[p] /\ claim'[p] = claim[p]
  OBVIOUS
<1> QED
  BY <1>1 DEF KeepInv

\* So leaving a section keeps it, its keys released or left to expire.
LEMMA KeepClosed ==
    ASSUME OpTypes, KeepInv, kind' = kind, NEW o \in Ops, Closed(o), UNCHANGED stored,
           Released(o) \/ redis' = redis
    PROVE  KeepInv'
<1>1. ASSUME NEW p \in Ops, redis'[RowKey] = p PROVE redis[RowKey] = p
  BY <1>1, RowsAssumption DEF Released, OpTypes
<1>2. ASSUME NEW p \in Ops, Owner(p)', read'[p] = "now", obs'[p].rev > 0
      PROVE  Owner(p) /\ read[p] = "now" /\ obs'[p] = obs[p] /\ claim'[p] = claim[p]
  <2>1. p # o
    BY <1>2, ClosedEffect
  <2> QED
    BY <1>1, <1>2, <2>1, ClosedEffect DEF Owner
<1>3. row' = row
  BY Zenon DEF stored
<1> QED
  BY <1>2, <1>3, KeepFrame

\* What inserting a row leaves behind, and what it does not touch.
LEMMA CreateEffect ==
    ASSUME OpTypes, NEW o \in Ops, CreateRow(o)
    PROVE  /\ at[o] = "row" /\ row.rev = 0
           /\ row'.rev = 1 /\ row'.inc = incs + 1 /\ row'.doc = Written(o) /\ row'.fence = token[o]
           /\ incs' = incs + 1 /\ claim'[o] = token[o]
           /\ obs'[o].rev = 1 /\ obs'[o].inc = incs + 1 /\ seen'[o] = Written(o)
           /\ \A p \in Ops \ {o} : claim'[p] = claim[p] /\ obs'[p] = obs[p] /\ seen'[p] = seen[p]
           /\ UNCHANGED <<redis, keys, hint, dead, seq, token, read>>
<1> USE DEF OpTypes
<1>1. at[o] = "row" /\ row.rev = 0
  BY Zenon DEF CreateRow, Writing
<1>2. row'.rev = 1 /\ row'.inc = incs + 1 /\ row'.doc = Written(o) /\ row'.fence = token[o] /\ incs' = incs + 1
  BY DEF CreateRow
<1>3. claim'[o] = token[o] /\ \A p \in Ops \ {o} : claim'[p] = claim[p]
  BY DEF CreateRow
<1>4. obs'[o].rev = 1 /\ obs'[o].inc = incs + 1 /\ \A p \in Ops \ {o} : obs'[p] = obs[p]
  BY Zenon DEF CreateRow
<1>5. seen'[o] = Written(o) /\ \A p \in Ops \ {o} : seen'[p] = seen[p]
  BY Zenon DEF CreateRow, Wrote
<1>6. UNCHANGED <<redis, keys, hint, dead, seq, token, read>>
  BY DEF CreateRow, Wrote, lease
<1> QED
  BY <1>1, <1>2, <1>3, <1>4, <1>5, <1>6

\* Every step keeps the owner's row.
LEMMA KeepStep == OpTypes /\ SectionInv /\ TokenInv /\ FenceInv /\ KeepInv /\ Next => KeepInv'
<1> SUFFICES ASSUME OpTypes, SectionInv, TokenInv, FenceInv, KeepInv, Next PROVE KeepInv'
  OBVIOUS
<1>0. kind' = kind
  BY Zenon DEF Next
<1>1. ASSUME NEW k \in Keys, Expire(k) PROVE KeepInv'
  BY RowsAssumption, <1>0, <1>1 DEF Expire, stored, context,
     OpTypes, Tokens, NoDoc, Unseen, NoRow, SectionInv, TokenInv, Owner, FenceInv, KeepInv
<1>2. ASSUME NEW o \in Ops, NEW k \in Keys, Acquire(o, k) PROVE KeepInv'
  BY RowsAssumption, <1>0, <1>2 DEF Acquire, stored, NextKey,
     OpTypes, Tokens, NoDoc, Unseen, NoRow, SectionInv, TokenInv, Owner, FenceInv, KeepInv
<1>3. ASSUME NEW o \in Ops, Exit(o) PROVE KeepInv'
  BY <1>0, <1>3, KeepClosed, Zenon DEF Exit, Leave
<1>4. ASSUME NEW o \in Ops, ExitInner(o) PROVE KeepInv'
  BY RowsAssumption, <1>0, <1>4 DEF ExitInner, stored,
     OpTypes, Tokens, NoDoc, Unseen, NoRow, SectionInv, TokenInv, Owner, FenceInv, KeepInv
<1>5. ASSUME NEW o \in Ops, Crash(o) PROVE KeepInv'
  BY <1>0, <1>5, KeepClosed DEF Crash
<1>6. ASSUME NEW o \in Ops, StartRead(o) PROVE KeepInv'
  BY <1>0, <1>6, KeepFrame, Zenon DEF StartRead, lease, stored, Owner
<1>7. ASSUME NEW o \in Ops, Peek(o) PROVE KeepInv'
  BY RowsAssumption, <1>0, <1>7 DEF Peek, lease, stored, Holder,
     OpTypes, Tokens, NoDoc, Unseen, NoRow, SectionInv, TokenInv, Owner, FenceInv, KeepInv
<1>8. ASSUME NEW o \in Ops, StartWrite(o) PROVE KeepInv'
  BY <1>0, <1>8, KeepFrame, Zenon DEF StartWrite, lease, stored, Owner
<1>9. ASSUME NEW o \in Ops, Guard(o) PROVE KeepInv'
  BY <1>0, <1>9, KeepFrame, Zenon DEF Guard, lease, stored, context, Owner
<1>10. ASSUME NEW o \in Ops, GuardRefuses(o) PROVE KeepInv'
  BY <1>0, <1>10, KeepClosed DEF GuardRefuses, Leave
<1>11. ASSUME NEW o \in Ops, ReadRow(o) PROVE KeepInv'
  BY RowsAssumption, <1>0, <1>11 DEF ReadRow, Claimed, Idle, lease,
     OpTypes, Tokens, NoDoc, Unseen, NoRow, SectionInv, TokenInv, Owner, FenceInv, KeepInv
<1>12. ASSUME NEW o \in Ops, ReadNoRow(o) PROVE KeepInv'
  BY RowsAssumption, <1>0, <1>12 DEF ReadNoRow, Idle, lease, stored,
     OpTypes, Tokens, NoDoc, Unseen, NoRow, SectionInv, TokenInv, Owner, FenceInv, KeepInv
<1>13. ASSUME NEW o \in Ops, ReadHint(o) PROVE KeepInv'
  BY RowsAssumption, <1>0, <1>13, Zenon DEF ReadHint, Idle, lease, stored,
     OpTypes, Tokens, NoDoc, Unseen, NoRow, SectionInv, TokenInv, Owner, FenceInv, KeepInv
<1>14. ASSUME NEW o \in Ops, AdoptRow(o) PROVE KeepInv'
  BY RowsAssumption, <1>0, <1>14, Zenon DEF AdoptRow, lease, context,
     OpTypes, Tokens, NoDoc, Unseen, NoRow, SectionInv, TokenInv, Owner, FenceInv, KeepInv
<1>15. ASSUME NEW o \in Ops, AdoptionFails(o) PROVE KeepInv'
  BY <1>0, <1>15, KeepClosed, Zenon DEF AdoptionFails, Leave
<1>16. ASSUME NEW o \in Ops, CreateRow(o) PROVE KeepInv'
  <2>1. ASSUME NEW p \in Ops, Owner(p)', read'[p] = "now", obs'[p].rev > 0
        PROVE  row'.rev = obs'[p].rev /\ row'.inc = obs'[p].inc /\ row'.fence = claim'[p] /\ claim'[p] > 0
    <3>1. CASE p = o
      BY <1>16, <3>1, CreateEffect, Zenon DEF SectionInv
    <3>2. CASE p # o
      <4>1. Owner(p) /\ read[p] = "now" /\ obs[p].rev > 0
        BY <1>0, <1>16, <2>1, <3>2, CreateEffect DEF Owner
      <4>2. row.rev = obs[p].rev
        BY <4>1, Zenon DEF KeepInv
      <4>3. row.rev = 0
        BY <1>16, CreateEffect, Zenon
      <4> QED
        BY <4>1, <4>2, <4>3
    <3> QED
      BY <3>1, <3>2, Zenon
  <2> QED
    BY <2>1, Zenon DEF KeepInv
<1>17. ASSUME NEW o \in Ops, UpdateRow(o) PROVE KeepInv'
  BY RowsAssumption, <1>0, <1>17 DEF UpdateRow, Matches, Writing, Written, Wrote, lease,
     OpTypes, Tokens, NoDoc, Unseen, NoRow, SectionInv, TokenInv, Owner, FenceInv, KeepInv
<1>18. ASSUME NEW o \in Ops, DeleteRow(o) PROVE KeepInv'
  BY RowsAssumption, <1>0, <1>18, Zenon DEF DeleteRow, Matches, Idle, lease,
     OpTypes, Tokens, NoDoc, Unseen, NoRow, SectionInv, TokenInv, Owner, FenceInv, KeepInv
<1>19. ASSUME NEW o \in Ops, Moved(o) PROVE KeepInv'
  BY <1>0, <1>19, KeepClosed, Zenon DEF Moved, Leave
<1>20. ASSUME NEW o \in Ops, WriteHint(o) PROVE KeepInv'
  BY <1>0, <1>20, KeepFrame DEF WriteHint, lease, context, Owner
<1> QED
  BY ZenonT(30), <1>1, <1>2, <1>3, <1>4, <1>5, <1>6, <1>7, <1>8, <1>9, <1>10, <1>11, <1>12, <1>13, <1>14,
     <1>15, <1>16, <1>17, <1>18, <1>19, <1>20 DEF Next, OpStep

\* Every step keeps what a revision names.
LEMMA SeenStep == OpTypes /\ SectionInv /\ SeenInv /\ Next => SeenInv'
<1> SUFFICES ASSUME OpTypes, SectionInv, SeenInv, Next PROVE SeenInv'
  OBVIOUS
<1>0. kind' = kind
  BY Zenon DEF Next
<1>1. ASSUME NEW k \in Keys, Expire(k) PROVE SeenInv'
  BY <1>1, SeenFrame, Zenon DEF Expire, stored, context
<1>2. ASSUME NEW o \in Ops, NEW k \in Keys, Acquire(o, k) PROVE SeenInv'
  BY <1>2, SeenFrame DEF Acquire, stored
<1>3. ASSUME NEW o \in Ops, Exit(o) PROVE SeenInv'
  BY <1>3, SeenClosed, Zenon DEF Exit, Leave
<1>4. ASSUME NEW o \in Ops, ExitInner(o) PROVE SeenInv'
  BY <1>4, SeenFrame DEF ExitInner, stored
<1>5. ASSUME NEW o \in Ops, Crash(o) PROVE SeenInv'
  BY <1>5, SeenClosed DEF Crash
<1>6. ASSUME NEW o \in Ops, StartRead(o) PROVE SeenInv'
  BY <1>6, SeenFrame, Zenon DEF StartRead, stored
<1>7. ASSUME NEW o \in Ops, Peek(o) PROVE SeenInv'
  BY RowsAssumption, <1>0, <1>7 DEF Peek, lease, stored, Holder,
     OpTypes, Tokens, NoDoc, Unseen, NoRow, SectionInv, SeenInv
<1>8. ASSUME NEW o \in Ops, StartWrite(o) PROVE SeenInv'
  BY <1>8, SeenFrame, Zenon DEF StartWrite, stored
<1>9. ASSUME NEW o \in Ops, Guard(o) PROVE SeenInv'
  BY <1>9, SeenFrame DEF Guard, stored, context
<1>10. ASSUME NEW o \in Ops, GuardRefuses(o) PROVE SeenInv'
  BY <1>10, SeenClosed DEF GuardRefuses, Leave
<1>11. ASSUME NEW o \in Ops, ReadRow(o) PROVE SeenInv'
  BY RowsAssumption, <1>0, <1>11 DEF ReadRow, Claimed, Idle, lease,
     OpTypes, Tokens, NoDoc, Unseen, NoRow, SectionInv, SeenInv
<1>12. ASSUME NEW o \in Ops, ReadNoRow(o) PROVE SeenInv'
  <2>1. \A p \in Ops : obs'[p].rev > 0 => obs'[p] = obs[p] /\ seen'[p] = seen[p]
    BY <1>12 DEF ReadNoRow, OpTypes, Unseen
  <2>2. row' = row /\ incs' = incs
    BY <1>12 DEF ReadNoRow, stored
  <2> QED
    BY <2>1, <2>2, SeenFrame, Zenon
<1>13. ASSUME NEW o \in Ops, ReadHint(o) PROVE SeenInv'
  <2>1. obs' = obs /\ obs[o].rev = 0
    BY <1>13, Zenon DEF ReadHint, SectionInv
  <2>2. \A p \in Ops \ {o} : seen'[p] = seen[p]
    BY <1>13 DEF ReadHint, OpTypes
  <2>3. row' = row /\ incs' = incs
    BY <1>13, Zenon DEF ReadHint, stored
  <2> QED
    BY <2>1, <2>2, <2>3, SeenFrame
<1>14. ASSUME NEW o \in Ops, AdoptRow(o) PROVE SeenInv'
  BY RowsAssumption, <1>0, <1>14 DEF AdoptRow, lease, context,
     OpTypes, Tokens, NoDoc, Unseen, NoRow, SectionInv, SeenInv
<1>15. ASSUME NEW o \in Ops, AdoptionFails(o) PROVE SeenInv'
  BY <1>15, SeenClosed, Zenon DEF AdoptionFails, Leave
<1>16. ASSUME NEW o \in Ops, CreateRow(o) PROVE SeenInv'
  <2>0. incs \in Nat /\ \A p \in Ops : obs[p].rev \in Nat /\ obs[p].inc \in Nat
    BY Zenon DEF OpTypes
  <2>1. ASSUME NEW p \in Ops, obs'[p].rev > 0
        PROVE  /\ obs'[p].inc > 0 /\ obs'[p].inc <= incs'
               /\ row'.rev > 0 /\ row'.inc = obs'[p].inc => obs'[p].rev <= row'.rev
               /\ row'.rev = obs'[p].rev /\ row'.inc = obs'[p].inc => row'.doc = seen'[p]
    <3>1. CASE p = o
      <4>1. /\ row'.rev = 1 /\ row'.inc = incs + 1 /\ row'.doc = Written(o) /\ incs' = incs + 1
            /\ obs'[p].rev = 1 /\ obs'[p].inc = incs + 1 /\ seen'[p] = Written(o)
        BY <1>16, <3>1, CreateEffect, Zenon
      <4> QED
        BY <2>0, <4>1
    <3>2. CASE p # o
      <4>1. obs'[p] = obs[p] /\ row'.inc = incs + 1 /\ incs' = incs + 1
        BY <1>16, <3>2, CreateEffect, Zenon
      <4>2. obs[p].inc > 0 /\ obs[p].inc <= incs
        BY <2>1, <4>1, Zenon DEF SeenInv
      <4> QED
        BY <2>0, <4>1, <4>2
    <3> QED
      BY <3>1, <3>2, Zenon
  <2>2. row'.inc > 0 /\ row'.inc <= incs'
    BY <1>16, <2>0, CreateEffect
  <2> QED
    BY <2>1, <2>2, Zenon DEF SeenInv
<1>17. ASSUME NEW o \in Ops, UpdateRow(o) PROVE SeenInv'
  <2>0. row.rev \in Nat /\ row.inc \in Nat /\ incs \in Nat /\ \A p \in Ops : obs[p].rev \in Nat /\ obs[p].inc \in Nat
    BY DEF OpTypes
  <2>1. row'.rev = row.rev + 1 /\ row'.inc = row.inc /\ row'.doc = Written(o)
    BY <1>17 DEF UpdateRow, OpTypes
  <2>2. obs'[o].rev = row.rev + 1 /\ obs'[o].inc = row.inc /\ seen'[o] = Written(o)
    BY <1>17 DEF UpdateRow, Wrote, OpTypes
  <2>3. \A p \in Ops \ {o} : obs'[p] = obs[p] /\ seen'[p] = seen[p]
    BY <1>17 DEF UpdateRow, Wrote, OpTypes
  <2>4. row.rev > 0 /\ incs' = incs
    BY <1>17, Zenon DEF UpdateRow, Matches, OpTypes
  <2>5. ASSUME NEW p \in Ops, obs'[p].rev > 0
        PROVE  /\ obs'[p].inc > 0 /\ obs'[p].inc <= incs'
               /\ row'.rev > 0 /\ row'.inc = obs'[p].inc => obs'[p].rev <= row'.rev
               /\ row'.rev = obs'[p].rev /\ row'.inc = obs'[p].inc => row'.doc = seen'[p]
    <3>1. CASE p = o
      BY <2>0, <2>1, <2>2, <2>4, <3>1 DEF SeenInv
    <3>2. CASE p # o
      BY <2>0, <2>1, <2>3, <2>4, <2>5, <3>2 DEF SeenInv
    <3> QED
      BY <3>1, <3>2
  <2> QED
    BY <2>1, <2>4, <2>5, Zenon DEF SeenInv
<1>18. ASSUME NEW o \in Ops, DeleteRow(o) PROVE SeenInv'
  <2>0. row.rev \in Nat /\ row.inc \in Nat /\ incs \in Nat /\ \A p \in Ops : obs[p].rev \in Nat /\ obs[p].inc \in Nat
    BY DEF OpTypes
  <2>1. (row' = row \/ row' = NoRow) /\ incs' = incs
    <3>1. incs' = incs
      BY <1>18, Zenon DEF DeleteRow
    <3>2. row' = row \/ row' = NoRow
      BY Zenon, <1>18 DEF DeleteRow
    <3> QED
      BY <3>1, <3>2, Zenon
  <2>2. obs'[o].rev = 0
    BY <1>18, Zenon DEF DeleteRow, OpTypes, Unseen
  <2>3. \A p \in Ops \ {o} : obs'[p] = obs[p] /\ seen'[p] = seen[p]
    BY <1>18, Zenon DEF DeleteRow, OpTypes
  <2>4. ASSUME NEW p \in Ops, obs'[p].rev > 0
        PROVE  /\ obs'[p].inc > 0 /\ obs'[p].inc <= incs'
               /\ row'.rev > 0 /\ row'.inc = obs'[p].inc => obs'[p].rev <= row'.rev
               /\ row'.rev = obs'[p].rev /\ row'.inc = obs'[p].inc => row'.doc = seen'[p]
    <3>1. p # o
      BY <2>2, <2>4
    <3>2. CASE row' = row
      BY <2>1, <2>3, <2>4, <3>1, <3>2, Zenon DEF SeenInv
    <3>3. CASE row' = NoRow
      <4>1. row'.rev = 0 /\ obs'[p] = obs[p]
        BY <2>3, <3>1, <3>3 DEF NoRow
      <4> QED
        BY <2>0, <2>1, <2>4, <4>1 DEF SeenInv
    <3> QED
      BY <2>1, <3>2, <3>3
  <2>5. row'.rev > 0 => row'.inc > 0 /\ row'.inc <= incs'
    <3>1. CASE row' = row
      BY <2>1, <3>1 DEF SeenInv
    <3>2. CASE row' = NoRow
      BY <3>2 DEF NoRow
    <3> QED
      BY <2>1, <3>1, <3>2
  <2> QED
    BY <2>4, <2>5 DEF SeenInv
<1>19. ASSUME NEW o \in Ops, Moved(o) PROVE SeenInv'
  BY <1>19, SeenClosed, Zenon DEF Moved, Leave
<1>20. ASSUME NEW o \in Ops, WriteHint(o) PROVE SeenInv'
  BY <1>20, SeenFrame DEF WriteHint, context
<1> QED
  BY ZenonT(30), <1>1, <1>2, <1>3, <1>4, <1>5, <1>6, <1>7, <1>8, <1>9, <1>10, <1>11, <1>12, <1>13, <1>14,
     <1>15, <1>16, <1>17, <1>18, <1>19, <1>20 DEF Next, OpStep

\* Every step keeps deleted documents out of the row.
LEMMA DeadStep == OpTypes /\ DeadInv /\ Next => DeadInv'
<1> SUFFICES ASSUME OpTypes, DeadInv, Next PROVE DeadInv'
  OBVIOUS
<1> USE RowsAssumption DEF OpTypes, Tokens, NoDoc, Unseen, NoRow, DeadInv, CUTOVER
<1>0. kind' = kind
  BY Zenon DEF Next
<1>1. ASSUME NEW k \in Keys, Expire(k) PROVE DeadInv'
  BY <1>0, <1>1, Zenon DEF Expire, stored, context
<1>2. ASSUME NEW o \in Ops, NEW k \in Keys, Acquire(o, k) PROVE DeadInv'
  BY <1>0, <1>2, Zenon DEF Acquire, stored, NextKey
<1>3. ASSUME NEW o \in Ops, Exit(o) PROVE DeadInv'
  BY <1>0, <1>3, Zenon DEF Exit, Leave, Closed, Released, stored
<1>4. ASSUME NEW o \in Ops, ExitInner(o) PROVE DeadInv'
  BY <1>0, <1>4, Zenon DEF ExitInner, stored
<1>5. ASSUME NEW o \in Ops, Crash(o) PROVE DeadInv'
  BY <1>0, <1>5, Zenon DEF Crash, Closed, stored
<1>6. ASSUME NEW o \in Ops, StartRead(o) PROVE DeadInv'
  BY <1>0, <1>6, Zenon DEF StartRead, Draw, lease, stored, Holder
<1>7. ASSUME NEW o \in Ops, Peek(o) PROVE DeadInv'
  BY <1>0, <1>7, Zenon DEF Peek, lease, stored, Holder
<1>8. ASSUME NEW o \in Ops, StartWrite(o) PROVE DeadInv'
  BY <1>0, <1>8, Zenon DEF StartWrite, Draw, lease, stored, Holder
<1>9. ASSUME NEW o \in Ops, Guard(o) PROVE DeadInv'
  BY <1>0, <1>9, Zenon DEF Guard, Owns, lease, stored, context
<1>10. ASSUME NEW o \in Ops, GuardRefuses(o) PROVE DeadInv'
  BY <1>0, <1>10 DEF GuardRefuses, Leave, Closed, Released, stored
<1>11. ASSUME NEW o \in Ops, ReadRow(o) PROVE DeadInv'
  BY <1>0, <1>11, Zenon DEF ReadRow, Claimed, Idle, lease
<1>12. ASSUME NEW o \in Ops, ReadNoRow(o) PROVE DeadInv'
  BY <1>0, <1>12, Zenon DEF ReadNoRow, Idle, lease, stored
<1>13. ASSUME NEW o \in Ops, ReadHint(o) PROVE DeadInv'
  BY <1>0, <1>13 DEF ReadHint, Idle, lease, stored
<1>14. ASSUME NEW o \in Ops, AdoptRow(o) PROVE DeadInv'
  <2>1. CASE row.rev > 0
    BY <1>0, <1>14, <2>1, Zenon DEF AdoptRow, lease, context
  <2>2. CASE ~(row.rev > 0)
    BY SMTT(30), <1>0, <1>14, <2>2 DEF AdoptRow, lease, context
  <2> QED
    BY <2>1, <2>2, Zenon
<1>15. ASSUME NEW o \in Ops, AdoptionFails(o) PROVE DeadInv'
  BY <1>0, <1>15, Zenon DEF AdoptionFails, Leave, Closed, Released, stored
<1>16. ASSUME NEW o \in Ops, CreateRow(o) PROVE DeadInv'
  <2>1. /\ dead' = dead /\ hint' = hint
        /\ row'.doc = Written(o) /\ docs' = (IF call[o] = "write" THEN docs + 1 ELSE docs)
    BY <1>16, Zenon DEF CreateRow, Wrote
  <2>2. kind = "marker" => call[o] = "write"
    BY <1>16, Zenon DEF CreateRow, Writing
  <2>3. \A p \in Ops : call'[p] = "adopt" => call[p] = "adopt" /\ doc'[p] = doc[p]
    BY <1>16, Zenon DEF CreateRow, Wrote
  <2>4. row'.doc \in dead => row'.doc <= CUTOVER
    BY <2>1 DEF Written
  <2> QED
    BY <1>0, <2>1, <2>2, <2>3, <2>4 DEF Written
<1>17. ASSUME NEW o \in Ops, UpdateRow(o) PROVE DeadInv'
  BY <1>0, <1>17 DEF UpdateRow, Matches, Writing, Written, Wrote, lease
<1>18. ASSUME NEW o \in Ops, DeleteRow(o) PROVE DeadInv'
  <2>1. kind = "marker" /\ hint' = hint /\ docs' = docs
    BY <1>18, Zenon DEF DeleteRow
  <2>2. \A p \in Ops : call'[p] = "adopt" => call[p] = "adopt" /\ doc'[p] = doc[p]
    BY <1>18, Zenon DEF DeleteRow, Idle
  <2>3. CASE obs[o].rev > 0
    <3>1. row' = NoRow /\ dead' = dead \cup {row.doc} /\ row.rev > 0
      BY <1>18, <2>3, Zenon DEF DeleteRow, Matches
    <3> QED
      BY <1>0, <2>1, <2>2, <3>1
  <2>4. CASE ~(obs[o].rev > 0)
    <3>1. row' = row /\ dead' = dead
      BY <1>18, <2>4, Zenon DEF DeleteRow
    <3> QED
      BY <1>0, <2>1, <2>2, <3>1, Zenon
  <2> QED
    BY <2>3, <2>4, Zenon
<1>19. ASSUME NEW o \in Ops, Moved(o) PROVE DeadInv'
  BY <1>0, <1>19, Zenon DEF Moved, Leave, Closed, Released, stored
<1>20. ASSUME NEW o \in Ops, WriteHint(o) PROVE DeadInv'
  BY <1>0, <1>20 DEF WriteHint, Idle, lease, context
<1> QED
  BY ZenonT(30), <1>1, <1>2, <1>3, <1>4, <1>5, <1>6, <1>7, <1>8, <1>9, <1>10, <1>11, <1>12, <1>13, <1>14,
     <1>15, <1>16, <1>17, <1>18, <1>19, <1>20 DEF Next, OpStep

\* The set a lock-free reader is watched with keeps its type.
LEMMA WatchedStep == TypeOK /\ OpTypes' /\ Next => TypeOK'
<1> SUFFICES ASSUME TypeOK, OpTypes', Next PROVE free' \subseteq Nat
  BY DEF TypeOK
<1>1. Visible' \in Nat
  BY DEF Visible, OpTypes, NoDoc
<1> QED
  BY <1>1, Zenon DEF TypeOK, Next, Watched

\* The invariant is inductive: it holds in every state of the rows.
THEOREM RowsInductive == Spec => []RowsInv
<1>1. RowsInv /\ [Next]_vars => RowsInv'
  <2> SUFFICES ASSUME RowsInv, [Next]_vars PROVE RowsInv'
    OBVIOUS
  <2>1. CASE Next
    <3>1. OpTypes'
      BY <2>1, TypeStep DEF RowsInv, TypeOK
    <3>2. TypeOK'
      BY <2>1, <3>1, WatchedStep DEF RowsInv
    <3>3. OpTypes /\ SectionInv /\ TokenInv /\ FenceInv /\ KeepInv /\ SeenInv /\ DeadInv
      BY DEF RowsInv, TypeOK
    <3>4. SectionInv' /\ TokenInv' /\ FenceInv'
      BY <2>1, <3>3, SectionStep, TokenStep, FenceStep
    <3>5. KeepInv' /\ SeenInv' /\ DeadInv'
      BY <2>1, <3>3, KeepStep, SeenStep, DeadStep
    <3> QED
      BY <3>2, <3>4, <3>5 DEF RowsInv
  <2>2. CASE UNCHANGED vars
    <3> USE <2>2 DEF vars
    <3>1. TypeOK'
      BY Zenon DEF RowsInv, TypeOK, OpTypes
    <3>2. SectionInv' /\ TokenInv'
      BY Zenon DEF RowsInv, SectionInv, TokenInv
    <3>3. FenceInv' /\ KeepInv'
      BY Zenon DEF RowsInv, Owner, FenceInv, KeepInv
    <3>4. SeenInv' /\ DeadInv'
      BY DEF RowsInv, SeenInv, DeadInv
    <3> QED
      BY <3>1, <3>2, <3>3, <3>4 DEF RowsInv
  <2> QED
    BY <2>1, <2>2
<1> QED
  BY <1>1, InitRows, PTL DEF Spec

\* The pointer row stays as the lease's holder read it and claimed by it, however many operations that lost the
\* lease still have statements in flight (CardRowOperation, row_fenced_lock).
THEOREM OwnerKeeps == Spec => []OwnerKeepsTheRow
<1>1. RowsInv => OwnerKeepsTheRow
  BY Zenon DEF RowsInv, TypeOK, OpTypes, KeepInv, SeenInv, OwnerKeepsTheRow, Live, Owner, Matches
<1> QED
  BY <1>1, RowsInductive, PTL

\* A document of a deleted marker row never returns to the row, but for the one the cutover file holds.
THEOREM DeletedMarkersStay == Spec => []DeletedStaysDeleted
<1>1. RowsInv => DeletedStaysDeleted
  BY Zenon DEF RowsInv, DeadInv, DeletedStaysDeleted
<1> QED
  BY <1>1, RowsInductive, PTL

\* A step that leaves an operation after its write or delete is that operation's own statement.
LEMMA OwnStatement ==
    ASSUME OpTypes, Next, NEW o \in Ops, at[o] = "row", at'[o] = "hintguard"
    PROVE  CreateRow(o) \/ UpdateRow(o) \/ DeleteRow(o)
<1> USE DEF OpTypes
<1>1. ASSUME NEW k \in Keys, Expire(k) PROVE FALSE
  BY <1>1, Zenon DEF Expire
<1>2. ASSUME NEW p \in Ops, NEW k \in Keys, Acquire(p, k) PROVE FALSE
  BY <1>2, Zenon DEF Acquire, stored, NextKey
<1>3. ASSUME NEW p \in Ops, Exit(p) PROVE FALSE
  BY <1>3, Zenon DEF Exit, Leave, Closed, Released, stored
<1>4. ASSUME NEW p \in Ops, ExitInner(p) PROVE FALSE
  BY <1>4, Zenon DEF ExitInner, stored
<1>5. ASSUME NEW p \in Ops, Crash(p) PROVE FALSE
  BY <1>5, Zenon DEF Crash, Closed, stored
<1>6. ASSUME NEW p \in Ops, StartRead(p) PROVE FALSE
  BY <1>6, Zenon DEF StartRead, Draw, lease, stored, Holder
<1>7. ASSUME NEW p \in Ops, Peek(p) PROVE FALSE
  BY <1>7, Zenon DEF Peek, lease, stored, Holder
<1>8. ASSUME NEW p \in Ops, StartWrite(p) PROVE FALSE
  BY <1>8, Zenon DEF StartWrite, Draw, lease, stored, Holder
<1>9. ASSUME NEW p \in Ops, Guard(p) PROVE FALSE
  BY <1>9, Zenon DEF Guard, Owns, lease, stored, context
<1>10. ASSUME NEW p \in Ops, GuardRefuses(p) PROVE FALSE
  BY <1>10 DEF GuardRefuses, Leave, Closed, Released, stored
<1>11. ASSUME NEW p \in Ops, ReadRow(p) PROVE FALSE
  BY <1>11, Zenon DEF ReadRow, Claimed, Idle, lease
<1>12. ASSUME NEW p \in Ops, ReadNoRow(p) PROVE FALSE
  BY <1>12, Zenon DEF ReadNoRow, Idle, lease, stored
<1>13. ASSUME NEW p \in Ops, ReadHint(p) PROVE FALSE
  BY <1>13, Zenon DEF ReadHint, Idle, lease, stored
<1>14. ASSUME NEW p \in Ops, AdoptRow(p) PROVE FALSE
  BY <1>14, Zenon DEF AdoptRow, lease, context
<1>15. ASSUME NEW p \in Ops, AdoptionFails(p) PROVE FALSE
  BY <1>15, Zenon DEF AdoptionFails, Leave, Closed, Released, stored
<1>16. ASSUME NEW p \in Ops, Moved(p) PROVE FALSE
  BY <1>16, Zenon DEF Moved, Leave, Closed, Released, stored
<1>17. ASSUME NEW p \in Ops, WriteHint(p) PROVE FALSE
  BY <1>17, Zenon DEF WriteHint, Idle, lease, context
<1>18. ASSUME NEW p \in Ops, CreateRow(p) PROVE p = o
  BY <1>18 DEF CreateRow, Wrote
<1>19. ASSUME NEW p \in Ops, UpdateRow(p) PROVE p = o
  BY <1>19, Zenon DEF UpdateRow, Wrote
<1>20. ASSUME NEW p \in Ops, DeleteRow(p) PROVE p = o
  BY <1>20 DEF DeleteRow, Idle
<1> QED
  BY ZenonT(30), <1>1, <1>2, <1>3, <1>4, <1>5, <1>6, <1>7, <1>8, <1>9, <1>10, <1>11, <1>12, <1>13, <1>14,
     <1>15, <1>16, <1>17, <1>18, <1>19, <1>20 DEF Next, OpStep

\* A write or a delete lands only over the document its operation read (write_pointer, write_marker, delete_marker).
THEOREM NoLostUpdate == Spec => WriteOverWhatWasRead
<1> DEFINE Lands(o) == /\ at[o] = "row" /\ call[o] \in {"write", "remove"}
                       /\ (row'.doc # row.doc \/ row'.rev # row.rev)
                       /\ at'[o] = "hintguard"
                       => row.rev = obs[o].rev /\ (row.rev > 0 => row.doc = seen[o])
<1>1. ASSUME RowsInv, Next, NEW o \in Ops PROVE Lands(o)
  <2> SUFFICES ASSUME at[o] = "row", at'[o] = "hintguard", row'.doc # row.doc \/ row'.rev # row.rev
               PROVE  row.rev = obs[o].rev /\ (row.rev > 0 => row.doc = seen[o])
    OBVIOUS
  <2>0. OpTypes /\ SeenInv
    BY <1>1, Zenon DEF RowsInv, TypeOK
  <2>1. CreateRow(o) \/ UpdateRow(o) \/ DeleteRow(o)
    BY <1>1, <2>0, OwnStatement, Zenon
  <2>2. CASE CreateRow(o)
    <3>1. row.rev = 0 /\ obs[o].rev = 0
      BY Zenon, <2>2 DEF CreateRow
    <3> HIDE DEF Lands
    <3> QED
      BY <3>1
  <2>3. CASE UpdateRow(o)
    BY <2>0, <2>3, Zenon DEF UpdateRow, Matches, SeenInv, OpTypes
  <2>4. CASE DeleteRow(o)
    BY <2>0, <2>4 DEF DeleteRow, Matches, SeenInv, OpTypes
  <2> QED
    BY <2>1, <2>2, <2>3, <2>4, Zenon
<1>2. RowsInv /\ [Next]_vars => [\A o \in Ops : Lands(o)]_vars
  <2> HIDE DEF Lands
  <2> QED
    BY <1>1
<1> QED
  BY <1>2, RowsInductive, PTL DEF Spec, WriteOverWhatWasRead
=============================================================================
