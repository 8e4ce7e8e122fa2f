------------------------- MODULE CardReadSetProofs -------------------------
(***************************************************************************)
(* A read set that is committed was at the revisions it read, for any      *)
(* number of Cards and read sets, whatever calls overlap.                  *)
(*                                                                         *)
(* The argument: a fence is set inside the Card's section, which PREPARE   *)
(* keeps until its receipt makes all its fences live; from then on neither *)
(* another read set nor an ordinary commit gets past them.                 *)
(***************************************************************************)
EXTENDS CardReadSet, TLAPS

\* The Cards a PREPARE has fenced so far.
Fenced(t) == Holds[t] \ todo[t]

\* A PREPARE in flight is inside the section of each of its Cards and has no
\* receipt yet, but for its last step.
PrepareInv == \A t \in Txns :
    /\ st[t] # "idle" => \A c \in Holds[t] : section[c] = t
    /\ st[t] \in {"active", "fence"} => rcpt[t] = "none"
    /\ todo[t] \subseteq Holds[t]
    /\ st[t] = "active" => todo[t] = Holds[t]
    /\ st[t] # "idle" \/ rcpt[t] # "none" => Read(t)
    /\ st[t] = "answer" \/ t \in acked => rcpt[t] # "none"

\* FINISH follows a decision, and a receipt is decided as the coordinator did.
FinishInv == \A t \in Txns :
    /\ fin[t] # "idle" \/ rcpt[t] \in DECISIONS => decision[t] \in DECISIONS
    /\ fin[t] = "receipt" => rcpt[t] # "none"
    /\ fin[t] = "release" => rcpt[t] \in DECISIONS

\* What is fenced before the receipt exists, and when it does.
HoldInv == \A t \in Txns :
    /\ st[t] = "fence" => \A c \in Fenced(t) : fence[c] = t /\ rev[c] = ExpectedRev(t, c)
    /\ rcpt[t] = "prepared" => \A c \in Holds[t] : fence[c] = t /\ rev[c] = ExpectedRev(t, c)

\* Without overlap an abort finds no PREPARE to overtake: its tombstone is there
\* before the next one, and the index entry outlives the fences.
CalmInv == \A t \in Txns \ overlapped :
    /\ fin[t] \in {"unstaged", "tombstone"} => st[t] = "idle"
    /\ fin[t] = "tombstone" => rcpt[t] = "none"
    /\ t \in tomb => st[t] = "idle" /\ rcpt[t] = "none"
    /\ fin[t] \in {"inactive", "retire"} \/ t \in finished => rcpt[t] \in DECISIONS \/ t \in tomb
    /\ st[t] \in {"fence", "answer"} \/ rcpt[t] = "prepared" => t \in active \/ rcpt[t] \in DECISIONS

ReadSetInv == TypeOK /\ PrepareInv /\ FinishInv /\ HoldInv /\ CalmInv

\* Init establishes the invariant.
LEMMA InitReadSet == Init => ReadSetInv
BY ReadSetAssumption DEF Init, ReadSetInv, TypeOK, PrepareInv, FinishInv, HoldInv, CalmInv, DECISIONS,
     Read, Fenced

\* Every step keeps the types.
LEMMA TypeStep == TypeOK /\ FinishInv /\ Next => TypeOK'
<1> SUFFICES ASSUME TypeOK, FinishInv, Next PROVE TypeOK'
  OBVIOUS
<1> USE ReadSetAssumption DEF TypeOK, DECISIONS
<1>0. overlapped' \subseteq Txns
  BY DEF Next
<1>1. ASSUME NEW c \in Written, OrdinaryCommit(c) PROVE TypeOK'
  BY <1>0, <1>1 DEF OrdinaryCommit, ledger
<1>2. ASSUME NEW t \in Txns, Plan(t) PROVE TypeOK'
  <2>1. [c \in Holds[t] |-> rev[c]] \in [Holds[t] -> 1..MaxRev]
    OBVIOUS
  <2> QED BY <1>0, <1>2, <2>1 DEF Plan, files
<1>3. ASSUME NEW t \in Txns, Decide(t) PROVE TypeOK'
  BY <1>0, <1>3 DEF Decide, files
<1>4. ASSUME NEW t \in Txns, PrepareEnter(t) PROVE TypeOK'
  BY <1>0, <1>4 DEF PrepareEnter, Enter, files, ledger
<1>5. ASSUME NEW t \in Txns, PrepareReplay(t) PROVE TypeOK'
  BY <1>0, <1>5 DEF PrepareReplay, files
<1>6. ASSUME NEW t \in Txns, PrepareCrash(t) PROVE TypeOK'
  BY <1>0, <1>6 DEF PrepareCrash, Stop, Exit, files, ledger
<1>7. ASSUME NEW t \in Txns, WriteActive(t) PROVE TypeOK'
  BY <1>0, <1>7 DEF WriteActive, ledger
<1>8. ASSUME NEW t \in Txns, WriteReceipt(t) PROVE TypeOK'
  BY <1>0, <1>8 DEF WriteReceipt, ledger
<1>9. ASSUME NEW t \in Txns, PrepareAnswer(t) PROVE TypeOK'
  BY <1>0, <1>9 DEF PrepareAnswer, Stop, Exit, files
<1>10. ASSUME NEW t \in Txns, NEW c \in Cards, ReserveRead(t, c) PROVE TypeOK'
  BY <1>0, <1>10 DEF ReserveRead, ledger
<1>11. ASSUME NEW t \in Txns, NEW c \in Cards, ReserveRefused(t, c) PROVE TypeOK'
  BY <1>0, <1>11 DEF ReserveRefused, Stop, Exit, files, ledger
<1>12. ASSUME NEW t \in Txns, FinishEnter(t) PROVE TypeOK'
  BY <1>0, <1>12 DEF FinishEnter, FinGoto, files, ledger
<1>13. ASSUME NEW t \in Txns, CheckUnstaged(t) PROVE TypeOK'
  BY <1>0, <1>13 DEF CheckUnstaged, FinGoto, files, ledger
<1>14. ASSUME NEW t \in Txns, WriteTombstone(t) PROVE TypeOK'
  BY <1>0, <1>14 DEF WriteTombstone, FinGoto, ledger
<1>15. ASSUME NEW t \in Txns, WriteDecided(t) PROVE TypeOK'
  BY <1>0, <1>15 DEF WriteDecided, FinGoto, ledger, FinishInv
<1>16. ASSUME NEW t \in Txns, ReleaseReads(t) PROVE TypeOK'
  BY <1>0, <1>16 DEF ReleaseReads, FinGoto, ledger
<1>17. ASSUME NEW t \in Txns, DropActive(t) PROVE TypeOK'
  BY <1>0, <1>17 DEF DropActive, FinGoto, ledger
<1>18. ASSUME NEW t \in Txns, FinishAnswer(t) PROVE TypeOK'
  BY <1>0, <1>18 DEF FinishAnswer, FinGoto, files
<1>19. ASSUME NEW t \in Txns, FinishCrash(t) PROVE TypeOK'
  BY <1>0, <1>19 DEF FinishCrash, FinGoto, files, ledger
<1> QED
  BY ZenonT(30), <1>1, <1>2, <1>3, <1>4, <1>5, <1>6, <1>7, <1>8, <1>9, <1>10, <1>11, <1>12, <1>13, <1>14,
     <1>15, <1>16, <1>17, <1>18, <1>19 DEF Next, PrepareStep, FinishStep

\* Every step keeps what is said of a PREPARE in flight.
LEMMA PrepareKept == TypeOK /\ PrepareInv /\ FinishInv /\ Next => PrepareInv'
<1> SUFFICES ASSUME TypeOK, PrepareInv, FinishInv, Next PROVE PrepareInv'
  OBVIOUS
<1> USE ReadSetAssumption DEF TypeOK, DECISIONS, PrepareInv, FinishInv, Read
<1>1. ASSUME NEW c \in Written, OrdinaryCommit(c) PROVE PrepareInv'
  BY <1>1 DEF OrdinaryCommit, ledger
<1>2. ASSUME NEW t \in Txns, Plan(t) PROVE PrepareInv'
  BY <1>2 DEF Plan, files
<1>3. ASSUME NEW t \in Txns, Decide(t) PROVE PrepareInv'
  BY <1>3 DEF Decide, files
<1>4. ASSUME NEW t \in Txns, PrepareEnter(t) PROVE PrepareInv'
  BY <1>4 DEF PrepareEnter, Enter, files, ledger
<1>5. ASSUME NEW t \in Txns, PrepareReplay(t) PROVE PrepareInv'
  BY <1>5 DEF PrepareReplay, files
<1>6. ASSUME NEW t \in Txns, PrepareCrash(t) PROVE PrepareInv'
  BY <1>6 DEF PrepareCrash, Stop, Exit, files, ledger
<1>7. ASSUME NEW t \in Txns, WriteActive(t) PROVE PrepareInv'
  BY <1>7 DEF WriteActive, ledger
<1>8. ASSUME NEW t \in Txns, WriteReceipt(t) PROVE PrepareInv'
  BY <1>8 DEF WriteReceipt, ledger
<1>9. ASSUME NEW t \in Txns, PrepareAnswer(t) PROVE PrepareInv'
  BY <1>9 DEF PrepareAnswer, Stop, Exit, files
<1>10. ASSUME NEW t \in Txns, NEW c \in Cards, ReserveRead(t, c) PROVE PrepareInv'
  BY <1>10 DEF ReserveRead, ledger
<1>11. ASSUME NEW t \in Txns, NEW c \in Cards, ReserveRefused(t, c) PROVE PrepareInv'
  BY <1>11 DEF ReserveRefused, Stop, Exit, files, ledger
<1>12. ASSUME NEW t \in Txns, FinishEnter(t) PROVE PrepareInv'
  BY <1>12 DEF FinishEnter, FinGoto, files, ledger
<1>13. ASSUME NEW t \in Txns, CheckUnstaged(t) PROVE PrepareInv'
  BY <1>13 DEF CheckUnstaged, FinGoto, files, ledger
<1>14. ASSUME NEW t \in Txns, WriteTombstone(t) PROVE PrepareInv'
  BY <1>14 DEF WriteTombstone, FinGoto, ledger
<1>15. ASSUME NEW t \in Txns, WriteDecided(t) PROVE PrepareInv'
  BY <1>15 DEF WriteDecided, FinGoto, ledger
<1>16. ASSUME NEW t \in Txns, ReleaseReads(t) PROVE PrepareInv'
  BY <1>16 DEF ReleaseReads, FinGoto, ledger
<1>17. ASSUME NEW t \in Txns, DropActive(t) PROVE PrepareInv'
  BY <1>17 DEF DropActive, FinGoto, ledger
<1>18. ASSUME NEW t \in Txns, FinishAnswer(t) PROVE PrepareInv'
  BY <1>18 DEF FinishAnswer, FinGoto, files
<1>19. ASSUME NEW t \in Txns, FinishCrash(t) PROVE PrepareInv'
  BY <1>19 DEF FinishCrash, FinGoto, files, ledger
<1> QED
  BY ZenonT(30), <1>1, <1>2, <1>3, <1>4, <1>5, <1>6, <1>7, <1>8, <1>9, <1>10, <1>11, <1>12, <1>13, <1>14,
     <1>15, <1>16, <1>17, <1>18, <1>19 DEF Next, PrepareStep, FinishStep

\* Every step keeps what is said of FINISH.
LEMMA FinishKept == TypeOK /\ PrepareInv /\ FinishInv /\ Next => FinishInv'
<1> SUFFICES ASSUME TypeOK, PrepareInv, FinishInv, Next PROVE FinishInv'
  OBVIOUS
<1> USE ReadSetAssumption DEF TypeOK, DECISIONS, PrepareInv, FinishInv
<1>1. ASSUME NEW c \in Written, OrdinaryCommit(c) PROVE FinishInv'
  BY <1>1 DEF OrdinaryCommit, ledger
<1>2. ASSUME NEW t \in Txns, Plan(t) PROVE FinishInv'
  BY <1>2 DEF Plan, files
<1>3. ASSUME NEW t \in Txns, Decide(t) PROVE FinishInv'
  BY <1>3 DEF Decide, files
<1>4. ASSUME NEW t \in Txns, PrepareEnter(t) PROVE FinishInv'
  BY <1>4 DEF PrepareEnter, Enter, files, ledger
<1>5. ASSUME NEW t \in Txns, PrepareReplay(t) PROVE FinishInv'
  BY <1>5 DEF PrepareReplay, files
<1>6. ASSUME NEW t \in Txns, PrepareCrash(t) PROVE FinishInv'
  BY <1>6 DEF PrepareCrash, Stop, Exit, files, ledger
<1>7. ASSUME NEW t \in Txns, WriteActive(t) PROVE FinishInv'
  BY <1>7 DEF WriteActive, ledger
<1>8. ASSUME NEW t \in Txns, WriteReceipt(t) PROVE FinishInv'
  BY <1>8 DEF WriteReceipt, ledger
<1>9. ASSUME NEW t \in Txns, PrepareAnswer(t) PROVE FinishInv'
  BY <1>9 DEF PrepareAnswer, Stop, Exit, files
<1>10. ASSUME NEW t \in Txns, NEW c \in Cards, ReserveRead(t, c) PROVE FinishInv'
  BY <1>10 DEF ReserveRead, ledger
<1>11. ASSUME NEW t \in Txns, NEW c \in Cards, ReserveRefused(t, c) PROVE FinishInv'
  BY <1>11 DEF ReserveRefused, Stop, Exit, files, ledger
<1>12. ASSUME NEW t \in Txns, FinishEnter(t) PROVE FinishInv'
  BY <1>12 DEF FinishEnter, FinGoto, files, ledger
<1>13. ASSUME NEW t \in Txns, CheckUnstaged(t) PROVE FinishInv'
  BY <1>13 DEF CheckUnstaged, FinGoto, files, ledger
<1>14. ASSUME NEW t \in Txns, WriteTombstone(t) PROVE FinishInv'
  BY <1>14 DEF WriteTombstone, FinGoto, ledger
<1>15. ASSUME NEW t \in Txns, WriteDecided(t) PROVE FinishInv'
  BY <1>15 DEF WriteDecided, FinGoto, ledger
<1>16. ASSUME NEW t \in Txns, ReleaseReads(t) PROVE FinishInv'
  BY <1>16 DEF ReleaseReads, FinGoto, ledger
<1>17. ASSUME NEW t \in Txns, DropActive(t) PROVE FinishInv'
  BY <1>17 DEF DropActive, FinGoto, ledger
<1>18. ASSUME NEW t \in Txns, FinishAnswer(t) PROVE FinishInv'
  BY <1>18 DEF FinishAnswer, FinGoto, files
<1>19. ASSUME NEW t \in Txns, FinishCrash(t) PROVE FinishInv'
  BY <1>19 DEF FinishCrash, FinGoto, files, ledger
<1> QED
  BY ZenonT(30), <1>1, <1>2, <1>3, <1>4, <1>5, <1>6, <1>7, <1>8, <1>9, <1>10, <1>11, <1>12, <1>13, <1>14,
     <1>15, <1>16, <1>17, <1>18, <1>19 DEF Next, PrepareStep, FinishStep

\* Every step keeps the fences that hold.
LEMMA HoldKept == TypeOK /\ PrepareInv /\ FinishInv /\ HoldInv /\ Next => HoldInv'
<1> SUFFICES ASSUME TypeOK, PrepareInv, FinishInv, HoldInv, Next PROVE HoldInv'
  OBVIOUS
<1> USE ReadSetAssumption DEF TypeOK, DECISIONS, PrepareInv, FinishInv, HoldInv, Fenced, ExpectedRev, Read, LiveFence, Reservable
<1>1. ASSUME NEW c \in Written, OrdinaryCommit(c) PROVE HoldInv'
  BY <1>1 DEF OrdinaryCommit, ledger
<1>2. ASSUME NEW t \in Txns, Plan(t) PROVE HoldInv'
  BY <1>2 DEF Plan, files
<1>3. ASSUME NEW t \in Txns, Decide(t) PROVE HoldInv'
  BY <1>3 DEF Decide, files
<1>4. ASSUME NEW t \in Txns, PrepareEnter(t) PROVE HoldInv'
  BY <1>4 DEF PrepareEnter, Enter, files, ledger
<1>5. ASSUME NEW t \in Txns, PrepareReplay(t) PROVE HoldInv'
  BY <1>5 DEF PrepareReplay, files
<1>6. ASSUME NEW t \in Txns, PrepareCrash(t) PROVE HoldInv'
  BY <1>6 DEF PrepareCrash, Stop, Exit, files, ledger
<1>7. ASSUME NEW t \in Txns, WriteActive(t) PROVE HoldInv'
  BY <1>7 DEF WriteActive, ledger
<1>8. ASSUME NEW t \in Txns, WriteReceipt(t) PROVE HoldInv'
  BY <1>8 DEF WriteReceipt, ledger
<1>9. ASSUME NEW t \in Txns, PrepareAnswer(t) PROVE HoldInv'
  BY <1>9 DEF PrepareAnswer, Stop, Exit, files
<1>10. ASSUME NEW t \in Txns, NEW c \in Cards, ReserveRead(t, c) PROVE HoldInv'
  <2>1. section[c] = t /\ fence' = [fence EXCEPT ![c] = t] /\ rev[c] = ExpectedRev(t, c)
    BY <1>10 DEF ReserveRead
  <2>2. UNCHANGED <<rev, rcpt, st, expected>>
    BY <1>10 DEF ReserveRead, ledger
  <2>3. ASSUME NEW u \in Txns, st[u] = "fence", NEW d \in Fenced(u)'
        PROVE  fence'[d] = u /\ rev[d] = ExpectedRev(u, d)
    <3>1. CASE u = t /\ d = c
      BY <2>1, <3>1
    <3>2. CASE u = t /\ d # c
      BY <1>10, <2>1, <2>3, <3>2 DEF ReserveRead
    <3>3. CASE u # t
      BY <1>10, <2>1, <2>3, <3>3 DEF ReserveRead
    <3> QED BY <3>1, <3>2, <3>3
  <2>4. ASSUME NEW u \in Txns, rcpt[u] = "prepared", NEW d \in Holds[u]
        PROVE  fence'[d] = u /\ rev[d] = ExpectedRev(u, d)
    <3>1. d = c => u = t
      BY <1>10, <2>4 DEF ReserveRead
    <3> QED BY <2>1, <2>4, <3>1
  <2> QED BY <2>2, <2>3, <2>4
<1>11. ASSUME NEW t \in Txns, NEW c \in Cards, ReserveRefused(t, c) PROVE HoldInv'
  BY <1>11 DEF ReserveRefused, Stop, Exit, files, ledger
<1>12. ASSUME NEW t \in Txns, FinishEnter(t) PROVE HoldInv'
  BY <1>12 DEF FinishEnter, FinGoto, files, ledger
<1>13. ASSUME NEW t \in Txns, CheckUnstaged(t) PROVE HoldInv'
  BY <1>13 DEF CheckUnstaged, FinGoto, files, ledger
<1>14. ASSUME NEW t \in Txns, WriteTombstone(t) PROVE HoldInv'
  BY <1>14 DEF WriteTombstone, FinGoto, ledger
<1>15. ASSUME NEW t \in Txns, WriteDecided(t) PROVE HoldInv'
  BY <1>15 DEF WriteDecided, FinGoto, ledger
<1>16. ASSUME NEW t \in Txns, ReleaseReads(t) PROVE HoldInv'
  BY <1>16 DEF ReleaseReads, FinGoto, ledger
<1>17. ASSUME NEW t \in Txns, DropActive(t) PROVE HoldInv'
  BY <1>17 DEF DropActive, FinGoto, ledger
<1>18. ASSUME NEW t \in Txns, FinishAnswer(t) PROVE HoldInv'
  BY <1>18 DEF FinishAnswer, FinGoto, files
<1>19. ASSUME NEW t \in Txns, FinishCrash(t) PROVE HoldInv'
  BY <1>19 DEF FinishCrash, FinGoto, files, ledger
<1> QED
  BY ZenonT(30), <1>1, <1>2, <1>3, <1>4, <1>5, <1>6, <1>7, <1>8, <1>9, <1>10, <1>11, <1>12, <1>13, <1>14,
     <1>15, <1>16, <1>17, <1>18, <1>19 DEF Next, PrepareStep, FinishStep

\* Every step keeps what is said of read sets whose calls did not overlap.
LEMMA CalmKept == TypeOK /\ PrepareInv /\ FinishInv /\ CalmInv /\ Next => CalmInv'
<1> SUFFICES ASSUME TypeOK, PrepareInv, FinishInv, CalmInv, Next PROVE CalmInv'
  OBVIOUS
<1> USE ReadSetAssumption DEF TypeOK, DECISIONS, PrepareInv, FinishInv, CalmInv
<1>0. overlapped' = overlapped \cup {t \in Txns : st'[t] # "idle" /\ fin'[t] \in {"unstaged", "tombstone"}}
  BY Zenon DEF Next
<1>1. ASSUME NEW c \in Written, OrdinaryCommit(c) PROVE CalmInv'
  BY <1>0, <1>1 DEF OrdinaryCommit, ledger
<1>2. ASSUME NEW t \in Txns, Plan(t) PROVE CalmInv'
  BY <1>0, <1>2, Zenon DEF Plan, files
<1>3. ASSUME NEW t \in Txns, Decide(t) PROVE CalmInv'
  BY <1>0, <1>3, Zenon DEF Decide, files
<1>4. ASSUME NEW t \in Txns, PrepareEnter(t) PROVE CalmInv'
  BY <1>0, <1>4 DEF PrepareEnter, Enter, files, ledger
<1>5. ASSUME NEW t \in Txns, PrepareReplay(t) PROVE CalmInv'
  BY <1>0, <1>5, Zenon DEF PrepareReplay, files
<1>6. ASSUME NEW t \in Txns, PrepareCrash(t) PROVE CalmInv'
  BY <1>0, <1>6, Zenon DEF PrepareCrash, Stop, Exit, files, ledger
<1>7. ASSUME NEW t \in Txns, WriteActive(t) PROVE CalmInv'
  BY <1>0, <1>7 DEF WriteActive, ledger
<1>8. ASSUME NEW t \in Txns, WriteReceipt(t) PROVE CalmInv'
  BY <1>0, <1>8 DEF WriteReceipt, ledger
<1>9. ASSUME NEW t \in Txns, PrepareAnswer(t) PROVE CalmInv'
  BY <1>0, <1>9, Zenon DEF PrepareAnswer, Stop, Exit, files
<1>10. ASSUME NEW t \in Txns, NEW c \in Cards, ReserveRead(t, c) PROVE CalmInv'
  BY <1>0, <1>10, Zenon DEF ReserveRead, ledger
<1>11. ASSUME NEW t \in Txns, NEW c \in Cards, ReserveRefused(t, c) PROVE CalmInv'
  BY <1>0, <1>11, Zenon DEF ReserveRefused, Stop, Exit, files, ledger
<1>12. ASSUME NEW t \in Txns, FinishEnter(t) PROVE CalmInv'
  BY <1>0, <1>12, Zenon DEF FinishEnter, FinGoto, files, ledger
<1>13. ASSUME NEW t \in Txns, CheckUnstaged(t) PROVE CalmInv'
  BY <1>0, <1>13, Zenon DEF CheckUnstaged, FinGoto, files, ledger
<1>14. ASSUME NEW t \in Txns, WriteTombstone(t) PROVE CalmInv'
  BY <1>0, <1>14 DEF WriteTombstone, FinGoto, ledger
<1>15. ASSUME NEW t \in Txns, WriteDecided(t) PROVE CalmInv'
  <2>1. rcpt' = [rcpt EXCEPT ![t] = decision[t]] /\ fin' = [fin EXCEPT ![t] = "release"]
    BY <1>15, Zenon DEF WriteDecided, FinGoto
  <2>2. UNCHANGED <<st, tomb, finished, active>>
    BY <1>15, Zenon DEF WriteDecided, ledger
  <2>3. decision[t] \in DECISIONS /\ rcpt[t] # "none"
    BY <1>15, Zenon DEF WriteDecided
  <2> QED BY <1>0, <2>1, <2>2, <2>3
<1>16. ASSUME NEW t \in Txns, ReleaseReads(t) PROVE CalmInv'
  BY <1>0, <1>16, Zenon DEF ReleaseReads, FinGoto, ledger
<1>17. ASSUME NEW t \in Txns, DropActive(t) PROVE CalmInv'
  BY <1>0, <1>17 DEF DropActive, FinGoto, ledger
<1>18. ASSUME NEW t \in Txns, FinishAnswer(t) PROVE CalmInv'
  BY <1>0, <1>18 DEF FinishAnswer, FinGoto, files
<1>19. ASSUME NEW t \in Txns, FinishCrash(t) PROVE CalmInv'
  BY <1>0, <1>19 DEF FinishCrash, FinGoto, files, ledger
<1> QED
  BY ZenonT(30), <1>1, <1>2, <1>3, <1>4, <1>5, <1>6, <1>7, <1>8, <1>9, <1>10, <1>11, <1>12, <1>13, <1>14,
     <1>15, <1>16, <1>17, <1>18, <1>19 DEF Next, PrepareStep, FinishStep

\* The invariant is inductive, and it holds of every reachable state.
THEOREM ReadSetInductive == Spec => []ReadSetInv
<1>1. ReadSetInv /\ [Next]_vars => ReadSetInv'
  <2>1. CASE Next
    BY <2>1, TypeStep, PrepareKept, FinishKept, HoldKept, CalmKept DEF ReadSetInv
  <2>2. CASE UNCHANGED vars
    <3>1. ASSUME TypeOK PROVE TypeOK'
      BY <2>2, <3>1 DEF vars, TypeOK
    <3>2. ASSUME PrepareInv PROVE PrepareInv'
      BY <2>2, <3>2 DEF vars, PrepareInv, Read
    <3>3. ASSUME FinishInv PROVE FinishInv'
      BY <2>2, <3>3 DEF vars, FinishInv
    <3>4. ASSUME HoldInv PROVE HoldInv'
      BY <2>2, <3>4 DEF vars, HoldInv, Fenced, ExpectedRev
    <3>5. ASSUME CalmInv PROVE CalmInv'
      BY <2>2, <3>5 DEF vars, CalmInv
    <3> QED BY <3>1, <3>2, <3>3, <3>4, <3>5, Zenon DEF ReadSetInv
  <2> QED BY <2>1, <2>2
<1> QED BY InitReadSet, <1>1, PTL DEF Spec

\* Every reachable state is well typed.
THEOREM ReadSetTypes == Spec => []TypeOK
BY ReadSetInductive, PTL DEF ReadSetInv

\* A prepared read set holds every one of its Cards: prepare_read_set of another
\* one never takes a fence that is live.
THEOREM PreparedSetsHold == Spec => []PreparedHoldsAll
<1>1. ReadSetInv => PreparedHoldsAll
  BY DEF ReadSetInv, HoldInv, PreparedHoldsAll
<1> QED BY <1>1, ReadSetInductive, PTL

\* Recovery finds every prepared read set whose FINISH overtook no PREPARE.
THEOREM PreparedSetsAreIndexed == Spec => []ReadFenceIsIndexed
<1>1. ReadSetInv => ReadFenceIsIndexed
  BY DEF ReadSetInv, CalmInv, ReadFenceIsIndexed, DECISIONS
<1> QED BY <1>1, ReadSetInductive, PTL

\* FINISH that overtook no PREPARE has released every Card when it answers.
THEOREM FinishedSetsAreReleased == Spec => []FinishedHoldsNothing
<1>1. ReadSetInv => FinishedHoldsNothing
  BY DEF ReadSetInv, TypeOK, CalmInv, FinishedHoldsNothing, LiveFence, DECISIONS
<1> QED BY <1>1, ReadSetInductive, PTL

\* A commit is decided at the revisions that were read: from its receipt to its
\* decision no write lands on a Card of the read set.
THEOREM CommitsOnReadState == Spec => CommitOnReadState
<1> DEFINE A == \A t \in Txns : decision[t] # "committed" /\ decision'[t] = "committed" =>
                   \A c \in Holds[t] : rev[c] = ExpectedRev(t, c)
<1>1. ASSUME ReadSetInv, Next PROVE A
  <2> SUFFICES ASSUME NEW t \in Txns, decision[t] # "committed", decision'[t] = "committed"
               PROVE  \A c \in Holds[t] : rev[c] = ExpectedRev(t, c)
    OBVIOUS
  <2>1. t \in acked /\ decision[t] = "undecided"
    <3>1. UNCHANGED decision \/ \E u \in Txns : Decide(u)
      BY ZenonT(30), <1>1 DEF Next, PrepareStep, FinishStep, ledger, Plan, Decide, PrepareEnter, PrepareReplay, PrepareCrash, WriteActive, WriteReceipt,
       PrepareAnswer, ReserveRead, ReserveRefused, FinishEnter, CheckUnstaged, WriteTombstone,
       WriteDecided, ReleaseReads, DropActive, FinishAnswer, FinishCrash, OrdinaryCommit
    <3> QED BY <1>1, <3>1 DEF Decide, ReadSetInv, TypeOK, DECISIONS
  <2>2. rcpt[t] = "prepared"
    BY <1>1, <2>1 DEF ReadSetInv, TypeOK, PrepareInv, FinishInv, DECISIONS
  <2> QED BY <1>1, <2>2 DEF ReadSetInv, HoldInv
<1>2. ReadSetInv /\ [Next]_vars => [A]_vars
  BY <1>1
<1> QED BY <1>2, ReadSetInductive, PTL DEF Spec, CommitOnReadState
=============================================================================
