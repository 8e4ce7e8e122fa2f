--------------------------- MODULE CardGroupProofs ---------------------------
(***************************************************************************)
(* A card group is one change to every reader, and its FINISH closes it,   *)
(* for any number of members.                                              *)
(*                                                                         *)
(* The argument: a commit is recorded only after every member was seen     *)
(* prepared and staged, and from then on only the decision itself moves a  *)
(* member's pointer, because an ordinary commit is refused over a prepared *)
(* receipt.  So a recorded commit leaves no member on its original.  The   *)
(* lead is finished first, with the effect, before any other member's      *)
(* pointer is retired.  What is released at the end needs that STAGE and   *)
(* FINISH calls of the group did not overlap.                              *)
(***************************************************************************)
EXTENDS CardGroup, TLAPS

\* A member has been staged, and nothing but the decision has touched it since.
Ready(m) == \/ ptr[m] = "tx" /\ rcpt[m] \in {"prepared", "committed"}
            \/ ptr[m] = "after"

\* What the members' files say of the decision.
MemberInv == /\ decision = "committed" => acked
             /\ \A m \in Members : /\ rcpt[m] \in DECISIONS => rcpt[m] = decision
                                   /\ rcpt[m] = "none" => ptr[m] = "before"
                                   /\ ptr[m] = "after" => rcpt[m] = "committed"

\* A STAGE call owns the member it writes, and so does a FINISH call.
StageInv == /\ st \in {"receipt", "pointer"} => at \in Members /\ section[at] = "stage"
            /\ st = "receipt" => rcpt[at] = "none"
            /\ st = "pointer" => rcpt[at] = "prepared"
FinishInv == /\ fin # "idle" => decision \in DECISIONS
             /\ fin \in {"apply", "record", "retire"} =>
                  fat \in Members /\ section[fat] = "finish" /\ rcpt[fat] = decision
             /\ fin \in {"apply", "record"} => fat = 1

\* A group that was staged as a whole stays ready until it is aborted.
WholeInv == decision # "aborted" /\ (acked \/ staged \/ st \in {"complete", "answer"}) => \A m \in Members : Ready(m)

\* FINISH passes the lead only with the effect recorded.
EffectInv == HasEffect =>
    /\ fin = "record" \/ applied => world
    /\ decision = "committed" /\ (fin = "retire" \/ (fin = "member" /\ fat > 1)) => applied
    /\ \A m \in Members : ptr[m] = "after" => world

\* Without overlapping calls the aggregate covers its members, and the index entry the aggregate.
CalmInv == ~overlapped =>
    /\ st = "idle" \/ fin = "idle"
    /\ st \in {"active", "begin"} => agg = "none"
    /\ st \in {"member", "receipt", "pointer", "complete", "answer"} => agg = "prepared"
    /\ agg = "prepared" \/ st = "begin" => active
    /\ agg # "prepared" \/ fin = "aggregate" => \A m \in Members : rcpt[m] # "prepared"
    /\ fin = "tombstone" => agg = "none"
    /\ fin \in {"clear", "answer"} \/ finished => agg # "prepared" /\ st = "idle" /\ (agg = "none" => tomb)

GroupInv == TypeOK /\ MemberInv /\ StageInv /\ FinishInv /\ WholeInv /\ EffectInv /\ CalmInv

\* The lead is a member, and the members are numbered from it.
LEMMA LeadIsMember == 1 \in Members /\ \A m \in Members : m \in 1..N+1 /\ m + 1 \in 1..N+1
BY GroupAssumption DEF Members

\* Init establishes the invariant.
LEMMA InitGroup == Init => GroupInv
<1> SUFFICES ASSUME Init PROVE GroupInv
  OBVIOUS
<1>1. TypeOK
  <2>1. {acked, finished, staged, active, tomb, world, applied, overlapped} \subseteq BOOLEAN
    BY Zenon DEF Init
  <2>2. at \in 1..N+1 /\ fat \in 1..N+1
    BY GroupAssumption DEF Init
  <2> QED
    BY <2>1, <2>2 DEF Init, TypeOK, States, StageSteps, FinishSteps
<1>2. MemberInv /\ StageInv /\ FinishInv /\ WholeInv
  BY DEF Init, MemberInv, StageInv, FinishInv, WholeInv, DECISIONS
<1>3. EffectInv /\ CalmInv
  BY DEF Init, EffectInv, CalmInv
<1> QED
  BY <1>1, <1>2, <1>3 DEF GroupInv

\* A step of the STAGE call, and one of FINISH, keep the types.
LEMMA StageTypes ==
    ASSUME TypeOK, StageInv, GroupBegin \/ StageStep \/ StageCrash, overlapped' \in BOOLEAN
    PROVE  TypeOK'
<1> USE GroupAssumption, LeadIsMember DEF TypeOK, ledger, aggregate, members
<1>1. CASE GroupBegin
  BY <1>1 DEF GroupBegin, Take, StageSteps
<1>2. CASE BeginActive
  BY <1>2 DEF BeginActive, StageSteps
<1>3. CASE BeginReceipt
  BY <1>3, Zenon DEF BeginReceipt, Drop, StageSteps, States
<1>4. CASE MemberEnter
  BY <1>4 DEF MemberEnter, Take, StageSteps, Members
<1>5. CASE MemberReceipt
  BY <1>5, Zenon DEF MemberReceipt, StageSteps, States
<1>6. CASE MemberPointer
  BY <1>6 DEF MemberPointer, Drop, StageSteps, StageInv
<1>7. CASE CompleteRead
  BY <1>7 DEF CompleteRead, StageSteps
<1>8. CASE CompleteWrite \/ GroupAnswer
  BY <1>8, Zenon DEF CompleteWrite, GroupAnswer, StageSteps, States
<1>9. CASE StageCrash
  BY <1>9 DEF StageCrash, Drop, StageSteps
<1> QED
  BY <1>1, <1>2, <1>3, <1>4, <1>5, <1>6, <1>7, <1>8, <1>9 DEF StageStep

LEMMA FinishTypes ==
    ASSUME TypeOK, FinishInv, FinishEnter \/ FinishStep \/ FinishCrash, overlapped' \in BOOLEAN
    PROVE  TypeOK'
<1> USE GroupAssumption, LeadIsMember DEF TypeOK, ledger, aggregate, members
<1>1. CASE FinishEnter
  BY <1>1 DEF FinishEnter, Take, FinishSteps
<1>2. CASE WriteTombstone \/ ClearGroup
  BY <1>2, Zenon DEF WriteTombstone, ClearGroup, FinishSteps
<1>3. CASE FinishSkip
  BY <1>3 DEF FinishSkip
<1>4. CASE FinishMember
  BY <1>4 DEF FinishMember, Take, FinishSteps, States, FinishInv
<1>5. CASE ApplyEffect \/ RecordEffect
  BY <1>5, Zenon DEF ApplyEffect, RecordEffect, FinishSteps
<1>6. CASE FinishRetire
  BY <1>6 DEF FinishRetire, Drop, FinishSteps, FinishInv
<1>7. CASE FinishCheck
  BY <1>7 DEF FinishCheck, FinishSteps
<1>8. CASE FinishAggregate
  BY <1>8 DEF FinishAggregate, FinishSteps, States, FinishInv
<1>9. CASE FinishAnswer \/ FinishCrash
  BY <1>9, Zenon DEF FinishAnswer, FinishCrash, Drop, FinishSteps
<1> QED
  BY <1>1, <1>2, <1>3, <1>4, <1>5, <1>6, <1>7, <1>8, <1>9 DEF FinishStep

\* Every step keeps the types.
LEMMA TypeStep == GroupInv /\ [Next]_vars => TypeOK'
<1> SUFFICES ASSUME GroupInv, [Next]_vars PROVE TypeOK'
  OBVIOUS
<1>0. TypeOK /\ StageInv /\ FinishInv
  BY DEF GroupInv
<1>1. CASE Next
  <2>0. overlapped' \in BOOLEAN
    BY <1>1 DEF Next
  <2>1. CASE Decide
    BY <1>0, <2>0, <2>1 DEF TypeOK, Decide, DECISIONS, aggregate, members
  <2>2. CASE \E m \in Members : OrdinaryCommit(m)
    BY <1>0, <2>0, <2>2 DEF TypeOK, OrdinaryCommit, ledger, aggregate
  <2> QED
    BY <1>0, <1>1, <2>0, <2>1, <2>2, StageTypes, FinishTypes DEF Next
<1>2. CASE UNCHANGED vars
  BY <1>0, <1>2 DEF TypeOK, vars
<1> QED
  BY <1>1, <1>2

\* The receipts and pointers of the members keep agreeing with the decision.
LEMMA MemberStep == ASSUME GroupInv, Next PROVE MemberInv'
<1>0. TypeOK /\ MemberInv /\ StageInv /\ FinishInv
  BY DEF GroupInv
<1>1. ASSUME UNCHANGED <<decision, rcpt, ptr>>, acked => acked' PROVE MemberInv'
  BY <1>0, <1>1 DEF MemberInv
<1>2. CASE Decide
  <2>1. \A m \in Members : rcpt[m] \notin DECISIONS
    BY <1>0, <1>2 DEF MemberInv, Decide, DECISIONS
  <2>2. decision' = "committed" => acked
    BY <1>2 DEF Decide
  <2> QED
    BY <1>0, <1>2, <2>1, <2>2 DEF MemberInv, Decide, members, aggregate, DECISIONS
<1>3. CASE MemberReceipt
  BY <1>0, <1>3 DEF MemberInv, StageInv, TypeOK, MemberReceipt, ledger, DECISIONS
<1>4. CASE MemberPointer
  BY <1>0, <1>4 DEF MemberInv, StageInv, TypeOK, MemberPointer, ledger
<1>5. CASE FinishMember
  <2>1. decision \in DECISIONS /\ fat \in Members /\ rcpt[fat] # "none"
    BY <1>0, <1>5 DEF FinishMember, FinishInv
  <2>2. rcpt[fat] = "committed" => decision = "committed"
    BY <1>0, <2>1 DEF MemberInv, DECISIONS
  <2> QED
    BY <1>0, <1>5, <2>1, <2>2 DEF MemberInv, TypeOK, FinishMember, ledger, DECISIONS
<1>6. CASE FinishRetire
  BY <1>0, <1>6 DEF MemberInv, FinishInv, TypeOK, FinishRetire, Staged, ledger, DECISIONS
<1>7. CASE \E m \in Members : OrdinaryCommit(m)
  BY <1>0, <1>7 DEF MemberInv, TypeOK, OrdinaryCommit, Staged, ledger, DECISIONS
<1>8. CASE GroupBegin \/ BeginActive \/ BeginReceipt \/ MemberEnter \/ CompleteRead \/ CompleteWrite \/ GroupAnswer \/ StageCrash
  BY <1>1, <1>8 DEF GroupBegin, BeginActive, BeginReceipt, MemberEnter, CompleteRead, CompleteWrite, GroupAnswer,
                    StageCrash, ledger, members
<1>9. CASE FinishEnter \/ WriteTombstone \/ FinishSkip \/ ApplyEffect \/ RecordEffect \/ FinishCheck
  BY <1>1, <1>9 DEF FinishEnter, WriteTombstone, FinishSkip, ApplyEffect, RecordEffect, FinishCheck, ledger, members
<1>10. CASE FinishAggregate \/ ClearGroup \/ FinishAnswer \/ FinishCrash
  BY <1>1, <1>10 DEF FinishAggregate, ClearGroup, FinishAnswer, FinishCrash, ledger, members
<1> QED
  BY <1>2, <1>3, <1>4, <1>5, <1>6, <1>7, <1>8, <1>9, <1>10 DEF Next, StageStep, FinishStep


\* The STAGE call keeps the member it writes.
LEMMA StageKept == ASSUME GroupInv, Next PROVE StageInv'
<1>0. TypeOK /\ StageInv
  BY DEF GroupInv
<1>1. ASSUME UNCHANGED <<st, at, rcpt>>, \A m \in Members : section[m] = "stage" => section'[m] = "stage"
      PROVE  StageInv'
  BY <1>0, <1>1 DEF StageInv
<1>2. CASE Decide \/ WriteTombstone \/ FinishSkip \/ ApplyEffect \/ RecordEffect \/ FinishCheck
  BY <1>1, <1>2 DEF Decide, WriteTombstone, FinishSkip, ApplyEffect, RecordEffect, FinishCheck, members
<1>3. CASE FinishEnter
  BY <1>0, <1>1, <1>3 DEF FinishEnter, Take, members, TypeOK
<1>4. CASE FinishAggregate \/ ClearGroup \/ \E m \in Members : OrdinaryCommit(m)
  BY <1>1, <1>4 DEF FinishAggregate, ClearGroup, OrdinaryCommit, members
<1>5. CASE FinishRetire \/ FinishAnswer \/ FinishCrash
  BY <1>0, <1>1, <1>5 DEF FinishRetire, FinishAnswer, FinishCrash, Drop, members, TypeOK
<1>6. CASE FinishMember
  <2>1. \A m \in Members : section[m] = "stage" => m # fat /\ section'[m] = "stage" /\ rcpt'[m] = rcpt[m]
    BY <1>0, <1>6 DEF FinishMember, Take, TypeOK
  <2> QED
    BY <1>0, <1>6, <2>1 DEF FinishMember, StageInv
<1>7. CASE MemberEnter
  BY <1>0, <1>7 DEF MemberEnter, Take, StageInv, TypeOK, members
<1>8. CASE MemberReceipt
  BY <1>0, <1>8 DEF MemberReceipt, StageInv, TypeOK
<1>9. CASE GroupBegin \/ BeginActive \/ BeginReceipt \/ MemberPointer \/ CompleteRead \/ CompleteWrite \/ GroupAnswer \/ StageCrash
  <2>1. st' \notin {"receipt", "pointer"}
    BY <1>9 DEF GroupBegin, BeginActive, BeginReceipt, MemberPointer, CompleteRead, CompleteWrite, GroupAnswer, StageCrash
  <2> QED
    BY <2>1 DEF StageInv
<1> QED
  BY <1>2, <1>3, <1>4, <1>5, <1>6, <1>7, <1>8, <1>9 DEF Next, StageStep, FinishStep

\* The FINISH call keeps the member it decides, and runs only after the decision.
LEMMA FinishKept == ASSUME GroupInv, Next PROVE FinishInv'
<1>0. TypeOK /\ FinishInv /\ StageInv
  BY DEF GroupInv
<1>1. ASSUME UNCHANGED <<fin, fat, decision, rcpt>>, \A m \in Members : section[m] = "finish" => section'[m] = "finish"
      PROVE  FinishInv'
  BY <1>0, <1>1 DEF FinishInv
<1>2. CASE Decide
  BY <1>0, <1>2 DEF Decide, FinishInv, DECISIONS
<1>3. CASE BeginActive \/ CompleteRead \/ CompleteWrite \/ GroupAnswer \/ \E m \in Members : OrdinaryCommit(m)
  BY <1>1, <1>3 DEF BeginActive, CompleteRead, CompleteWrite, GroupAnswer, OrdinaryCommit, ledger, members
<1>4. CASE GroupBegin \/ MemberEnter
  BY <1>0, <1>1, <1>4, Zenon DEF GroupBegin, MemberEnter, Take, ledger, members, TypeOK
<1>5. CASE BeginReceipt \/ StageCrash
  BY <1>0, <1>1, <1>5 DEF BeginReceipt, StageCrash, Drop, ledger, members, TypeOK
<1>6. CASE MemberPointer
  BY <1>0, <1>1, <1>6 DEF MemberPointer, Drop, ledger, TypeOK
<1>7. CASE MemberReceipt
  <2>1. section[at] = "stage" /\ at \in Members /\ \A m \in Members : m # at => rcpt'[m] = rcpt[m]
    BY <1>0, <1>7 DEF MemberReceipt, StageInv, TypeOK
  <2> QED
    BY <1>0, <1>7, <2>1 DEF MemberReceipt, FinishInv, ledger
<1>8. CASE FinishEnter \/ FinishSkip \/ FinishCheck
  BY <1>0, <1>8 DEF FinishEnter, FinishSkip, FinishCheck, FinishInv, ledger, TypeOK
<1>9. CASE WriteTombstone \/ FinishRetire \/ FinishAggregate \/ ClearGroup \/ FinishAnswer \/ FinishCrash
  BY <1>0, <1>9 DEF WriteTombstone, FinishRetire, FinishAggregate, ClearGroup, FinishAnswer, FinishCrash, FinishInv, ledger
<1>10. CASE FinishMember
  BY <1>0, <1>10 DEF FinishMember, Take, FinishInv, ledger, TypeOK
<1>11. CASE ApplyEffect \/ RecordEffect
  BY <1>0, <1>11 DEF ApplyEffect, RecordEffect, FinishInv, ledger
<1> QED
  BY <1>2, <1>3, <1>4, <1>5, <1>6, <1>7, <1>8, <1>9, <1>10, <1>11 DEF Next, StageStep, FinishStep

\* A group staged as a whole stays ready: only its own decision moves a member's pointer.
LEMMA WholeStep == ASSUME GroupInv, Next PROVE WholeInv'
<1>0. TypeOK /\ MemberInv /\ StageInv /\ FinishInv /\ WholeInv
  BY DEF GroupInv
<1>1. ASSUME decision' = decision \/ decision = "undecided", acked' \/ staged' => acked \/ staged \/ st \in {"complete", "answer"},
             st' \in {"complete", "answer"} => acked \/ staged \/ st \in {"complete", "answer"},
             \A m \in Members : decision' # "aborted" /\ Ready(m) => Ready(m)'
      PROVE  WholeInv'
  BY <1>0, <1>1 DEF WholeInv
<1>2. ASSUME UNCHANGED <<rcpt, ptr>> PROVE \A m \in Members : Ready(m) => Ready(m)'
  BY <1>2 DEF Ready
<1>3. CASE Decide
  BY <1>1, <1>2, <1>3 DEF Decide, members, aggregate
<1>4. CASE GroupBegin \/ BeginActive \/ BeginReceipt \/ MemberEnter \/ StageCrash
  BY <1>1, <1>2, <1>4 DEF GroupBegin, BeginActive, BeginReceipt, MemberEnter, StageCrash, ledger, aggregate, members
<1>5. CASE CompleteWrite \/ GroupAnswer
  BY <1>1, <1>2, <1>5 DEF CompleteWrite, GroupAnswer, ledger, aggregate, members
<1>6. CASE CompleteRead
  <2>1. CASE st' = "complete"
    BY <1>6, <2>1 DEF CompleteRead, WholeInv, Ready, Staged, members
  <2>2. CASE st' # "complete"
    BY <1>1, <1>2, <1>6, <2>2 DEF CompleteRead, ledger, aggregate, members
  <2> QED
    BY <2>1, <2>2, Zenon
<1>7. CASE MemberReceipt
  <2>1. ~Ready(at) /\ at \in Members
    BY <1>0, <1>7 DEF MemberReceipt, StageInv, MemberInv, Ready, DECISIONS
  <2>2. \A m \in Members : Ready(m) => Ready(m)'
    BY <1>0, <1>7, <2>1 DEF MemberReceipt, Ready, TypeOK
  <2> QED
    BY <1>1, <1>7, <2>2 DEF MemberReceipt, ledger, aggregate
<1>8. CASE MemberPointer
  <2>1. \A m \in Members : Ready(m) => Ready(m)'
    BY <1>0, <1>8 DEF MemberPointer, StageInv, Ready, TypeOK
  <2> QED
    BY <1>1, <1>8, <2>1 DEF MemberPointer, ledger, aggregate
<1>9. CASE FinishMember
  <2>1. \A m \in Members : decision' # "aborted" /\ Ready(m) => Ready(m)'
    BY <1>0, <1>9 DEF FinishMember, FinishInv, Ready, TypeOK, DECISIONS, ledger
  <2> QED
    BY <1>1, <1>9, <2>1 DEF FinishMember, ledger, aggregate
<1>10. CASE FinishRetire
  <2>1. \A m \in Members : decision' # "aborted" /\ Ready(m) => Ready(m)'
    BY <1>0, <1>10, Zenon DEF FinishRetire, FinishInv, Ready, TypeOK, DECISIONS, ledger
  <2> QED
    BY <1>1, <1>10, <2>1 DEF FinishRetire, ledger, aggregate
<1>11. CASE \E m \in Members : OrdinaryCommit(m)
  <2>1. \A m \in Members : Ready(m) => Ready(m)'
    BY <1>0, <1>11, Zenon DEF OrdinaryCommit, Replaceable, Staged, Ready, TypeOK
  <2> QED
    BY <1>1, <1>11, <2>1 DEF OrdinaryCommit, ledger, aggregate
<1>12. CASE FinishEnter \/ WriteTombstone \/ FinishSkip \/ ApplyEffect \/ RecordEffect \/ FinishCheck
  BY <1>1, <1>2, <1>12 DEF FinishEnter, WriteTombstone, FinishSkip, ApplyEffect, RecordEffect, FinishCheck,
                           ledger, aggregate, members
<1>13. CASE FinishAggregate \/ ClearGroup \/ FinishAnswer \/ FinishCrash
  BY <1>1, <1>2, <1>13 DEF FinishAggregate, ClearGroup, FinishAnswer, FinishCrash, ledger, aggregate, members
<1> QED
  BY <1>3, <1>4, <1>5, <1>6, <1>7, <1>8, <1>9, <1>10, <1>11, <1>12, <1>13 DEF Next, StageStep, FinishStep

\* The lead's effect is recorded before FINISH goes on to another member.
LEMMA EffectStep == ASSUME GroupInv, Next PROVE EffectInv'
<1> SUFFICES ASSUME HasEffect PROVE EffectInv'
  BY DEF EffectInv
<1>0. /\ TypeOK /\ MemberInv /\ FinishInv /\ WholeInv
      /\ fin = "record" \/ applied => world
      /\ decision = "committed" /\ (fin = "retire" \/ (fin = "member" /\ fat > 1)) => applied
      /\ \A m \in Members : ptr[m] = "after" => world
  BY DEF GroupInv, EffectInv
<1>1. ASSUME UNCHANGED <<fin, fat, world, applied>>, decision' = decision \/ fin = "idle",
             \A m \in Members : ptr'[m] = "after" => ptr[m] = "after"
      PROVE  EffectInv'
  BY <1>0, <1>1 DEF EffectInv
<1>2. CASE Decide
  BY <1>0, <1>1, <1>2, Zenon DEF Decide, FinishInv, members, DECISIONS
<1>3. CASE GroupBegin \/ BeginActive \/ BeginReceipt \/ MemberEnter \/ MemberReceipt \/ StageCrash
  BY <1>1, <1>3, Zenon DEF GroupBegin, BeginActive, BeginReceipt, MemberEnter, MemberReceipt, StageCrash, ledger, members
<1>4. CASE CompleteRead \/ CompleteWrite \/ GroupAnswer
  BY <1>1, <1>4, Zenon DEF CompleteRead, CompleteWrite, GroupAnswer, ledger, members
<1>5. CASE MemberPointer
  BY <1>0, <1>1, <1>5, Zenon DEF MemberPointer, ledger, TypeOK
<1>6. CASE \E m \in Members : OrdinaryCommit(m)
  BY <1>0, <1>6 DEF OrdinaryCommit, Replaceable, EffectsOutstanding, Staged, EffectInv, ledger, TypeOK
<1>7. CASE FinishEnter \/ FinishCheck \/ FinishAnswer \/ FinishCrash
  BY <1>0, <1>7 DEF FinishEnter, FinishCheck, FinishAnswer, FinishCrash, EffectInv, ledger, members
<1>8. CASE WriteTombstone \/ FinishAggregate \/ ClearGroup
  BY <1>0, <1>8 DEF WriteTombstone, FinishAggregate, ClearGroup, EffectInv, ledger, members
<1>9. CASE FinishSkip
  <2>1. decision = "committed" => fat # 1
    BY <1>0, <1>9, LeadIsMember DEF FinishSkip, MemberInv, WholeInv, Ready
  <2>2. decision = "committed" => fat > 1
    BY <1>9, <2>1, GroupAssumption DEF FinishSkip, Members
  <2> QED
    BY <1>0, <1>9, <2>2 DEF FinishSkip, EffectInv, ledger, members
<1>10. CASE FinishMember
  <2>1. fat # 1 => fat > 1
    BY <1>10, GroupAssumption DEF FinishMember, Members
  <2> QED
    BY <1>0, <1>10, <2>1 DEF FinishMember, EffectInv, ledger
<1>11. CASE ApplyEffect \/ RecordEffect
  BY <1>0, <1>11, Zenon DEF ApplyEffect, RecordEffect, EffectInv, ledger
<1>12. CASE FinishRetire
  BY <1>0, <1>12 DEF FinishRetire, FinishInv, EffectInv, Staged, ledger, TypeOK, DECISIONS
<1> QED
  BY <1>2, <1>3, <1>4, <1>5, <1>6, <1>7, <1>8, <1>9, <1>10, <1>11, <1>12 DEF Next, StageStep, FinishStep

\* Without overlapping calls the aggregate and its index entry outlive every prepared member.
LEMMA CalmStep == ASSUME GroupInv, Next PROVE CalmInv'
<1> SUFFICES ASSUME ~overlapped' PROVE CalmInv'
  BY DEF CalmInv
<1>0. TypeOK /\ StageInv /\ FinishInv /\ MemberInv
  BY DEF GroupInv
<1>1. /\ st = "idle" \/ fin = "idle"
      /\ st \in {"active", "begin"} => agg = "none"
      /\ st \in {"member", "receipt", "pointer", "complete", "answer"} => agg = "prepared"
      /\ agg = "prepared" \/ st = "begin" => active
      /\ agg # "prepared" \/ fin = "aggregate" => \A m \in Members : rcpt[m] # "prepared"
      /\ fin = "tombstone" => agg = "none"
      /\ fin \in {"clear", "answer"} \/ finished => agg # "prepared" /\ st = "idle" /\ (agg = "none" => tomb)
  BY Zenon DEF GroupInv, CalmInv, Next
<1>2. st' = "idle" \/ fin' = "idle"
  BY Zenon DEF Next
<1>3. CASE Decide \/ \E m \in Members : OrdinaryCommit(m)
  BY <1>1, <1>3, Zenon DEF Decide, OrdinaryCommit, CalmInv, ledger, aggregate, members
<1>4. CASE GroupBegin \/ BeginActive \/ BeginReceipt
  BY <1>1, <1>2, <1>4, Zenon DEF GroupBegin, BeginActive, BeginReceipt, CalmInv, ledger, aggregate, members
<1>5. CASE MemberEnter \/ MemberPointer \/ StageCrash
  BY <1>1, <1>2, <1>5 DEF MemberEnter, MemberPointer, StageCrash, CalmInv, ledger, aggregate, members
<1>6. CASE MemberReceipt
  BY <1>1, <1>2, <1>6, Zenon DEF MemberReceipt, CalmInv, ledger, aggregate
<1>7. CASE CompleteRead \/ CompleteWrite \/ GroupAnswer
  BY <1>1, <1>2, <1>7, Zenon DEF CompleteRead, CompleteWrite, GroupAnswer, CalmInv, ledger, aggregate, members
<1>8. CASE FinishEnter \/ FinishSkip \/ ApplyEffect \/ RecordEffect \/ FinishRetire
  BY <1>1, <1>2, <1>8, Zenon DEF FinishEnter, FinishSkip, ApplyEffect, RecordEffect, FinishRetire, CalmInv, ledger, aggregate, members
<1>9. CASE WriteTombstone \/ ClearGroup \/ FinishAnswer \/ FinishCrash
  BY <1>1, <1>2, <1>9, Zenon DEF WriteTombstone, ClearGroup, FinishAnswer, FinishCrash, CalmInv, ledger, aggregate, members
<1>10. CASE FinishMember
  <2>1. \A m \in Members : rcpt'[m] = rcpt[m] \/ rcpt'[m] = decision
    BY <1>0, <1>10 DEF FinishMember, TypeOK
  <2>2. decision # "prepared"
    BY <1>0, <1>10, Zenon DEF FinishMember, FinishInv, DECISIONS
  <2> QED
    BY <1>1, <1>2, <1>10, <2>1, <2>2, Zenon DEF FinishMember, CalmInv, ledger, aggregate
<1>11. CASE FinishCheck
  <2>1. fin' = "aggregate" => \A m \in Members : rcpt[m] # "prepared"
    BY <1>0, <1>11 DEF FinishCheck, FinishInv, DECISIONS
  <2>2. fin' = "clear" => agg # "prepared" /\ agg # "none"
    BY <1>11 DEF FinishCheck, DECISIONS
  <2>3. fin' \in {"clear", "aggregate", "idle"} /\ st' = "idle"
    BY <1>1, <1>11 DEF FinishCheck
  <2> QED
    BY <1>1, <1>2, <1>11, <2>1, <2>2, <2>3 DEF FinishCheck, CalmInv, ledger, aggregate, members
<1>12. CASE FinishAggregate
  <2>1. decision # "prepared" /\ decision # "none"
    BY <1>0, <1>12 DEF FinishAggregate, FinishInv, DECISIONS
  <2> QED
    BY <1>1, <1>2, <1>12, <2>1 DEF FinishAggregate, CalmInv, ledger, members
<1> QED
  BY <1>3, <1>4, <1>5, <1>6, <1>7, <1>8, <1>9, <1>10, <1>11, <1>12 DEF Next, StageStep, FinishStep

\* GroupInv holds in every reachable state of CardGroup: receipts and pointers follow the one decision, whatever
\* crashes, replays and overlaps of STAGE and FINISH there are.
THEOREM GroupInductive == Spec => []GroupInv
<1>1. GroupInv /\ [Next]_vars => GroupInv'
  <2> SUFFICES ASSUME GroupInv, [Next]_vars PROVE GroupInv'
    OBVIOUS
  <2>1. CASE Next
    BY <2>1, TypeStep, MemberStep, StageKept, FinishKept, WholeStep, EffectStep, CalmStep DEF GroupInv
  <2>2. CASE UNCHANGED vars
    <3>1. TypeOK'
      BY TypeStep, Zenon
    <3>2. MemberInv' /\ StageInv' /\ FinishInv'
      BY <2>2, Zenon DEF GroupInv, MemberInv, StageInv, FinishInv, vars
    <3>3. WholeInv' /\ EffectInv' /\ CalmInv'
      BY <2>2 DEF GroupInv, WholeInv, Ready, EffectInv, CalmInv, vars
    <3> QED
      BY <3>1, <3>2, <3>3 DEF GroupInv
  <2> QED
    BY <2>1, <2>2
<1> QED
  BY <1>1, InitGroup, PTL DEF Spec

\* Readers see a group of any size as one change (resolve_pointer of its members, at every point of FINISH).
THEOREM OneChange == Spec => []GroupIsOneChange
<1>1. GroupInv => GroupIsOneChange
  <2> SUFFICES ASSUME GroupInv, NEW m \in Members
               PROVE  /\ Serves(m) = "after" => decision = "committed"
                      /\ Serves(m) = "before" => decision # "committed"
    BY DEF GroupIsOneChange
  <2>0. MemberInv /\ WholeInv /\ ptr[m] \in {"before", "tx", "after"}
    BY DEF GroupInv, TypeOK
  <2>1. decision = "committed" => Ready(m)
    BY <2>0 DEF MemberInv, WholeInv
  <2>2. Followed(m) \in DECISIONS => Followed(m) = decision
    BY <2>0 DEF Followed, MemberInv
  <2>3. CASE ptr[m] # "tx"
    <3>1. Serves(m) = ptr[m]
      BY <2>3 DEF Serves
    <3>2. ptr[m] = "after" => decision = "committed"
      BY <2>0 DEF MemberInv, DECISIONS
    <3> QED
      BY <2>1, <3>1, <3>2 DEF Ready
  <2>4. CASE ptr[m] = "tx"
    <3>1. CASE Followed(m) = "aborted"
      BY <2>2, <2>4, <3>1 DEF Serves, DECISIONS
    <3>2. CASE Followed(m) # "aborted"
      BY <2>2, <2>4, <3>2 DEF Serves, DECISIONS
    <3> QED
      BY <3>1, <3>2
  <2> QED
    BY <2>3, <2>4
<1> QED
  BY <1>1, GroupInductive, PTL

\* No member is served AFTER before the lead's effect has happened (_effects_outstanding of a group).
THEOREM EffectFirst == Spec => []EffectBeforeServing
<1>1. GroupInv => EffectBeforeServing
  <2> SUFFICES ASSUME GroupInv, HasEffect, NEW m \in Members, Serves(m) = "after" PROVE world
    BY DEF EffectBeforeServing
  <2>0. (applied => world) /\ (ptr[m] = "after" => world) /\ ptr[m] \in {"before", "tx", "after"}
    BY DEF GroupInv, EffectInv, TypeOK
  <2>1. ptr[m] = "after" \/ (ptr[m] = "tx" /\ ~EffectsOutstanding)
    BY <2>0 DEF Serves
  <2> QED
    BY <2>0, <2>1 DEF EffectsOutstanding
<1> QED
  BY <1>1, GroupInductive, PTL

\* Recovery finds every prepared member through its group's index entry while calls do not overlap (list_in_doubt).
THEOREM PreparedIsIndexed == Spec => []MemberFenceIsIndexed
<1>1. GroupInv => MemberFenceIsIndexed
  BY DEF GroupInv, CalmInv, MemberFenceIsIndexed
<1> QED
  BY <1>1, GroupInductive, PTL

\* A group whose FINISH answered is closed for good, without overlapping calls (finish_group, begin_group).
THEOREM FinishedIsClosed == Spec => []FinishedGroupIsClosed
<1>1. GroupInv => FinishedGroupIsClosed
  BY DEF GroupInv, CalmInv, FinishedGroupIsClosed
<1> QED
  BY <1>1, GroupInductive, PTL
=============================================================================
