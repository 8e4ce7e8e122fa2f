----------------------------- MODULE CardGroup -----------------------------
(***************************************************************************)
(* A card group: several Cards under one transaction decision.             *)
(*                                                                         *)
(* STAGE writes the aggregate receipt (staged false), stages every member  *)
(* under its own Card section in canonical order, and marks the aggregate  *)
(* staged.  FINISH materializes the recorded decision on every member, the *)
(* lead with the group's effects first, and writes the aggregate's         *)
(* decision last.  Either may stop between any two durable writes.         *)
(*                                                                         *)
(* A member's staging is the protocol of CardTransaction; here its receipt *)
(* and marker are one write and its revision and pointer another.          *)
(***************************************************************************)
EXTENDS Naturals, FiniteSets

CONSTANTS N,          \* number of members, 1 is the lead
          HasEffect   \* does the lead carry an effect

ASSUME GroupAssumption == N \in Nat \ {0} /\ HasEffect \in BOOLEAN

VARIABLES
    decision,  \* the coordinator's one decision for the group
    acked,     \* the group's prepare was acknowledged
    finished,  \* the group's finish was acknowledged
    agg,       \* state of the aggregate receipt
    staged,    \* its staged flag
    active,    \* the group's index entry exists
    tomb,      \* its abort tombstone exists
    rcpt,      \* rcpt[m]: state of a member's receipt
    ptr,       \* ptr[m]: the member's pointer: before, tx (staged), after
    moved,     \* moved[m]: an ordinary write replaced the member's original
    world, applied,  \* the lead's effect happened; it is recorded
    section,   \* section[m]: who is inside the member's Card section
    st, at,    \* the STAGE call's next step and member
    fin, fat,  \* the FINISH call's next step and member
    overlapped \* (history) a STAGE and a FINISH call were in flight at once

ledger == <<decision, acked, finished>>
aggregate == <<agg, staged, active, tomb>>
members == <<rcpt, ptr, moved, world, applied>>
vars == <<decision, acked, finished, agg, staged, active, tomb, rcpt, ptr, moved, world, applied,
          section, st, at, fin, fat, overlapped>>

Members == 1..N
DECISIONS == {"committed", "aborted"}
PortAnswers == {decision, "undecided"}
Staged(m) == ptr[m] = "tx"

\* Mutant: the lead's decided receipt is enough.
EffectsOutstandingLeadOnly == HasEffect /\ rcpt[1] # "committed"

\* _effects_outstanding: a group's effects live on its lead.
EffectsOutstanding == HasEffect /\ (rcpt[1] # "committed" \/ ~applied)

\* assert_replaceable
Replaceable(m) == /\ rcpt[m] # "prepared"
                  /\ Staged(m) /\ rcpt[m] = "committed" => ~EffectsOutstanding

Init == /\ decision = "undecided" /\ acked = FALSE /\ finished = FALSE
        /\ agg = "none" /\ staged = FALSE /\ active = FALSE /\ tomb = FALSE
        /\ rcpt = [m \in Members |-> "none"]
        /\ ptr = [m \in Members |-> "before"]
        /\ moved = [m \in Members |-> FALSE]
        /\ world = FALSE /\ applied = FALSE
        /\ section = [m \in Members |-> "free"]
        /\ st = "idle" /\ at = 1 /\ fin = "idle" /\ fat = 1
        /\ overlapped = FALSE

Take(m, who) == section[m] = "free" /\ section' = [section EXCEPT ![m] = who]
Drop(who) == section' = [m \in Members |-> IF section[m] = who THEN "free" ELSE section[m]]

\* The coordinator: a commit needs the acknowledged prepare, an abort nothing.
Decide == /\ decision = "undecided"
          /\ decision' \in IF acked THEN DECISIONS ELSE {"aborted"}
          /\ UNCHANGED <<acked, finished, aggregate, members, section, st, at, fin, fat>>

\* An ordinary commit of a member's Card, under its section.
OrdinaryCommit(m) ==
    /\ ~moved[m] /\ section[m] = "free" /\ Replaceable(m)
    /\ ptr' = IF Staged(m) THEN [ptr EXCEPT ![m] = IF rcpt[m] = "committed" THEN "after" ELSE "before"] ELSE ptr
    /\ moved' = [moved EXCEPT ![m] = TRUE]
    /\ UNCHANGED <<ledger, aggregate, rcpt, world, applied, section, st, at, fin, fat>>
----------------------------------------------------------------------------
\* begin_group under the lead's section: a replay of an undecided aggregate goes
\* on; a first begin refuses after a tombstone or a decision it learns of.
GroupBegin ==
    /\ st = "idle"
    /\ \/ /\ agg = "none" /\ ~tomb
          /\ \E a \in PortAnswers : a = "undecided"
          /\ Take(1, "stage")
          /\ st' = "active"
       \/ /\ agg = "prepared" /\ section[1] = "free"
          /\ st' = "member" /\ UNCHANGED section
    /\ at' = 1
    /\ UNCHANGED <<ledger, aggregate, members, fin, fat>>

\* Mutant: the group's index entry is left out.
BeginActiveSkipped == /\ st = "active" /\ st' = "begin"
                      /\ UNCHANGED <<ledger, aggregate, members, section, at, fin, fat>>

BeginActive == /\ st = "active" /\ active' = TRUE /\ st' = "begin"
               /\ UNCHANGED <<ledger, agg, staged, tomb, members, section, at, fin, fat>>

BeginReceipt == /\ st = "begin" /\ agg' = "prepared" /\ staged' = FALSE
                /\ st' = "member" /\ Drop("stage")
                /\ UNCHANGED <<ledger, active, tomb, members, at, fin, fat>>

\* stage of member `at` under its section: fresh, resumed, already staged, or refused.
MemberEnter ==
    /\ st = "member" /\ at \in Members /\ section[at] = "free"
    /\ \/ /\ rcpt[at] = "none" /\ \E a \in PortAnswers : a = "undecided"
          /\ Replaceable(at) /\ ~moved[at]
          /\ Take(at, "stage") /\ st' = "receipt" /\ UNCHANGED at
       \/ /\ rcpt[at] = "prepared" /\ \E a \in PortAnswers : a # "aborted"
          /\ ~Staged(at) /\ ~moved[at]
          /\ Take(at, "stage") /\ st' = "pointer" /\ UNCHANGED at
       \/ /\ rcpt[at] = "prepared" /\ \E a \in PortAnswers : a # "aborted"
          /\ Staged(at)
          /\ at' = at + 1 /\ UNCHANGED <<st, section>>
       \/ /\ rcpt[at] \in DECISIONS \/ decision # "undecided" \/ moved[at]
          /\ st' = "idle" /\ at' = 1 /\ UNCHANGED section
    /\ UNCHANGED <<ledger, aggregate, members, fin, fat>>

MemberReceipt == /\ st = "receipt"
                 /\ rcpt' = [rcpt EXCEPT ![at] = "prepared"]
                 /\ st' = "pointer"
                 /\ UNCHANGED <<ledger, aggregate, ptr, moved, world, applied, section, at, fin, fat>>

MemberPointer == /\ st = "pointer"
                 /\ ptr' = [ptr EXCEPT ![at] = "tx"]
                 /\ at' = at + 1 /\ st' = "member" /\ Drop("stage")
                 /\ UNCHANGED <<ledger, aggregate, rcpt, moved, world, applied, fin, fat>>

\* complete_group: the aggregate and every member are read ...
CompleteRead ==
    /\ st = "member" /\ at = N + 1
    /\ \/ agg = "prepared" /\ staged /\ st' = "answer"
       \/ /\ agg = "prepared" /\ ~staged
          /\ \A m \in Members : rcpt[m] = "prepared" /\ Staged(m)
          /\ st' = "complete"
       \/ agg \in DECISIONS /\ st' = "idle"
       \/ /\ agg = "prepared" /\ ~staged
          /\ \E m \in Members : ~(rcpt[m] = "prepared" /\ Staged(m))
          /\ st' = "idle"
    /\ at' = 1
    /\ UNCHANGED <<ledger, aggregate, members, section, fin, fat>>

\* ... and the aggregate it read is written back with staged true.
CompleteWrite == /\ st = "complete"
                 /\ agg' = "prepared" /\ staged' = TRUE
                 /\ st' = "answer"
                 /\ UNCHANGED <<ledger, active, tomb, members, section, at, fin, fat>>

GroupAnswer == /\ st = "answer" /\ acked' = TRUE /\ st' = "idle"
               /\ UNCHANGED <<decision, finished, aggregate, members, section, at, fin, fat>>

StageCrash == /\ st # "idle" /\ st' = "idle" /\ at' = 1 /\ Drop("stage")
              /\ UNCHANGED <<ledger, aggregate, members, fin, fat>>
----------------------------------------------------------------------------
\* Mutant: a group that was not staged as a whole is aborted by tombstone.
FinishEnterUnstaged ==
    /\ fin = "idle" /\ decision \in DECISIONS
    /\ \/ ~staged /\ decision = "aborted" /\ Take(1, "finish") /\ fin' = "tombstone"
       \/ staged /\ fin' = "member" /\ UNCHANGED section
    /\ fat' = 1
    /\ UNCHANGED <<ledger, aggregate, members, st, at>>

\* _finish_group: nothing begun and aborted takes the lead's section for a
\* tombstone; otherwise every member, a commit only of a group staged as a whole.
FinishEnter ==
    /\ fin = "idle" /\ decision \in DECISIONS
    /\ \/ agg = "none" /\ decision = "aborted" /\ Take(1, "finish") /\ fin' = "tombstone"
       \/ /\ agg # "none" /\ (decision = "committed" => staged)
          /\ fin' = "member" /\ UNCHANGED section
    /\ fat' = 1
    /\ UNCHANGED <<ledger, aggregate, members, st, at>>

WriteTombstone == /\ fin = "tombstone" /\ tomb' = TRUE /\ fin' = "clear"
                  /\ UNCHANGED <<ledger, agg, staged, active, members, section, st, at, fat>>

\* _decide_group passes over a member without a receipt.
FinishSkip == /\ fin = "member" /\ fat \in Members /\ rcpt[fat] = "none"
              /\ fat' = fat + 1
              /\ UNCHANGED <<ledger, aggregate, members, section, st, at, fin>>

\* decide_transaction of one member: the decided receipt, a commit only over its pointer.
FinishMember ==
    /\ fin = "member" /\ fat \in Members /\ rcpt[fat] # "none"
    /\ rcpt[fat] = "prepared" /\ decision = "committed" => Staged(fat) /\ staged
    /\ Take(fat, "finish")
    /\ rcpt' = [rcpt EXCEPT ![fat] = decision]
    /\ fin' = IF fat = 1 /\ HasEffect /\ decision = "committed" /\ ~applied THEN "apply" ELSE "retire"
    /\ UNCHANGED <<ledger, aggregate, ptr, moved, world, applied, st, at, fat>>

ApplyEffect == /\ fin = "apply" /\ world' = TRUE /\ fin' = "record"
               /\ UNCHANGED <<ledger, aggregate, rcpt, ptr, moved, applied, section, st, at, fat>>

RecordEffect == /\ fin = "record" /\ applied' = TRUE /\ fin' = "retire"
                /\ UNCHANGED <<ledger, aggregate, rcpt, ptr, moved, world, section, st, at, fat>>

\* _retire_pointer: the plain pointer of the decided side.
FinishRetire ==
    /\ fin = "retire"
    /\ ptr' = IF Staged(fat) THEN [ptr EXCEPT ![fat] = IF rcpt[fat] = "committed" THEN "after" ELSE "before"]
                             ELSE ptr
    /\ fat' = fat + 1 /\ fin' = "member" /\ Drop("finish")
    /\ UNCHANGED <<ledger, aggregate, rcpt, moved, world, applied, st, at>>

\* finish_group: every member that has a receipt carries the decision ...
FinishCheck ==
    /\ fin = "member" /\ fat = N + 1
    /\ fin' = IF agg \in DECISIONS THEN "clear"
              ELSE IF \A m \in Members : rcpt[m] = decision \/ (rcpt[m] = "none" /\ decision = "aborted")
                   THEN "aggregate" ELSE "idle"
    /\ fat' = 1
    /\ UNCHANGED <<ledger, aggregate, members, section, st, at>>

\* ... then the aggregate's decision, last, and its index entry.
FinishAggregate == /\ fin = "aggregate" /\ agg' = decision /\ fin' = "clear"
                   /\ UNCHANGED <<ledger, staged, active, tomb, members, section, st, at, fat>>

ClearGroup == /\ fin = "clear" /\ active' = FALSE /\ fin' = "answer"
              /\ UNCHANGED <<ledger, agg, staged, tomb, members, section, st, at, fat>>

FinishAnswer == /\ fin = "answer" /\ finished' = TRUE
                /\ fin' = "idle" /\ fat' = 1 /\ Drop("finish")
                /\ UNCHANGED <<decision, acked, aggregate, members, st, at>>

FinishCrash == /\ fin # "idle" /\ fin' = "idle" /\ fat' = 1 /\ Drop("finish")
               /\ UNCHANGED <<ledger, aggregate, members, st, at>>
----------------------------------------------------------------------------
StageStep == \/ BeginActive \/ BeginReceipt \/ MemberEnter \/ MemberReceipt \/ MemberPointer
             \/ CompleteRead \/ CompleteWrite \/ GroupAnswer
FinishStep == \/ WriteTombstone \/ FinishSkip \/ FinishMember \/ ApplyEffect \/ RecordEffect
              \/ FinishRetire \/ FinishCheck \/ FinishAggregate \/ ClearGroup \/ FinishAnswer

Next == /\ \/ Decide \/ GroupBegin \/ StageStep \/ StageCrash
           \/ FinishEnter \/ FinishStep \/ FinishCrash
           \/ \E m \in Members : OrdinaryCommit(m)
        /\ overlapped' = (overlapped \/ (st' # "idle" /\ fin' # "idle"))

Spec == Init /\ [][Next]_vars
----------------------------------------------------------------------------
StageSteps == {"idle", "active", "begin", "member", "receipt", "pointer", "complete", "answer"}
FinishSteps == {"idle", "tombstone", "member", "apply", "record", "retire", "aggregate", "clear", "answer"}
States == {"none", "prepared"} \cup DECISIONS

TypeOK == /\ decision \in {"undecided"} \cup DECISIONS
          /\ {acked, finished, staged, active, tomb, world, applied, overlapped} \subseteq BOOLEAN
          /\ agg \in States
          /\ rcpt \in [Members -> States]
          /\ ptr \in [Members -> {"before", "tx", "after"}]
          /\ moved \in [Members -> BOOLEAN]
          /\ section \in [Members -> {"free", "stage", "finish"}]
          /\ st \in StageSteps /\ at \in 1..N+1
          /\ fin \in FinishSteps /\ fat \in 1..N+1

\* Mutant: a prepared member reads as BEFORE whatever the coordinator recorded.
FollowedLocally(m) == IF rcpt[m] \in DECISIONS THEN rcpt[m] ELSE "aborted"

\* What resolve_pointer serves for a member: its side, or nothing (a refusal).
Followed(m) == IF rcpt[m] \in DECISIONS THEN rcpt[m] ELSE decision
Serves(m) == CASE ptr[m] # "tx" -> ptr[m]
               [] ptr[m] = "tx" /\ Followed(m) = "aborted" -> "before"
               [] ptr[m] = "tx" /\ Followed(m) = "committed" /\ ~EffectsOutstanding -> "after"
               [] OTHER -> "refused"

\* Readers see the group as one change: from the recorded commit on no member
\* serves its original, before it none serves its candidate, whichever member
\* FINISH has reached.
GroupIsOneChange == \A m \in Members :
    /\ Serves(m) = "after" => decision = "committed"
    /\ Serves(m) = "before" => decision # "committed"

\* No member of the group is served AFTER before the lead's effect has happened.
EffectBeforeServing == HasEffect => \A m \in Members : Serves(m) = "after" => world

\* Recovery can always find a fenced member through its group's index entry,
\* as long as no STAGE and FINISH call of the group were in flight at once.
MemberFenceIsIndexed == ~overlapped => \A m \in Members : rcpt[m] = "prepared" => active

\* The same with overlapping calls: a prepared member has no index entry of its
\* own, recovery finds it through its group's entry.
EveryMemberFenceIsIndexed == \A m \in Members : rcpt[m] = "prepared" => active

\* Once the group's FINISH has answered no member is left prepared, and the
\* aggregate itself is decided or was never begun.
FinishedGroupIsClosed == finished /\ ~overlapped =>
    /\ \A m \in Members : rcpt[m] # "prepared"
    /\ agg # "prepared"
=============================================================================
