---------------------------- MODULE CardReadSet ----------------------------
(***************************************************************************)
(* Read sets: a transaction that only holds Cards at expected revisions    *)
(* until its decision and writes none of them.                             *)
(*                                                                         *)
(* PREPARE takes every Card's section, verifies and fences each, and writes *)
(* the receipt last.  FINISH takes no section: it releases a prepared read *)
(* set's fences, or writes a tombstone for one that has no receipt.        *)
(***************************************************************************)
EXTENDS Naturals, FiniteSets

CONSTANTS Cards, Txns, NoTxn,
          Holds,    \* Holds[t]: the Cards t reads
          Written,  \* the Cards that ordinary commits change
          MaxRev    \* bound on revision numbers

ASSUME ReadSetAssumption == /\ NoTxn \notin Txns
                            /\ Holds \in [Txns -> SUBSET Cards]
                            /\ Written \subseteq Cards
                            /\ MaxRev \in Nat \ {0}

VARIABLES
    decision, acked, finished,  \* the coordinator's side of each transaction
    expected,  \* expected[t]: the revisions t read, a function on Holds[t], or none yet
    rev,       \* rev[c]: a Card's current revision number
    rcpt, active, tomb,  \* receipts, index entries, tombstones
    fence,     \* fence[c]: card-read-fence.json
    section,   \* section[c]: which PREPARE is inside the Card's section
    st, todo,  \* PREPARE's next step and the Cards still to fence
    fin,       \* FINISH's next step
    overlapped \* (history) transactions whose FINISH found no receipt while a PREPARE was in flight

ledger == <<decision, acked, finished, expected>>
files == <<rev, rcpt, active, tomb, fence>>
vars == <<decision, acked, finished, expected, rev, rcpt, active, tomb, fence, section, st, todo, fin,
          overlapped>>

DECISIONS == {"committed", "aborted"}
PortAnswers(t) == {decision[t], "undecided"}
Read(t) == expected[t] # {}
ExpectedRev(t, c) == (CHOOSE f \in expected[t] : TRUE)[c]

\* _live_read_fence: a fence of an absent or decided transaction holds nothing.
LiveFence(c) == fence[c] # NoTxn /\ rcpt[fence[c]] = "prepared"

Init == /\ decision = [t \in Txns |-> "undecided"]
        /\ acked = {} /\ finished = {}
        /\ expected = [t \in Txns |-> {}]
        /\ rev = [c \in Cards |-> 1]
        /\ rcpt = [t \in Txns |-> "none"]
        /\ active = {} /\ tomb = {}
        /\ fence = [c \in Cards |-> NoTxn]
        /\ section = [c \in Cards |-> NoTxn]
        /\ st = [t \in Txns |-> "idle"]
        /\ todo = [t \in Txns |-> {}]
        /\ fin = [t \in Txns |-> "idle"]
        /\ overlapped = {}

\* The caller reads the Cards it will depend on.
Plan(t) == /\ ~Read(t)
           /\ expected' = [expected EXCEPT ![t] = {[c \in Holds[t] |-> rev[c]]}]
           /\ UNCHANGED <<decision, acked, finished, files, section, st, todo, fin>>

Decide(t) == /\ Read(t) /\ decision[t] = "undecided"
             /\ \E d \in IF t \in acked THEN DECISIONS ELSE {"aborted"} :
                  decision' = [decision EXCEPT ![t] = d]
             /\ UNCHANGED <<acked, finished, expected, files, section, st, todo, fin>>

\* An ordinary commit of a Card refuses a live fence.
OrdinaryCommit(c) == /\ section[c] = NoTxn /\ ~LiveFence(c) /\ rev[c] < MaxRev
                     /\ rev' = [rev EXCEPT ![c] = @ + 1]
                     /\ UNCHANGED <<ledger, rcpt, active, tomb, fence, section, st, todo, fin>>
----------------------------------------------------------------------------
Enter(t) == /\ \A c \in Holds[t] : section[c] = NoTxn
            /\ section' = [c \in Cards |-> IF c \in Holds[t] THEN t ELSE section[c]]
Exit(t) == section' = [c \in Cards |-> IF section[c] = t THEN NoTxn ELSE section[c]]
Stop(t) == /\ st' = [st EXCEPT ![t] = "idle"] /\ todo' = [todo EXCEPT ![t] = {}] /\ Exit(t)

\* Mutant: the tombstone is not read.
PrepareEnterIgnoresTombstone(t) ==
    /\ st[t] = "idle" /\ Read(t)
    /\ Enter(t)
    /\ rcpt[t] = "none"
    /\ st' = [st EXCEPT ![t] = "active"] /\ todo' = [todo EXCEPT ![t] = Holds[t]]
    /\ UNCHANGED <<ledger, files, fin>>

\* prepare_read_set: no tombstone, no decision the port tells of.
PrepareEnter(t) ==
    /\ st[t] = "idle" /\ Read(t)
    /\ Enter(t)
    /\ rcpt[t] = "none" /\ t \notin tomb
    /\ \E a \in PortAnswers(t) : a = "undecided"
    /\ st' = [st EXCEPT ![t] = "active"] /\ todo' = [todo EXCEPT ![t] = Holds[t]]
    /\ UNCHANGED <<ledger, files, fin>>

\* A replay of a prepared read set only answers again.
PrepareReplay(t) ==
    /\ st[t] = "idle" /\ rcpt[t] = "prepared" /\ \A c \in Holds[t] : section[c] = NoTxn
    /\ acked' = acked \cup {t}
    /\ UNCHANGED <<decision, finished, expected, files, section, st, todo, fin>>

\* Mutant: the index entry is left out.
WriteActiveSkipped(t) == /\ st[t] = "active"
                         /\ st' = [st EXCEPT ![t] = "fence"]
                         /\ UNCHANGED <<ledger, files, section, todo, fin>>

WriteActive(t) == /\ st[t] = "active"
                  /\ active' = active \cup {t}
                  /\ st' = [st EXCEPT ![t] = "fence"]
                  /\ UNCHANGED <<ledger, rev, rcpt, tomb, fence, section, todo, fin>>

\* Mutant: the revision is not looked at.
ReservableAtAnyRevision(t, c) == LiveFence(c) => fence[c] = t

\* _reserve_reads on one Card, or its refusal.
Reservable(t, c) == (LiveFence(c) => fence[c] = t) /\ rev[c] = ExpectedRev(t, c)

ReserveRead(t, c) == /\ st[t] = "fence" /\ c \in todo[t]
                     /\ Reservable(t, c)
                     /\ fence' = [fence EXCEPT ![c] = t]
                     /\ todo' = [todo EXCEPT ![t] = @ \ {c}]
                     /\ UNCHANGED <<ledger, rev, rcpt, active, tomb, section, st, fin>>

ReserveRefused(t, c) == /\ st[t] = "fence" /\ c \in todo[t]
                        /\ ~Reservable(t, c)
                        /\ Stop(t)
                        /\ UNCHANGED <<ledger, files, fin>>

\* The receipt makes every fence live at once.
WriteReceipt(t) == /\ st[t] = "fence" /\ todo[t] = {}
                   /\ rcpt' = [rcpt EXCEPT ![t] = "prepared"]
                   /\ st' = [st EXCEPT ![t] = "answer"]
                   /\ UNCHANGED <<ledger, rev, active, tomb, fence, section, todo, fin>>

PrepareAnswer(t) == /\ st[t] = "answer"
                    /\ acked' = acked \cup {t}
                    /\ Stop(t)
                    /\ UNCHANGED <<decision, finished, expected, files, fin>>

PrepareCrash(t) == st[t] # "idle" /\ Stop(t) /\ UNCHANGED <<ledger, files, fin>>
----------------------------------------------------------------------------
FinGoto(t, s) == fin' = [fin EXCEPT ![t] = s]

\* _finish_read_set reads the receipt and follows one of its two branches.
FinishEnter(t) ==
    /\ fin[t] = "idle" /\ decision[t] \in DECISIONS
    /\ FinGoto(t, IF rcpt[t] = "none" THEN "unstaged" ELSE "receipt")
    /\ rcpt[t] = "none" => decision[t] = "aborted"
    /\ UNCHANGED <<ledger, files, section, st, todo>>

\* abort_unstaged looks again, then writes the tombstone.
CheckUnstaged(t) == /\ fin[t] = "unstaged"
                    /\ FinGoto(t, IF rcpt[t] = "none" THEN "tombstone" ELSE "receipt")
                    /\ UNCHANGED <<ledger, files, section, st, todo>>

WriteTombstone(t) == /\ fin[t] = "tombstone"
                     /\ tomb' = tomb \cup {t}
                     /\ FinGoto(t, "inactive")
                     /\ UNCHANGED <<ledger, rev, rcpt, active, fence, section, st, todo>>

\* finish_read_set: the decided receipt, the fences, the index entry.
WriteDecided(t) == /\ fin[t] = "receipt"
                   /\ rcpt' = [rcpt EXCEPT ![t] = decision[t]]
                   /\ FinGoto(t, "release")
                   /\ UNCHANGED <<ledger, rev, active, tomb, fence, section, st, todo>>

ReleaseReads(t) == /\ fin[t] = "release"
                   /\ fence' = [c \in Cards |-> IF c \in Holds[t] /\ fence[c] = t THEN NoTxn ELSE fence[c]]
                   /\ FinGoto(t, "inactive")
                   /\ UNCHANGED <<ledger, rev, rcpt, active, tomb, section, st, todo>>

DropActive(t) == /\ fin[t] = "inactive"
                 /\ active' = active \ {t}
                 /\ FinGoto(t, "retire")
                 /\ UNCHANGED <<ledger, rev, rcpt, tomb, fence, section, st, todo>>

\* retire_intent refuses unless what is on storage is terminal; then FINISH answers.
FinishAnswer(t) == /\ fin[t] = "retire"
                   /\ IF rcpt[t] \in DECISIONS \/ (rcpt[t] = "none" /\ t \in tomb)
                        THEN finished' = finished \cup {t} ELSE UNCHANGED finished
                   /\ FinGoto(t, "idle")
                   /\ UNCHANGED <<decision, acked, expected, files, section, st, todo>>

FinishCrash(t) == /\ fin[t] # "idle" /\ FinGoto(t, "idle")
                  /\ UNCHANGED <<ledger, files, section, st, todo>>
----------------------------------------------------------------------------
PrepareStep(t) == \/ WriteActive(t) \/ WriteReceipt(t) \/ PrepareAnswer(t)
                  \/ \E c \in Cards : ReserveRead(t, c) \/ ReserveRefused(t, c)
FinishStep(t) == \/ CheckUnstaged(t) \/ WriteTombstone(t) \/ WriteDecided(t)
                 \/ ReleaseReads(t) \/ DropActive(t) \/ FinishAnswer(t)

Next == /\ \/ \E t \in Txns : \/ Plan(t) \/ Decide(t)
                              \/ PrepareEnter(t) \/ PrepareReplay(t) \/ PrepareStep(t) \/ PrepareCrash(t)
                              \/ FinishEnter(t) \/ FinishStep(t) \/ FinishCrash(t)
           \/ \E c \in Written : OrdinaryCommit(c)
        /\ overlapped' = overlapped \cup {t \in Txns : st'[t] # "idle" /\ fin'[t] \in {"unstaged", "tombstone"}}

Spec == Init /\ [][Next]_vars
----------------------------------------------------------------------------
TypeOK == /\ decision \in [Txns -> {"undecided"} \cup DECISIONS]
          /\ acked \subseteq Txns /\ finished \subseteq Txns
          /\ \A t \in Txns : expected[t] \subseteq [Holds[t] -> 1..MaxRev]
          /\ rev \in [Cards -> 1..MaxRev]
          /\ rcpt \in [Txns -> {"none", "prepared"} \cup DECISIONS]
          /\ active \subseteq Txns /\ tomb \subseteq Txns
          /\ fence \in [Cards -> Txns \cup {NoTxn}]
          /\ section \in [Cards -> Txns \cup {NoTxn}]
          /\ st \in [Txns -> {"idle", "active", "fence", "answer"}]
          /\ todo \in [Txns -> SUBSET Cards]
          /\ fin \in [Txns -> {"idle", "unstaged", "tombstone", "receipt", "release", "inactive", "retire"}]
          /\ overlapped \subseteq Txns

\* At the recorded commit every Card of the read set is at the revision that was
\* read: no write has landed on any of them since (W502).
CommitOnReadState ==
    [][\A t \in Txns : decision[t] # "committed" /\ decision'[t] = "committed" =>
          \A c \in Holds[t] : rev[c] = ExpectedRev(t, c)]_vars

\* While it is prepared and undecided, a read set holds every one of its Cards
\* with its own fence: another read set never takes one over.
PreparedHoldsAll == \A t \in Txns : rcpt[t] = "prepared" => \A c \in Holds[t] : fence[c] = t

\* Recovery can always find what holds a Card: a prepared read set is in the
\* in-flight index, unless its FINISH found no receipt because PREPARE was in flight.
ReadFenceIsIndexed == \A t \in Txns \ overlapped : rcpt[t] = "prepared" => t \in active

\* Once FINISH has answered the read set holds no Card any more, again unless
\* it overtook a PREPARE.
FinishedHoldsNothing == \A t \in finished \ overlapped : \A c \in Cards : ~(LiveFence(c) /\ fence[c] = t)

\* The same with overlapping calls: an unprepared read set aborts by tombstone,
\* a prepared one releases its fences (_finish_read_set).
EveryFinishedHoldsNothing == \A t \in finished : \A c \in Cards : ~(LiveFence(c) /\ fence[c] = t)
=============================================================================
