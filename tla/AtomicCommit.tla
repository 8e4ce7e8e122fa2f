---------------------------- MODULE AtomicCommit ----------------------------
(***************************************************************************)
(* What the durable decision protocol promises its users, with the ledger, *)
(* the coordinators and their messages left out: for every transaction one *)
(* decision that never changes, reached as COMMITTED only while every      *)
(* participant holds its prepared state, and participants that leave the   *)
(* prepared state only by following that decision.                         *)
(*                                                                         *)
(* DurableDecision is shown to implement this specification.               *)
(***************************************************************************)
CONSTANTS Txns, Participants

VARIABLES decision,   \* decision[t]: "none" before t begins, then its decision
          outcome     \* outcome[t][p]: what participant p holds for t

vars == <<decision, outcome>>

Outcomes == {"none", "prepared", "committed", "aborted"}

Init == /\ decision = [t \in Txns |-> "none"]
        /\ outcome = [t \in Txns |-> [p \in Participants |-> "none"]]

Begin(t) == /\ decision[t] = "none"
            /\ decision' = [decision EXCEPT ![t] = "undecided"]
            /\ UNCHANGED outcome

\* A participant stages its side of a begun transaction.  It may still do so
\* after an abort it has not heard of, never after a commit.
Prepare(t, p) == /\ decision[t] \in {"undecided", "aborted"}
                 /\ outcome[t][p] = "none"
                 /\ outcome' = [outcome EXCEPT ![t][p] = "prepared"]
                 /\ UNCHANGED decision

Commit(t) == /\ decision[t] = "undecided"
             /\ \A p \in Participants : outcome[t][p] = "prepared"
             /\ decision' = [decision EXCEPT ![t] = "committed"]
             /\ UNCHANGED outcome

Abort(t) == /\ decision[t] = "undecided"
            /\ decision' = [decision EXCEPT ![t] = "aborted"]
            /\ UNCHANGED outcome

\* COMMITTED is materialized over a prepared side only; ABORTED also closes a
\* transaction that was never staged (the abort tombstone).
Finish(t, p) == /\ \/ decision[t] = "committed" /\ outcome[t][p] = "prepared"
                   \/ decision[t] = "aborted" /\ outcome[t][p] \in {"none", "prepared"}
                /\ outcome' = [outcome EXCEPT ![t][p] = decision[t]]
                /\ UNCHANGED decision

Next == \E t \in Txns : \/ Begin(t)
                        \/ Commit(t)
                        \/ Abort(t)
                        \/ \E p \in Participants : Prepare(t, p) \/ Finish(t, p)

Spec == Init /\ [][Next]_vars
=============================================================================
