------------------------------ MODULE CardRead ------------------------------
(***************************************************************************)
(* A reader of a Card beside the transaction participant.                  *)
(*                                                                         *)
(* read_current_authority takes no mutation section: it reads the pointer, *)
(* then the transaction's receipt, then asks the coordinator, then looks at *)
(* the recorded effects, then loads the revision.  Staging, FINISH and     *)
(* ordinary commits run between any two of these reads.                    *)
(***************************************************************************)
EXTENDS CardTransaction

VARIABLES
    rpc,     \* the reader's next step
    rcard,   \* the Card it reads
    rptr,    \* the pointer document it holds
    rstate,  \* the receipt's state as it read it, then the state it follows
    rlocal,  \* was the receipt itself already decided
    floor    \* (history) the Card's revision when the read began

rvars == <<rpc, rcard, rptr, rstate, rlocal, floor>>
readVars == <<vars, rvars>>

ReadInit == /\ Init
            /\ rpc = "idle" /\ rcard \in Cards /\ rptr = Plain(First)
            /\ rstate = "none" /\ rlocal = FALSE /\ floor = 1

\* read_current: the pointer document; a plain pointer names the revision.
ReadPointer ==
    /\ rpc = "idle"
    /\ \E c \in Cards : /\ rcard' = c
                        /\ rptr' = ptr[c]
                        /\ floor' = Logical(c).n
    /\ rpc' = IF rptr'.tx = NoTxn THEN "load" ELSE "receipt"
    /\ UNCHANGED <<rstate, rlocal>>

\* resolve_pointer: the receipt the pointer names.
ReadReceipt ==
    /\ rpc = "receipt"
    /\ rstate' = rcpt[rptr.tx]
    /\ rlocal' = (rcpt[rptr.tx] \in DECISIONS)
    /\ rpc' = "decision"
    /\ UNCHANGED <<rcard, rptr, floor>>

\* The locals of a read that ended; the pointer it held is forgotten.
Ended == rpc' = "idle" /\ rstate' = "none" /\ rlocal' = FALSE /\ rptr' = Plain(First) /\ floor' = 1

\* Mutant: an unknown decision reads as BEFORE.
AskDecisionOptimistic ==
    /\ rpc = "decision"
    /\ \E a \in IF rstate \in DECISIONS THEN {rstate} ELSE PortAnswers(rptr.tx) :
          /\ rpc' = IF a = "committed" THEN "effects" ELSE "load"
          /\ rstate' = a
    /\ UNCHANGED <<rcard, rptr, rlocal, floor>>

\* _authoritative_state: a decided receipt is final, otherwise the coordinator is asked.
AskDecision ==
    /\ rpc = "decision"
    /\ \E a \in IF rstate \in DECISIONS THEN {rstate} ELSE PortAnswers(rptr.tx) :
          \/ a \notin DECISIONS /\ Ended
          \/ a = "aborted" /\ rpc' = "load" /\ rstate' = a /\ UNCHANGED <<rlocal, rptr, floor>>
          \/ a = "committed" /\ rpc' = "effects" /\ rstate' = a /\ UNCHANGED <<rlocal, rptr, floor>>
    /\ UNCHANGED rcard

\* Mutant: the readiness of the effects is not looked at.
CheckEffectsSkipped == /\ rpc = "effects" /\ rpc' = "load"
                       /\ UNCHANGED <<rcard, rptr, rstate, rlocal, floor>>

\* _effects_outstanding, on the receipt as it was read: AFTER is never served
\* while an effect is not recorded as applied.
CheckEffects ==
    /\ rpc = "effects"
    /\ IF Effects[rptr.tx] # {} /\ (~rlocal \/ Pending(rptr.tx) # {})
         THEN Ended ELSE rpc' = "load" /\ UNCHANGED <<rstate, rlocal, rptr, floor>>
    /\ UNCHANGED rcard

\* The revision the followed side names, which is what the read returns.
Named == IF rptr.tx = NoTxn THEN rptr.rev
         ELSE IF rstate = "committed" THEN After(rptr.tx) ELSE Before(rptr.tx)

LoadRevision ==
    /\ rpc = "load"
    /\ Ended
    /\ UNCHANGED rcard

ReaderStep == ReadPointer \/ ReadReceipt \/ AskDecision \/ CheckEffects \/ LoadRevision

ReadNext == \/ Next /\ UNCHANGED rvars
            \/ ReaderStep /\ UNCHANGED vars

ReadSpec == ReadInit /\ [][ReadNext]_readVars
----------------------------------------------------------------------------
\* What a read is about to return is committed: every transaction in the
\* revision has its commit recorded and its effects in the outside world,
\* however the reads of pointer, receipt, decision and effects interleave with
\* FINISH.
ReadReturnsCommitted ==
    rpc = "load" => \A t \in Named.in : decision[t] = "committed" /\ world[t] = Effects[t]

\* A read is not older than the Card was when the read began, and not newer
\* than it is when the read ends, on a Card that no replay went on with while
\* another transaction held it.
ReadIsCurrent == rpc = "load" /\ rcard \notin overrun => floor <= Named.n /\ Named.n <= Logical(rcard).n
=============================================================================
