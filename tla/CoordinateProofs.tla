-------------------------- MODULE CoordinateProofs --------------------------
(***************************************************************************)
(* What one governed mutation key promises, for any calls, requests and    *)
(* leases, as long as every answer that frees the key was proved and took  *)
(* its row out of the queue (~over).                                       *)
(*                                                                         *)
(* A request that is in the queue, or whose message may still be admitted  *)
(* or was, is bound to the key: the key is held for it and it is an        *)
(* attempt of the record (KeyInv).  The record goes only when every        *)
(* attempt has an outcome without effect, so that such an outcome must     *)
(* mean that the attempt is dead: out of the queue for good, and its       *)
(* message never admitted (RefusalInv), wherever the outcome is: in a      *)
(* response, in the hands of a call, in the record.  That an answer was    *)
(* right when it was given is known from the row and the dispatch: a row   *)
(* never claimed was never sent (RowInv), and a refused dispatch that      *)
(* still has the lease is the last that could have sent (DispatchInv).     *)
(* A request once dead stays dead since a call publishes once, before      *)
(* anyone looks its answer up (PhaseInv).                                  *)
(***************************************************************************)
EXTENDS Coordinate, TLAPS

USE Zenon

\* The steps before a call has published its request, and after it has told the ledger.
Before == {"idle", "late", "unlink", "settle", "reserve", "ask", "begin", "submit"}
Taken == {"wait", "settleown", "done"}

\* The message may still be admitted, or was. A dead request has been published and can no longer have an effect.
Live(c) == net[c] = "in" \/ (net[c] = "flying" /\ board.st # "refused")
Dead(c) == pc[c] \notin Before /\ queue[c].in = "none" /\ ~Live(c)
Applied(c) == board.st = "applied" /\ board.req = Wants[c]

\* What the step of a call says of its request, of the answers it looks up and of the one it has in its hands.
PhaseInv == \A c \in Calls :
    /\ pc[c] \in Before => queue[c].in = "none" /\ net[c] = "none"
    /\ pc[c] \in {"submit", "record", "holds"} => c \in rec.publishing /\ Held(Wants[c])
    /\ rec.out[c] # "none" => pc[c] \in Taken
    /\ \A i \in seen[c] : pc[i] \in Taken
    /\ pc[c] \in {"unlink", "settle"} => got[c].id \in Calls /\ pc[got[c].id] \in Taken
    /\ pc[c] = "settleown" => got[c].id = c
    /\ pc[c] \in {"unlink", "settle", "settleown"} => got[c].ans # "none"

\* A request no relay claimed was not sent; nor was one that an interrupted publication finds nowhere.
RowInv == \A c \in Calls :
    /\ ~queue[c].claimed => queue[c].lease = 0 /\ (queue[c].in # "none" => net[c] = "none")
    /\ pc[c] = "holds" /\ queue[c].in = "none" /\ resp[c] = "none" => net[c] = "none"

\* Ids are there where steps use them: this holds without ~over.
IdsInv == /\ \A c \in Calls : pc[c] \in {"unlink", "settle"} => got[c].id \in Calls
          /\ \A l \in Leases : at[l].step # "none" => at[l].id \in Calls

\* The board's record is of the requests that are in it.
BoardInv == /\ \A c \in Calls : net[c] = "in" => board.req = Wants[c] /\ board.st \in {"in_progress", "applied"}
            /\ board.st \in {"in_progress", "applied"} => \E c \in Calls : net[c] = "in"

\* Queued and live requests are attempts of the record, and the key is held for them.
KeyInv == \A c \in Calls : queue[c].in # "none" \/ Live(c) => Held(Wants[c]) /\ c \in Ids \cup rec.publishing

\* An outcome without effect is one of a dead request, in the response, the record and a call's hands.
RefusalInv == \A c \in Calls : /\ resp[c] \in NoEffect => Dead(c)
                               /\ rec.out[c] \in NoEffect => Dead(c)
                               /\ got[c].ans \in NoEffect => got[c].id \in Calls /\ Dead(got[c].id)

\* An applied outcome is the board's.
AppliedInv == /\ \A c \in Calls : /\ resp[c] = "applied" => Applied(c)
                                  /\ got[c].ans = "applied" => got[c].id \in Calls /\ Applied(got[c].id)
              /\ rec.applied => board.st = "applied"

\* So are the answers a dispatch is about to give; a refusal only while the dispatch has the lease.
DispatchInv == \A l \in Leases : /\ at[l].step = "refused" /\ queue[at[l].id].lease = l => ~Live(at[l].id)
                                 /\ at[l].step = "applied" => Applied(at[l].id)

KeyParts == PhaseInv /\ RowInv /\ DispatchInv /\ BoardInv /\ KeyInv /\ RefusalInv /\ AppliedInv
KInv == TypeOK /\ IdsInv /\ (~over => KeyParts)
----------------------------------------------------------------------------
(* Types.                                                                  *)

Records == [req : Requests \cup {"none"}, publishing : SUBSET Calls, out : [Calls -> Outcomes], applied : BOOLEAN]
CallSteps == {"idle", "late", "unlink", "settle", "reserve", "ask", "begin", "submit", "record", "holds", "wait",
              "settleown", "done"}
Answers == [id : Calls \cup {"none"}, ans : Outcomes, bad : BOOLEAN]
Rows == [in : {"none", "pending", "leased"}, claimed : BOOLEAN, unknown : BOOLEAN, lease : 0..MaxLeases]
Dispatches == [id : Calls \cup {"none"}, step : {"none", "claimed", "sent", "unknown", "applied", "refused"}]
Boards == [req : Requests \cup {"none"}, st : {"none", "in_progress", "applied", "refused"}]

CallOK == /\ pc \in [Calls -> CallSteps]
          /\ seen \in [Calls -> SUBSET Calls] /\ again \in [Calls -> {"new", "ask", "send"}]
          /\ got \in [Calls -> Answers]
RelayOK == /\ queue \in [Calls -> Rows] /\ resp \in [Calls -> Outcomes]
           /\ at \in [Leases -> Dispatches] /\ leases \in 0..MaxLeases
RemoteOK == /\ net \in [Calls -> {"none", "flying", "in", "refused"}] /\ board \in Boards /\ over \in BOOLEAN

LEMMA TypeParts == /\ TypeOK <=> rec \in Records /\ CallOK /\ RelayOK /\ RemoteOK
                   /\ TypeOK' <=> rec' \in Records /\ CallOK' /\ RelayOK' /\ RemoteOK'
BY DEF TypeOK, Records, CallSteps, Answers, Rows, Dispatches, Boards, CallOK, RelayOK, RemoteOK

LEMMA Constants == /\ NoRecord \in Records /\ NoRow \in Rows /\ NoDispatch \in Dispatches /\ NoAnswer \in Answers
                   /\ \A c \in Calls : Wants[c] \in Requests
BY CoordinateAssumption, SMT DEF NoRecord, NoRow, NoDispatch, NoAnswer, Records, Rows, Dispatches, Answers,
                                 Outcomes, NoEffect, Requests

LEMMA RecordUpdates ==
    ASSUME NEW r \in Records
    PROVE  /\ \A k \in [Calls -> Outcomes] : [r EXCEPT !.out = k] \in Records
           /\ \A k \in [Calls -> Outcomes] : [r EXCEPT !.out = k, !.applied = TRUE] \in Records
           /\ \A q \in Requests : [r EXCEPT !.req = q] \in Records
           /\ \A q \in Requests, c \in Calls : [r EXCEPT !.req = q, !.publishing = @ \cup {c}] \in Records
           /\ \A c \in Calls : [r EXCEPT !.publishing = @ \ {c}] \in Records
           /\ \A c \in Calls, o \in Outcomes : [r EXCEPT !.publishing = @ \ {c}, !.out[c] = o] \in Records
<1>1. \A k \in [Calls -> Outcomes] : [r EXCEPT !.out = k] \in Records BY DEF Records
<1>2. \A k \in [Calls -> Outcomes] : [r EXCEPT !.out = k, !.applied = TRUE] \in Records BY DEF Records
<1>3. \A q \in Requests : [r EXCEPT !.req = q] \in Records BY DEF Records
<1>4. r.publishing \in SUBSET Calls /\ r.out \in [Calls -> Outcomes] BY SMT DEF Records
<1>5. \A c \in Calls : r.publishing \cup {c} \in SUBSET Calls /\ r.publishing \ {c} \in SUBSET Calls BY <1>4
<1>6. \A q \in Requests, c \in Calls : [r EXCEPT !.req = q, !.publishing = @ \cup {c}] \in Records
  BY <1>5, Zenon DEF Records
<1>7. \A c \in Calls : [r EXCEPT !.publishing = @ \ {c}] \in Records BY <1>5, Zenon DEF Records
<1>8. \A c \in Calls, o \in Outcomes : [r EXCEPT !.publishing = @ \ {c}, !.out[c] = o] \in Records
  BY <1>4, <1>5, Zenon DEF Records
<1> QED BY <1>1, <1>2, <1>3, <1>6, <1>7, <1>8

LEMMA AnswerUpdates ==
    ASSUME NEW f \in [Calls -> Answers], NEW c \in Calls
    PROVE  /\ \A a \in Answers : [f EXCEPT ![c] = a] \in [Calls -> Answers]
           /\ \A i \in Calls, o \in Outcomes : [f EXCEPT ![c].id = i, ![c].ans = o] \in [Calls -> Answers]
<1>1. \A a \in Answers : [f EXCEPT ![c] = a] \in [Calls -> Answers] OBVIOUS
<1>2. ASSUME NEW i \in Calls, NEW o \in Outcomes PROVE [f[c] EXCEPT !.id = i, !.ans = o] \in Answers BY DEF Answers
<1>3. ASSUME NEW i \in Calls, NEW o \in Outcomes
      PROVE  [f EXCEPT ![c].id = i, ![c].ans = o] = [f EXCEPT ![c] = [f[c] EXCEPT !.id = i, !.ans = o]]
  OBVIOUS
<1> QED BY <1>1, <1>2, <1>3

LEMMA RowUpdates ==
    ASSUME NEW q \in [Calls -> Rows], NEW c \in Calls
    PROVE  /\ \A r \in Rows : [q EXCEPT ![c] = r] \in [Calls -> Rows]
           /\ \A s \in {"pending", "leased"} : [q EXCEPT ![c].in = s] \in [Calls -> Rows]
           /\ \A u \in BOOLEAN : [q EXCEPT ![c].in = "pending", ![c].unknown = u] \in [Calls -> Rows]
           /\ \A n \in 0..MaxLeases : [q EXCEPT ![c].in = "leased", ![c].claimed = TRUE, ![c].lease = n] \in [Calls -> Rows]
<1>1. \A r \in Rows : [q EXCEPT ![c] = r] \in [Calls -> Rows] OBVIOUS
<1>2. \A s \in {"pending", "leased"} : [q[c] EXCEPT !.in = s] \in Rows BY DEF Rows
<1>3. \A u \in BOOLEAN : [q[c] EXCEPT !.in = "pending", !.unknown = u] \in Rows BY DEF Rows
<1>4. \A n \in 0..MaxLeases : [q[c] EXCEPT !.in = "leased", !.claimed = TRUE, !.lease = n] \in Rows BY DEF Rows
<1>5. \A s \in {"pending", "leased"} : [q EXCEPT ![c].in = s] = [q EXCEPT ![c] = [q[c] EXCEPT !.in = s]] BY SMT
<1>6. \A u \in BOOLEAN : [q EXCEPT ![c].in = "pending", ![c].unknown = u]
                         = [q EXCEPT ![c] = [q[c] EXCEPT !.in = "pending", !.unknown = u]]
  OBVIOUS
<1>7. \A n \in 0..MaxLeases : [q EXCEPT ![c].in = "leased", ![c].claimed = TRUE, ![c].lease = n]
                              = [q EXCEPT ![c] = [q[c] EXCEPT !.in = "leased", !.claimed = TRUE, !.lease = n]]
  OBVIOUS
<1> QED BY <1>1, <1>2, <1>3, <1>4, <1>5, <1>6, <1>7

LEMMA DispatchUpdates ==
    ASSUME at \in [Leases -> Dispatches], NEW l \in Leases
    PROVE  /\ \A d \in Dispatches : [at EXCEPT ![l] = d] \in [Leases -> Dispatches]
           /\ \A s \in {"sent", "unknown", "applied", "refused"} : [at EXCEPT ![l].step = s] \in [Leases -> Dispatches]
BY SMT DEF Dispatches

\* What settle_attempt leaves: the key is freed, or the outcome is kept with an attempt of the record.
LEMMA SettledIs ==
    ASSUME rec \in Records, NEW i \in Calls, NEW o \in Outcomes
    PROVE  /\ Settled(i, o) \in Records
           /\ \/ Settled(i, o) = NoRecord /\ rec = NoRecord
              \/ /\ Settled(i, o) = NoRecord /\ ~rec.applied /\ rec.publishing = {} /\ o \in NoEffect \cup {"none"}
                 /\ \A j \in Calls : j # i => rec.out[j] \in NoEffect \cup {"none"}
              \/ /\ Settled(i, o).req = rec.req /\ Settled(i, o).publishing = rec.publishing
                 /\ Settled(i, o).applied <=> rec.applied \/ o = "applied"
                 /\ \A j \in Calls : Settled(i, o).out[j] = IF j = i /\ i \in Ids THEN o ELSE rec.out[j]
<1> DEFINE tried == [rec.out EXCEPT ![i] = o]
           kept == IF i \in Ids THEN tried ELSE rec.out
           R1 == [rec EXCEPT !.out = kept]
           R2 == [rec EXCEPT !.out = kept, !.applied = TRUE]
<1>1. rec.out \in [Calls -> Outcomes] /\ rec.applied \in BOOLEAN
  BY SMT DEF Records
<1>2. /\ tried \in [Calls -> Outcomes] /\ kept \in [Calls -> Outcomes]
      /\ \A j \in Calls : kept[j] = IF j = i /\ i \in Ids THEN o ELSE rec.out[j]
      /\ \A j \in Calls : tried[j] = IF j = i THEN o ELSE rec.out[j]
  BY <1>1, SMT
<1> HIDE DEF tried, kept
<1>3. R1 \in Records /\ R2 \in Records
  BY <1>2, RecordUpdates
<1>4. /\ R1.req = rec.req /\ R1.publishing = rec.publishing /\ R1.out = kept /\ R1.applied = rec.applied
      /\ R2.req = rec.req /\ R2.publishing = rec.publishing /\ R2.out = kept /\ R2.applied = TRUE
  BY DEF Records
<1> HIDE DEF R1, R2
<1>5. Settled(i, o) = IF rec = NoRecord THEN rec
                        ELSE CASE rec.applied -> R1
                               [] ~rec.applied /\ o = "applied" -> R2
                               [] ~rec.applied /\ o # "applied" -> IF Frees(tried) THEN NoRecord ELSE R1
  BY DEF Settled, tried, kept, R1, R2
<1>6. CASE rec = NoRecord
  <2>1. Settled(i, o) = NoRecord BY <1>5, <1>6, <1>1, SMT
  <2> QED BY <1>6, <2>1
<1>7. CASE rec # NoRecord /\ rec.applied
  <2>1. Settled(i, o) = R1 BY <1>5, <1>7, <1>1, SMT
  <2> QED BY <1>7, <2>1, <1>2, <1>3, <1>4
<1>8. CASE rec # NoRecord /\ ~rec.applied /\ o = "applied"
  <2>1. Settled(i, o) = R2 BY <1>5, <1>8, <1>1, SMT
  <2> QED BY <1>8, <2>1, <1>2, <1>3, <1>4
<1>9. CASE rec # NoRecord /\ ~rec.applied /\ o # "applied" /\ ~Frees(tried)
  <2>1. Settled(i, o) = R1 BY <1>5, <1>9, <1>1, SMT
  <2> QED BY <1>9, <2>1, <1>2, <1>3, <1>4
<1>10. CASE rec # NoRecord /\ ~rec.applied /\ o # "applied" /\ Frees(tried)
  <2>1. Settled(i, o) = NoRecord BY <1>5, <1>10, <1>1, SMT
  <2>2. rec.publishing = {} /\ \A j \in Calls : tried[j] \in NoEffect \cup {"none"} BY <1>10 DEF Frees
  <2> QED BY <1>10, <2>1, <2>2, <1>2, Constants
<1> QED BY <1>6, <1>7, <1>8, <1>9, <1>10

\* The key is freed only when every attempt has a proof that it had no effect, and none is being published.
LEMMA SettledFrees ==
    ASSUME rec \in Records, rec # NoRecord, NEW i \in Calls, NEW o \in Outcomes
    PROVE  \/ /\ Settled(i, o) = NoRecord /\ ~rec.applied /\ rec.publishing = {} /\ o \in NoEffect \cup {"none"}
              /\ \A j \in Calls : j # i => rec.out[j] \in NoEffect \cup {"none"}
           \/ /\ Settled(i, o).req = rec.req /\ Settled(i, o).publishing = rec.publishing
              /\ Settled(i, o).applied <=> rec.applied \/ o = "applied"
              /\ \A j \in Calls : Settled(i, o).out[j] = IF j = i /\ i \in Ids THEN o ELSE rec.out[j]
BY SettledIs

LEMMA SettledStays ==
    ASSUME rec \in Records, NEW i \in Calls, NEW o \in Outcomes, Settled(i, o) # NoRecord
    PROVE  /\ Settled(i, o).applied <=> rec.applied \/ o = "applied"
           /\ \A j \in Calls : Settled(i, o).out[j] = IF j = i /\ i \in Ids THEN o ELSE rec.out[j]
BY SettledIs

LEMMA SubmittedIs ==
    ASSUME rec \in Records, NEW c \in Calls
    PROVE  /\ Submitted(c) \in Records
           /\ Submitted(c).req = rec.req /\ Submitted(c).applied = rec.applied
           /\ Submitted(c).publishing = rec.publishing \ {c}
           /\ \A j \in Calls : Submitted(c).out[j] = IF j = c /\ rec.out[j] = "none" THEN "unknown" ELSE rec.out[j]
<1> DEFINE o == IF rec.out[c] = "none" THEN "unknown" ELSE rec.out[c]
           R == [rec EXCEPT !.publishing = @ \ {c}, !.out[c] = o]
<1>1. rec.out \in [Calls -> Outcomes] /\ o \in Outcomes
  BY SMT DEF Records, Outcomes
<1>2. Submitted(c) = R BY DEF Submitted
<1> HIDE DEF o
<1>3. R \in Records BY <1>1, RecordUpdates
<1>4. /\ R.req = rec.req /\ R.applied = rec.applied /\ R.publishing = rec.publishing \ {c}
      /\ R.out = [rec.out EXCEPT ![c] = o]
  BY DEF Records
<1> HIDE DEF R
<1>5. \A j \in Calls : R.out[j] = IF j = c THEN o ELSE rec.out[j] BY <1>1, <1>4
<1> QED BY <1>2, <1>3, <1>4, <1>5 DEF o

LEMMA AbandonedIs ==
    ASSUME rec \in Records, NEW c \in Calls
    PROVE  /\ Abandoned(c) \in Records
           /\ \/ Abandoned(c) = NoRecord /\ Ids = {} /\ rec.publishing \ {c} = {}
              \/ /\ Abandoned(c).req = rec.req /\ Abandoned(c).applied = rec.applied
                 /\ Abandoned(c).publishing = rec.publishing \ {c} /\ Abandoned(c).out = rec.out
<1> DEFINE R == [rec EXCEPT !.publishing = @ \ {c}]
<1>1. R \in Records BY RecordUpdates
<1>2. /\ R.req = rec.req /\ R.applied = rec.applied /\ R.publishing = rec.publishing \ {c} /\ R.out = rec.out
  BY DEF Records
<1> HIDE DEF R
<1>3. Abandoned(c) = IF Ids = {} /\ rec.publishing \ {c} = {} THEN NoRecord ELSE R
  BY DEF Abandoned, R
<1> QED BY <1>1, <1>2, <1>3, Constants

\* The key reserved for c, with or without its attempt.
LEMMA ReservedIs ==
    ASSUME NEW r \in Records, NEW c \in Calls
    PROVE  LET R1 == [r EXCEPT !.req = Wants[c]]
               R2 == [r EXCEPT !.req = Wants[c], !.publishing = @ \cup {c}]
           IN  /\ R1 \in Records /\ R1.req = Wants[c] /\ R1.publishing = r.publishing
               /\ R1.out = r.out /\ R1.applied = r.applied
               /\ R2 \in Records /\ R2.req = Wants[c] /\ R2.publishing = r.publishing \cup {c}
               /\ R2.out = r.out /\ R2.applied = r.applied
<1> DEFINE R1 == [r EXCEPT !.req = Wants[c]]
           R2 == [r EXCEPT !.req = Wants[c], !.publishing = @ \cup {c}]
<1>1. R1 \in Records /\ R2 \in Records BY RecordUpdates, Constants
<1>2. R1.req = Wants[c] /\ R1.publishing = r.publishing /\ R1.out = r.out /\ R1.applied = r.applied
  BY DEF Records
<1>3. R2.req = Wants[c] /\ R2.publishing = r.publishing \cup {c} /\ R2.out = r.out /\ R2.applied = r.applied
  BY DEF Records
<1> QED BY <1>1, <1>2, <1>3

LEMMA NoRecordIs == NoRecord.publishing = {} /\ NoRecord.applied = FALSE /\ \A c \in Calls : NoRecord.out[c] = "none"
BY SMT DEF NoRecord

----------------------------------------------------------------------------
(* What the steps of a call do, field by field.                            *)

OthersKept(c) == \A d \in Calls \ {c} : pc'[d] = pc[d] /\ seen'[d] = seen[d] /\ got'[d] = got[d]

LEMMA EndIs ==
    ASSUME CallOK, NEW c \in Calls, End(c)
    PROVE  CallOK' /\ OthersKept(c) /\ pc'[c] = "done" /\ seen'[c] = {} /\ got'[c] = NoAnswer
BY Constants, SMT DEF End, Goto, CallOK, CallSteps, OthersKept

LEMMA GotIs ==
    ASSUME got \in [Calls -> Answers], NEW c \in Calls, NEW i \in Calls, NEW o \in Outcomes,
           got' = [got EXCEPT ![c].id = i, ![c].ans = o]
    PROVE  got' \in [Calls -> Answers] /\ got'[c].id = i /\ got'[c].ans = o /\ \A d \in Calls \ {c} : got'[d] = got[d]
<1>1. got' \in [Calls -> Answers] BY AnswerUpdates
<1>2. got' = [got EXCEPT ![c] = [got[c] EXCEPT !.id = i, !.ans = o]] OBVIOUS
<1>3. [got[c] EXCEPT !.id = i, !.ans = o].id = i /\ [got[c] EXCEPT !.id = i, !.ans = o].ans = o
  BY DEF Answers
<1> QED BY <1>1, <1>2, <1>3

LEMMA GotoIs ==
    ASSUME pc \in [Calls -> CallSteps], NEW c \in Calls, NEW s \in CallSteps, Goto(c, s)
    PROVE  pc' \in [Calls -> CallSteps] /\ pc'[c] = s /\ \A d \in Calls \ {c} : pc'[d] = pc[d]
BY DEF Goto

\* lookup_existing
LEMMA LookupIs ==
    ASSUME TypeOK, NEW c \in Calls, Lookup(c)
    PROVE  /\ CallOK' /\ OthersKept(c) /\ UNCHANGED <<rec, relay, remote>> /\ pc[c] = "idle"
           /\ \/ pc'[c] = "reserve" /\ seen'[c] = seen[c] /\ got'[c] = got[c]
              \/ pc'[c] = "done" /\ seen'[c] = {} /\ got'[c] = NoAnswer
              \/ pc'[c] = "late" /\ seen'[c] = Ids /\ got'[c] = got[c]
<1>1. CallOK BY TypeParts
<1>2. CASE rec = NoRecord /\ Goto(c, "reserve") /\ UNCHANGED <<seen, again, got>>
  BY <1>1, <1>2, GotoIs DEF Lookup, CallOK, OthersKept, CallSteps
<1>3. CASE End(c)
  BY <1>1, <1>3, EndIs DEF Lookup
<1>4. CASE Goto(c, "late") /\ seen' = [seen EXCEPT ![c] = Ids] /\ UNCHANGED <<again, got>>
  BY <1>1, <1>4, GotoIs DEF Lookup, CallOK, OthersKept, CallSteps, Ids
<1> QED BY <1>2, <1>3, <1>4 DEF Lookup

LEMMA NoLateIs ==
    ASSUME TypeOK, NEW c \in Calls, NEW i \in Calls, NoLate(c, i)
    PROVE  /\ CallOK' /\ OthersKept(c) /\ UNCHANGED <<rec, relay, remote>>
           /\ pc'[c] = pc[c] /\ seen'[c] = seen[c] \ {i} /\ got'[c] = got[c]
BY TypeParts DEF NoLate, CallOK, OthersKept

LEMMA TakeLateIs ==
    ASSUME TypeOK, NEW c \in Calls, NEW i \in Calls, TakeLate(c, i)
    PROVE  /\ CallOK' /\ OthersKept(c) /\ UNCHANGED <<rec, relay, remote>>
           /\ pc[c] = "late" /\ pc'[c] = "unlink" /\ i \in seen[c] /\ seen'[c] = seen[c] \ {i} /\ resp[i] # "none"
           /\ got'[c].id = i /\ got'[c].ans = resp[i]
<1>1. CallOK /\ resp[i] \in Outcomes BY TypeParts DEF RelayOK
<1>2. pc' \in [Calls -> CallSteps] /\ pc'[c] = "unlink" /\ \A d \in Calls \ {c} : pc'[d] = pc[d]
  BY <1>1, GotoIs DEF TakeLate, CallOK, CallSteps
<1>3. got' \in [Calls -> Answers] /\ got'[c].id = i /\ got'[c].ans = resp[i] /\ \A d \in Calls \ {c} : got'[d] = got[d]
  BY <1>1, GotIs DEF TakeLate, CallOK
<1> QED BY <1>1, <1>2, <1>3 DEF TakeLate, CallOK, OthersKept

LEMMA UnlinkIs ==
    ASSUME TypeOK, NEW c \in Calls, Unlink(c), got[c].id \in Calls
    PROVE  /\ CallOK' /\ OthersKept(c) /\ UNCHANGED <<rec, queue, at, leases, remote>>
           /\ pc[c] = "unlink" /\ pc'[c] = "settle" /\ seen'[c] = seen[c] /\ got'[c] = got[c]
           /\ resp'[got[c].id] = "none" /\ \A d \in Calls \ {got[c].id} : resp'[d] = resp[d]
BY TypeParts, GotoIs DEF Unlink, CallOK, RelayOK, OthersKept, CallSteps

LEMMA SettleLateIs ==
    ASSUME TypeOK, NEW c \in Calls, SettleLate(c), got[c].id \in Calls
    PROVE  /\ rec' \in Records /\ CallOK' /\ OthersKept(c) /\ UNCHANGED <<relay, remote>>
           /\ pc[c] = "settle" /\ pc'[c] = "late" /\ seen'[c] = seen[c] /\ got'[c].ans = "none"
           /\ rec' = rec \/ rec' = Settled(got[c].id, got[c].ans)
<1>1. CallOK /\ rec \in Records /\ got[c].ans \in Outcomes BY TypeParts, SMT DEF CallOK, Answers
<1>2. pc' \in [Calls -> CallSteps] /\ pc'[c] = "late" /\ \A d \in Calls \ {c} : pc'[d] = pc[d]
  BY <1>1, GotoIs DEF SettleLate, CallOK, CallSteps
<1>3. rec' = rec \/ rec' = Settled(got[c].id, got[c].ans) BY DEF SettleLate
<1>4. rec' \in Records BY <1>1, <1>3, SettledIs
<1>5. ASSUME NEW b PROVE [NoAnswer EXCEPT !.bad = b] = [id |-> "none", ans |-> "none", bad |-> b]
  BY SMT DEF NoAnswer
<1>6. PICK b \in BOOLEAN : got' = [got EXCEPT ![c] = [NoAnswer EXCEPT !.bad = b]]
  BY DEF SettleLate
<1>7. got' = [got EXCEPT ![c] = [id |-> "none", ans |-> "none", bad |-> b]] BY <1>5, <1>6
<1>8. [id |-> "none", ans |-> "none", bad |-> b] \in Answers BY SMT DEF Answers, Outcomes
<1>9. got' \in [Calls -> Answers] /\ got'[c].ans = "none" /\ \A d \in Calls \ {c} : got'[d] = got[d]
  BY <1>1, <1>7, <1>8 DEF CallOK
<1> QED BY <1>1, <1>2, <1>3, <1>4, <1>9 DEF SettleLate, CallOK, OthersKept

LEMMA EndLateIs ==
    ASSUME TypeOK, NEW c \in Calls, EndLate(c)
    PROVE  /\ CallOK' /\ OthersKept(c) /\ UNCHANGED <<rec, relay, remote>>
           /\ pc[c] = "late" /\ pc'[c] \in {"done", "reserve", "ask", "begin"} /\ seen'[c] = {} /\ got'[c] = NoAnswer
<1>1. CallOK BY TypeParts
<1>2. CASE End(c)
  BY <1>1, <1>2, EndIs DEF EndLate
<1>3. CASE ~End(c)
  <2> DEFINE s == CASE again[c] = "new" -> "reserve" [] again[c] = "ask" -> "ask" [] again[c] = "send" -> "begin"
  <2>1. again[c] \in {"new", "ask", "send"} BY <1>1 DEF CallOK
  <2>2. s \in {"reserve", "ask", "begin"} BY <2>1, SMT
  <2>3. Goto(c, s) /\ got' = [got EXCEPT ![c] = NoAnswer] /\ UNCHANGED <<seen, again>> /\ seen[c] = {}
    BY <1>3 DEF EndLate
  <2> HIDE DEF s
  <2> QED BY <1>1, <2>2, <2>3, GotoIs, Constants DEF EndLate, CallOK, OthersKept, CallSteps
<1> QED BY <1>2, <1>3

LEMMA ReserveIs ==
    ASSUME TypeOK, NEW c \in Calls, Reserve(c)
    PROVE  /\ rec' \in Records /\ CallOK' /\ OthersKept(c) /\ UNCHANGED <<relay, remote>> /\ pc[c] = "reserve"
           /\ \/ /\ rec = NoRecord /\ rec'.publishing = {} /\ ~rec'.applied /\ \A d \in Calls : rec'.out[d] = "none"
                 /\ pc'[c] = "begin" /\ seen'[c] = seen[c] /\ got'[c] = got[c]
              \/ rec' = rec /\ pc'[c] = "done" /\ seen'[c] = {} /\ got'[c] = NoAnswer
              \/ rec' = rec /\ pc'[c] = "late" /\ seen'[c] = Ids /\ got'[c] = got[c]
<1>1. CallOK /\ rec \in Records BY TypeParts
<1>2. CASE rec = NoRecord /\ rec' = [NoRecord EXCEPT !.req = Wants[c]] /\ Goto(c, "begin") /\ UNCHANGED <<seen, again, got>>
  <2>1. rec' \in Records /\ rec'.publishing = {} /\ ~rec'.applied /\ \A d \in Calls : rec'.out[d] = "none"
    BY <1>2, Constants, ReservedIs, NoRecordIs
  <2> QED BY <1>1, <1>2, <2>1, GotoIs DEF Reserve, CallOK, OthersKept, CallSteps
<1>3. CASE End(c) /\ UNCHANGED rec
  BY <1>1, <1>3, EndIs DEF Reserve
<1>4. CASE /\ Goto(c, "late") /\ seen' = [seen EXCEPT ![c] = Ids] /\ UNCHANGED <<rec, got>>
           /\ again' = [again EXCEPT ![c] = IF \E i \in Ids : rec.out[i] = "unknown" THEN "ask" ELSE "send"]
  <2>1. again' \in [Calls -> {"new", "ask", "send"}] BY <1>1, <1>4 DEF CallOK
  <2> QED BY <1>1, <1>4, <2>1, GotoIs DEF Reserve, CallOK, OthersKept, CallSteps, Ids
<1> QED BY <1>2, <1>3, <1>4 DEF Reserve

LEMMA AskIs ==
    ASSUME TypeOK, NEW c \in Calls, Ask(c)
    PROVE  /\ rec' \in Records /\ CallOK' /\ OthersKept(c) /\ UNCHANGED <<relay, remote>> /\ pc[c] = "ask"
           /\ \/ /\ pc'[c] = "done" /\ seen'[c] = {} /\ got'[c] = NoAnswer
                 /\ \/ rec' = rec
                    \/ board.st = "applied" /\ \E i \in Ids : rec' = Settled(i, "applied")
              \/ rec' = rec /\ pc'[c] = "begin" /\ seen'[c] = seen[c] /\ got'[c] = got[c]
<1>1. CallOK /\ rec \in Records BY TypeParts
<1>2. CASE /\ Receipt(Wants[c]) = "applied" /\ End(c)
           /\ rec' \in {rec} \cup {Settled(i, "applied") : i \in {j \in Ids : Same(c)}}
  <2>1. board.st = "applied" BY <1>2 DEF Receipt
  <2>2. rec' = rec \/ \E i \in Ids : rec' = Settled(i, "applied") BY <1>2
  <2>3. Ids \subseteq Calls /\ "applied" \in Outcomes BY DEF Ids, Outcomes
  <2>4. \A i \in Ids : Settled(i, "applied") \in Records BY <1>1, <2>3, SettledIs
  <2> QED BY <1>1, <1>2, <2>1, <2>2, <2>4, EndIs DEF Ask
<1>3. CASE End(c) /\ UNCHANGED rec
  BY <1>1, <1>3, EndIs DEF Ask
<1>4. CASE Goto(c, "begin") /\ UNCHANGED <<rec, seen, again, got>>
  BY <1>1, <1>4, GotoIs DEF Ask, CallOK, OthersKept, CallSteps
<1> QED BY <1>2, <1>3, <1>4 DEF Ask

LEMMA BeginIs ==
    ASSUME TypeOK, NEW c \in Calls, Begin(c)
    PROVE  /\ rec' \in Records /\ CallOK' /\ OthersKept(c) /\ UNCHANGED <<relay, remote>> /\ pc[c] = "begin"
           /\ \/ rec' = rec /\ pc'[c] = "done" /\ seen'[c] = {} /\ got'[c] = NoAnswer
              \/ /\ pc'[c] = "submit" /\ seen'[c] = seen[c] /\ got'[c] = got[c]
                 /\ rec = NoRecord \/ Same(c)
                 /\ rec'.req = Wants[c] /\ rec'.publishing = rec.publishing \cup {c}
                 /\ rec'.out = rec.out /\ rec'.applied = rec.applied
<1>1. CallOK /\ rec \in Records BY TypeParts
<1>2. CASE End(c) /\ UNCHANGED rec
  BY <1>1, <1>2, EndIs DEF Begin
<1>3. CASE /\ ~Other(c) /\ Goto(c, "submit") /\ UNCHANGED <<seen, again, got>>
           /\ rec' = [rec EXCEPT !.req = Wants[c], !.publishing = @ \cup {c}]
  <2>1. /\ rec' \in Records /\ rec'.req = Wants[c] /\ rec'.publishing = rec.publishing \cup {c}
        /\ rec'.out = rec.out /\ rec'.applied = rec.applied
    BY <1>1, <1>3, ReservedIs
  <2>2. rec = NoRecord \/ Same(c) BY <1>3 DEF Other
  <2> QED BY <1>1, <1>3, <2>1, <2>2, GotoIs DEF Begin, CallOK, OthersKept, CallSteps
<1> QED BY <1>2, <1>3 DEF Begin

LEMMA SubmitIs ==
    ASSUME TypeOK, NEW c \in Calls, Submit(c)
    PROVE  /\ queue' \in [Calls -> Rows] /\ CallOK' /\ OthersKept(c) /\ UNCHANGED <<rec, resp, at, leases, remote>>
           /\ pc[c] = "submit" /\ seen'[c] = seen[c] /\ got'[c] = got[c]
           /\ \A d \in Calls \ {c} : queue'[d] = queue[d]
           /\ queue'[c].claimed = queue[c].claimed /\ queue'[c].lease = queue[c].lease
           /\ \/ queue'[c].in = "pending" /\ pc'[c] \in {"record", "holds"}
              \/ queue'[c].in = queue[c].in /\ pc'[c] = "holds"
<1>1. CallOK /\ queue \in [Calls -> Rows] BY TypeParts DEF RelayOK
<1>2. ASSUME queue' = [queue EXCEPT ![c].in = "pending"]
      PROVE  /\ queue' \in [Calls -> Rows] /\ \A d \in Calls \ {c} : queue'[d] = queue[d]
             /\ queue'[c].claimed = queue[c].claimed /\ queue'[c].lease = queue[c].lease /\ queue'[c].in = "pending"
  <2>1. queue' \in [Calls -> Rows] BY <1>1, <1>2, RowUpdates
  <2> QED BY <1>1, <1>2, <2>1 DEF Rows
<1>3. PICK s \in {"record", "holds"} :
        Goto(c, s) /\ (queue' = [queue EXCEPT ![c].in = "pending"] \/ (queue' = queue /\ s = "holds"))
  BY DEF Submit
<1>s. s \in CallSteps BY <1>3 DEF CallSteps
<1>4. pc' \in [Calls -> CallSteps] /\ pc'[c] = s /\ \A d \in Calls \ {c} : pc'[d] = pc[d]
  BY <1>1, <1>3, <1>s, GotoIs DEF CallOK
<1> QED BY <1>1, <1>2, <1>3, <1>4 DEF Submit, CallOK, OthersKept

LEMMA RecordIs ==
    ASSUME TypeOK, NEW c \in Calls, Record(c)
    PROVE  /\ rec' \in Records /\ CallOK' /\ OthersKept(c) /\ UNCHANGED <<relay, remote>> /\ pc[c] = "record"
           /\ \/ Same(c) /\ rec' = Submitted(c) /\ pc'[c] = "wait" /\ seen'[c] = seen[c] /\ got'[c] = got[c]
              \/ ~Same(c) /\ rec' = rec /\ pc'[c] = "done" /\ seen'[c] = {} /\ got'[c] = NoAnswer
<1>1. CallOK /\ rec \in Records BY TypeParts
<1>2. CASE Same(c)
  BY <1>1, <1>2, SubmittedIs, GotoIs DEF Record, CallOK, OthersKept, CallSteps
<1>3. CASE ~Same(c)
  BY <1>1, <1>3, EndIs DEF Record
<1> QED BY <1>2, <1>3

LEMMA InterruptedIs ==
    ASSUME TypeOK, NEW c \in Calls, Interrupted(c)
    PROVE  /\ rec' \in Records /\ CallOK' /\ OthersKept(c) /\ UNCHANGED <<relay, remote>> /\ pc[c] = "holds"
           /\ pc'[c] = "done" /\ seen'[c] = {} /\ got'[c] = NoAnswer
           /\ \/ Same(c) /\ rec' = Submitted(c)
              \/ ~Same(c) /\ rec' = rec
              \/ queue[c].in = "none" /\ resp[c] = "none" /\ rec' = Abandoned(c)
BY TypeParts, SubmittedIs, AbandonedIs, EndIs DEF Interrupted

LEMMA ReceiveIs ==
    ASSUME TypeOK, NEW c \in Calls, Receive(c)
    PROVE  /\ resp' \in [Calls -> Outcomes] /\ CallOK' /\ OthersKept(c) /\ UNCHANGED <<rec, queue, at, leases, remote>>
           /\ pc[c] = "wait" /\ pc'[c] = "settleown" /\ seen'[c] = seen[c]
           /\ got'[c].id = c /\ got'[c].ans = resp[c] /\ resp[c] # "none"
           /\ resp'[c] = "none" /\ \A d \in Calls \ {c} : resp'[d] = resp[d]
<1>1. CallOK /\ resp \in [Calls -> Outcomes] /\ resp[c] \in Outcomes BY TypeParts DEF RelayOK
<1>2. pc' \in [Calls -> CallSteps] /\ pc'[c] = "settleown" /\ \A d \in Calls \ {c} : pc'[d] = pc[d]
  BY <1>1, GotoIs DEF Receive, CallOK, CallSteps
<1>3. got' \in [Calls -> Answers] /\ got'[c].id = c /\ got'[c].ans = resp[c] /\ \A d \in Calls \ {c} : got'[d] = got[d]
  BY <1>1, GotIs DEF Receive, CallOK
<1>4. "none" \in Outcomes BY DEF Outcomes
<1> QED BY <1>1, <1>2, <1>3, <1>4 DEF Receive, CallOK, OthersKept

LEMMA WithdrawIs ==
    ASSUME TypeOK, NEW c \in Calls, Withdraw(c)
    PROVE  /\ queue' \in [Calls -> Rows] /\ CallOK' /\ OthersKept(c) /\ UNCHANGED <<rec, resp, at, leases, remote>>
           /\ pc[c] = "wait" /\ pc'[c] = "settleown" /\ seen'[c] = seen[c] /\ queue[c].in = "pending"
           /\ got'[c].id = c /\ got'[c].ans = Withdrawn(c)
           /\ queue'[c] = NoRow /\ \A d \in Calls \ {c} : queue'[d] = queue[d]
<1>1. CallOK /\ queue \in [Calls -> Rows] BY TypeParts DEF RelayOK
<1>2. pc' \in [Calls -> CallSteps] /\ pc'[c] = "settleown" /\ \A d \in Calls \ {c} : pc'[d] = pc[d]
  BY <1>1, GotoIs DEF Withdraw, CallOK, CallSteps
<1>3. Withdrawn(c) \in Outcomes BY DEF Withdrawn, Outcomes, NoEffect
<1>4. got' \in [Calls -> Answers] /\ got'[c].id = c /\ got'[c].ans = Withdrawn(c) /\ \A d \in Calls \ {c} : got'[d] = got[d]
  BY <1>1, <1>3, GotIs DEF Withdraw, CallOK
<1> QED BY <1>1, <1>2, <1>4, Constants DEF Withdraw, CallOK, OthersKept

LEMMA TimeOutIs ==
    ASSUME TypeOK, NEW c \in Calls, TimeOut(c)
    PROVE  /\ CallOK' /\ OthersKept(c) /\ UNCHANGED <<rec, relay, remote>>
           /\ pc[c] = "wait" /\ pc'[c] = "settleown" /\ seen'[c] = seen[c]
           /\ got'[c].id = c /\ got'[c].ans = "unknown"
<1>1. CallOK /\ "unknown" \in Outcomes BY TypeParts DEF Outcomes
<1>2. pc' \in [Calls -> CallSteps] /\ pc'[c] = "settleown" /\ \A d \in Calls \ {c} : pc'[d] = pc[d]
  BY <1>1, GotoIs DEF TimeOut, CallOK, CallSteps
<1>3. got' \in [Calls -> Answers] /\ got'[c].id = c /\ got'[c].ans = "unknown" /\ \A d \in Calls \ {c} : got'[d] = got[d]
  BY <1>1, GotIs DEF TimeOut, CallOK
<1> QED BY <1>1, <1>2, <1>3 DEF TimeOut, CallOK, OthersKept

LEMMA SettleOwnIs ==
    ASSUME TypeOK, NEW c \in Calls, SettleOwn(c)
    PROVE  /\ rec' \in Records /\ CallOK' /\ OthersKept(c) /\ UNCHANGED <<relay, remote>>
           /\ pc[c] = "settleown" /\ pc'[c] = "done" /\ seen'[c] = {} /\ got'[c] = NoAnswer
           /\ rec' = Settled(c, got[c].ans)
<1>1. CallOK /\ rec \in Records /\ got[c].ans \in Outcomes BY TypeParts, SMT DEF CallOK, Answers
<1> QED BY <1>1, SettledIs, EndIs DEF SettleOwn

LEMMA CallType ==
    ASSUME TypeOK, NEW c \in Calls, CallStep(c), pc[c] \in {"unlink", "settle"} => got[c].id \in Calls
    PROVE  TypeOK'
<1> USE TypeParts
<1>0. rec \in Records /\ CallOK /\ RelayOK /\ RemoteOK /\ "none" \in Outcomes BY DEF Outcomes
<1>r. UNCHANGED relay => RelayOK' BY <1>0 DEF relay, RelayOK
<1>m. UNCHANGED remote => RemoteOK' BY <1>0 DEF remote, RemoteOK
<1>q. UNCHANGED <<at, leases>> /\ queue' \in [Calls -> Rows] /\ resp' \in [Calls -> Outcomes] => RelayOK' BY <1>0 DEF RelayOK
<1>s. queue \in [Calls -> Rows] /\ resp \in [Calls -> Outcomes] BY <1>0 DEF RelayOK
<1>1. CASE Lookup(c) BY <1>0, <1>r, <1>m, <1>1, LookupIs
<1>2. CASE Unlink(c)
  <2>1. got[c].id \in Calls BY <1>2 DEF Unlink
  <2>2. resp' \in [Calls -> Outcomes] BY <1>0, <1>2, <2>1 DEF Unlink, RelayOK
  <2> QED BY <1>0, <1>m, <1>q, <1>s, <1>2, <2>1, <2>2, UnlinkIs
<1>3. CASE SettleLate(c)
  <2>1. got[c].id \in Calls BY <1>3 DEF SettleLate
  <2> QED BY <1>0, <1>r, <1>m, <1>3, <2>1, SettleLateIs
<1>4. CASE EndLate(c) BY <1>0, <1>r, <1>m, <1>4, EndLateIs
<1>5. CASE Reserve(c) BY <1>0, <1>r, <1>m, <1>5, ReserveIs
<1>6. CASE Ask(c) BY <1>0, <1>r, <1>m, <1>6, AskIs
<1>7. CASE Begin(c) BY <1>0, <1>r, <1>m, <1>7, BeginIs
<1>8. CASE Submit(c) BY <1>0, <1>m, <1>q, <1>s, <1>8, SubmitIs
<1>9. CASE Record(c) BY <1>0, <1>r, <1>m, <1>9, RecordIs
<1>10. CASE Interrupted(c) BY <1>0, <1>r, <1>m, <1>10, InterruptedIs
<1>11. CASE Receive(c) BY <1>0, <1>m, <1>q, <1>s, <1>11, ReceiveIs
<1>12. CASE Withdraw(c) BY <1>0, <1>m, <1>q, <1>s, <1>12, WithdrawIs
<1>13. CASE TimeOut(c) BY <1>0, <1>r, <1>m, <1>13, TimeOutIs
<1>14. CASE SettleOwn(c) BY <1>0, <1>r, <1>m, <1>14, SettleOwnIs
<1>15. CASE \E i \in Calls : NoLate(c, i) BY <1>0, <1>r, <1>m, <1>15, NoLateIs
<1>16. CASE \E i \in Calls : TakeLate(c, i) BY <1>0, <1>r, <1>m, <1>16, TakeLateIs
<1> QED BY <1>1, <1>2, <1>3, <1>4, <1>5, <1>6, <1>7, <1>8, <1>9, <1>10, <1>11, <1>12, <1>13, <1>14, <1>15, <1>16 DEF CallStep
----------------------------------------------------------------------------
(* What the steps of the queue and the relay do.                           *)

OtherRows(c) == \A d \in Calls \ {c} : queue'[d] = queue[d] /\ resp'[d] = resp[d]
\* The row is answered and removed.
Answered(c, ans) == /\ OtherRows(c) /\ queue[c].in # "none" /\ queue'[c] = NoRow /\ resp'[c] = ans
\* It is removed since it was answered.
Dropped(c) == OtherRows(c) /\ queue[c].in # "none" /\ queue'[c] = NoRow /\ resp'[c] = resp[c] /\ resp[c] # "none"
\* It stays, under the lease it had.
Requeued(c) == /\ OtherRows(c) /\ queue[c].in # "none" /\ queue'[c].in # "none" /\ resp'[c] = resp[c]
               /\ queue'[c].claimed = queue[c].claimed /\ queue'[c].lease = queue[c].lease
\* It is leased, and dispatch n started.
Leased(c, n) == /\ OtherRows(c) /\ queue[c].in # "none" /\ queue'[c].in # "none" /\ resp'[c] = resp[c]
                /\ queue'[c].claimed /\ queue'[c].lease = n
                /\ at'[n].id = c /\ at'[n].step = "claimed" /\ \A m \in Leases \ {n} : at'[m] = at[m]

LEMMA RespondIs ==
    ASSUME TypeOK, NEW c \in Calls, NEW ans \in Outcomes, NEW wrong \in BOOLEAN, Respond(c, ans, wrong), queue[c].in # "none"
    PROVE  /\ queue' \in [Calls -> Rows] /\ resp' \in [Calls -> Outcomes] /\ over' \in BOOLEAN
           /\ ~over' => ~over /\ ~wrong /\ Answered(c, ans)
<1>1. queue \in [Calls -> Rows] /\ resp \in [Calls -> Outcomes] /\ over \in BOOLEAN BY TypeParts DEF RelayOK, RemoteOK
<1>2. resp' \in [Calls -> Outcomes] /\ resp'[c] = ans /\ \A d \in Calls \ {c} : resp'[d] = resp[d]
  BY <1>1 DEF Respond
<1>3. CASE queue' = [queue EXCEPT ![c] = NoRow] /\ over' = (over \/ wrong)
  BY <1>1, <1>2, <1>3, Constants DEF Answered, OtherRows
<1>4. CASE queue' = [queue EXCEPT ![c].in = "leased"] /\ over' = TRUE
  BY <1>1, <1>2, <1>4, RowUpdates
<1> QED BY <1>3, <1>4 DEF Respond

LEMMA RequeueIs ==
    ASSUME TypeOK, NEW c \in Calls, NEW s \in {"pending", "leased"}, NEW u \in BOOLEAN, queue[c].in # "none", resp' = resp,
           queue' = [queue EXCEPT ![c].in = s] \/ queue' = [queue EXCEPT ![c].in = "pending", ![c].unknown = u]
    PROVE  queue' \in [Calls -> Rows] /\ Requeued(c)
<1>1. queue \in [Calls -> Rows] BY TypeParts DEF RelayOK
<1>2. CASE queue' = [queue EXCEPT ![c].in = s]
  <2>1. queue' \in [Calls -> Rows] BY <1>1, <1>2, RowUpdates
  <2>2. queue' = [queue EXCEPT ![c] = [queue[c] EXCEPT !.in = s]] BY <1>2
  <2>3. queue'[c] = [queue[c] EXCEPT !.in = s] /\ \A d \in Calls \ {c} : queue'[d] = queue[d] BY <1>1, <2>2
  <2>4. \A r \in Rows : LET q == [r EXCEPT !.in = s] IN q.in = s /\ q.claimed = r.claimed /\ q.lease = r.lease
    BY DEF Rows
  <2>5. queue'[c].in = s /\ queue'[c].claimed = queue[c].claimed /\ queue'[c].lease = queue[c].lease
    BY <1>1, <2>3, <2>4
  <2> QED BY <2>1, <2>3, <2>5 DEF Requeued, OtherRows
<1>3. CASE queue' = [queue EXCEPT ![c].in = "pending", ![c].unknown = u]
  <2>1. queue' \in [Calls -> Rows] BY <1>1, <1>3, RowUpdates
  <2>2. queue' = [queue EXCEPT ![c] = [queue[c] EXCEPT !.in = "pending", !.unknown = u]] BY <1>3
  <2>3. queue'[c] = [queue[c] EXCEPT !.in = "pending", !.unknown = u] /\ \A d \in Calls \ {c} : queue'[d] = queue[d]
    BY <1>1, <2>2
  <2>4. \A r \in Rows : LET q == [r EXCEPT !.in = "pending", !.unknown = u]
                         IN  q.in = "pending" /\ q.claimed = r.claimed /\ q.lease = r.lease
    BY DEF Rows
  <2>5. queue'[c].in = "pending" /\ queue'[c].claimed = queue[c].claimed /\ queue'[c].lease = queue[c].lease
    BY <1>1, <2>3, <2>4
  <2> QED BY <2>1, <2>3, <2>5 DEF Requeued, OtherRows
<1> QED BY <1>2, <1>3

LEMMA QueueStepIs ==
    ASSUME TypeOK, NEW c \in Calls, Claim(c) \/ RecoverLease(c)
    PROVE  /\ TypeOK' /\ UNCHANGED <<rec, call, net, board>>
           /\ at' = at \/ \E n \in Leases : at'[n].id = c /\ \A m \in Leases \ {n} : at'[m] = at[m]
           /\ ~over' => /\ ~over
                        /\ \/ Answered(c, Expired(c)) /\ at' = at
                           \/ Dropped(c) /\ at' = at
                           \/ Requeued(c) /\ at' = at
                           \/ \E n \in Leases : Leased(c, n)
<1> USE TypeParts
<1>0. queue \in [Calls -> Rows] /\ resp \in [Calls -> Outcomes] /\ at \in [Leases -> Dispatches] /\ leases \in 0..MaxLeases
  BY DEF RelayOK
<1>1. Expired(c) \in Outcomes BY DEF Expired, Outcomes, NoEffect
<1>2. UNCHANGED <<rec, call, net, board>> /\ queue[c].in # "none" BY DEF Claim, RecoverLease
<1>3. CASE Respond(c, Expired(c), FALSE) /\ UNCHANGED <<at, leases>>
  BY <1>0, <1>1, <1>2, <1>3, RespondIs DEF call, CallOK, RelayOK, RemoteOK
<1>4. CASE /\ leases < MaxLeases /\ leases' = leases + 1
           /\ queue' = [queue EXCEPT ![c].in = "leased", ![c].claimed = TRUE, ![c].lease = leases']
           /\ at' = [at EXCEPT ![leases'] = [id |-> c, step |-> "claimed"]] /\ UNCHANGED <<resp, over>>
  <2>1. leases' \in 0..MaxLeases /\ leases' \in Leases
    BY <1>0, <1>4, CoordinateAssumption, SMT DEF Leases
  <2>2. [id |-> c, step |-> "claimed"] \in Dispatches BY SMT DEF Dispatches
  <2>3. at' \in [Leases -> Dispatches] BY <1>0, <1>4, <2>1, <2>2
  <2>4. queue' \in [Calls -> Rows] BY <1>0, <1>4, <2>1, RowUpdates
  <2>5. at'[leases'] = [id |-> c, step |-> "claimed"] /\ \A m \in Leases \ {leases'} : at'[m] = at[m]
    BY <1>0, <1>4, <2>1
  <2>6. at'[leases'].id = c /\ at'[leases'].step = "claimed" BY <2>5, SMT
  <2>7. queue' = [queue EXCEPT ![c] = [queue[c] EXCEPT !.in = "leased", !.claimed = TRUE, !.lease = leases']]
    BY <1>4
  <2>8. /\ queue'[c].in = "leased" /\ queue'[c].claimed /\ queue'[c].lease = leases'
        /\ \A d \in Calls \ {c} : queue'[d] = queue[d]
    BY <1>0, <2>1, <2>7 DEF Rows
  <2>9. Leased(c, leases') BY <1>2, <1>4, <2>5, <2>6, <2>8 DEF Leased, OtherRows
  <2> QED BY <1>0, <1>2, <1>4, <2>1, <2>3, <2>4, <2>5, <2>6, <2>9 DEF call, CallOK, RelayOK, RemoteOK
<1>5. CASE queue' = [queue EXCEPT ![c].in = "leased"] /\ UNCHANGED <<resp, at, leases, over>>
  BY <1>0, <1>2, <1>5, RequeueIs DEF call, CallOK, RelayOK, RemoteOK
<1>6. CASE queue' = [queue EXCEPT ![c].in = "pending"] /\ UNCHANGED <<resp, at, leases, over>>
  BY <1>0, <1>2, <1>6, RequeueIs DEF call, CallOK, RelayOK, RemoteOK
<1>7. CASE resp[c] # "none" /\ queue' = [queue EXCEPT ![c] = NoRow] /\ UNCHANGED <<resp, at, leases, over>>
  BY <1>0, <1>2, <1>7, Constants DEF call, CallOK, RelayOK, RemoteOK, Dropped, OtherRows
<1> QED BY <1>3, <1>4, <1>5, <1>6, <1>7 DEF Claim, RecoverLease

LEMMA AtIs ==
    ASSUME at \in [Leases -> Dispatches], NEW l \in Leases
    PROVE  /\ Stop(l) => /\ at' \in [Leases -> Dispatches] /\ at'[l].step = "none"
                         /\ \A m \in Leases \ {l} : at'[m] = at[m]
           /\ \A s \in {"sent", "unknown", "applied", "refused"} :
                Step(l, s) => /\ at' \in [Leases -> Dispatches] /\ at'[l].id = at[l].id /\ at'[l].step = s
                              /\ \A m \in Leases \ {l} : at'[m] = at[m]
<1>1. Stop(l) => /\ at' \in [Leases -> Dispatches] /\ at'[l] = NoDispatch /\ \A m \in Leases \ {l} : at'[m] = at[m]
  BY Constants DEF Stop
<1>2. NoDispatch.step = "none" BY SMT DEF NoDispatch
<1>3. ASSUME NEW s \in {"sent", "unknown", "applied", "refused"}, Step(l, s)
      PROVE  /\ at' \in [Leases -> Dispatches] /\ at'[l].id = at[l].id /\ at'[l].step = s
             /\ \A m \in Leases \ {l} : at'[m] = at[m]
  <2>1. at' \in [Leases -> Dispatches] BY <1>3, DispatchUpdates DEF Step
  <2>2. at' = [at EXCEPT ![l] = [at[l] EXCEPT !.step = s]] BY <1>3 DEF Step
  <2>3. \A d \in Dispatches : [d EXCEPT !.step = s].id = d.id /\ [d EXCEPT !.step = s].step = s BY DEF Dispatches
  <2> QED BY <2>1, <2>2, <2>3
<1> QED BY <1>1, <1>2, <1>3

\* Why dispatch l may answer c so.
Reason(c, l, ans) == /\ queue[c].lease = l
                     /\ \/ ans = "unknown"
                        \/ ans \in {"applied", "refused"} /\ at[l].step = ans
                        \/ ans = "not_sent" /\ ~Sent(c)

\* The end of a dispatch.
Ended(c, l) == /\ at'[l].step = "none" /\ UNCHANGED <<net, board>>
               /\ \/ UNCHANGED <<queue, resp>>
                  \/ Requeued(c)
                  \/ \E ans \in Outcomes : Answered(c, ans) /\ Reason(c, l, ans)

\* A step within it.
Moved(c, l) ==
    /\ at'[l].id = at[l].id /\ UNCHANGED <<queue, resp, board>>
    /\ \/ at'[l].step = "sent" /\ Current(c, l) /\ net' = [net EXCEPT ![c] = IF @ = "none" THEN "flying" ELSE @]
       \/ at'[l].step = "refused" /\ net' = net /\ (~Sent(c) \/ (board.req = Wants[c] /\ board.st = "refused"))
       \/ at'[l].step = "applied" /\ net' = net /\ board.st = "applied" /\ (net[c] = "in" \/ board.req = Wants[c])
       \/ at'[l].step = "unknown" /\ net' = net

LEMMA AnswerIs ==
    ASSUME TypeOK, NEW c \in Calls, NEW l \in Leases, NEW ans \in Outcomes \ {"none"}, NEW wrong \in BOOLEAN,
           Answer(c, l, ans, wrong), UNCHANGED <<rec, call, leases, net, board>>
    PROVE  /\ TypeOK' /\ at'[l].step = "none" /\ \A m \in Leases \ {l} : at'[m] = at[m]
           /\ ~over' => ~over /\ ((ans \in {"applied", "refused"} => at[l].step = ans)
                                   /\ (ans = "not_sent" /\ ~wrong => ~Sent(c)) => Ended(c, l))
<1>1. at \in [Leases -> Dispatches] BY TypeParts DEF RelayOK
<1>2. at' \in [Leases -> Dispatches] /\ at'[l].step = "none" /\ \A m \in Leases \ {l} : at'[m] = at[m]
  BY <1>1, AtIs DEF Answer
<1>3. CASE ~Current(c, l)
  BY <1>2, <1>3, TypeParts DEF Answer, Ended, call, CallOK, RelayOK, RemoteOK
<1>4. CASE Current(c, l)
  <2>1. queue[c].in # "none" /\ queue[c].lease = l /\ Respond(c, ans, wrong) BY <1>4 DEF Current, Answer
  <2>2. /\ queue' \in [Calls -> Rows] /\ resp' \in [Calls -> Outcomes] /\ over' \in BOOLEAN
        /\ ~over' => ~over /\ ~wrong /\ Answered(c, ans)
    BY <2>1, RespondIs
  <2>3. TypeOK' BY <1>2, <2>2, TypeParts DEF call, CallOK, RelayOK, RemoteOK
  <2>4. ans \in {"unknown", "applied", "refused", "not_sent"} BY DEF Outcomes, NoEffect
  <2> QED BY <1>2, <2>1, <2>2, <2>3, <2>4 DEF Ended, Reason
<1> QED BY <1>3, <1>4

LEMMA DispatchIs ==
    ASSUME TypeOK, NEW c \in Calls, NEW l \in Leases, Dispatch(c, l)
    PROVE  /\ TypeOK' /\ UNCHANGED <<rec, call>> /\ \A m \in Leases \ {l} : at'[m] = at[m]
           /\ at'[l].step # "none" => at'[l].id = at[l].id
           /\ ~over' => ~over /\ (Ended(c, l) \/ Moved(c, l))
<1> USE TypeParts
<1>0. /\ at \in [Leases -> Dispatches] /\ queue \in [Calls -> Rows]
      /\ net \in [Calls -> {"none", "flying", "in", "refused"}] /\ over \in BOOLEAN
  BY DEF RelayOK, RemoteOK
<1>1. /\ "applied" \in Outcomes \ {"none"} /\ "unknown" \in Outcomes \ {"none"}
      /\ "refused" \in Outcomes \ {"none"} /\ "not_sent" \in Outcomes \ {"none"}
  BY SMT DEF Outcomes, NoEffect
<1>b. Sent(c) \in BOOLEAN BY SMT DEF Sent
<1>2. ASSUME NEW u \in BOOLEAN, Defer(c, l, u), UNCHANGED <<rec, call, leases, net, board>>
      PROVE  /\ TypeOK' /\ at'[l].step = "none" /\ \A m \in Leases \ {l} : at'[m] = at[m]
             /\ ~over' => ~over /\ Ended(c, l)
  <2>1. at' \in [Leases -> Dispatches] /\ at'[l].step = "none" /\ \A m \in Leases \ {l} : at'[m] = at[m]
    BY <1>0, <1>2, AtIs DEF Defer
  <2>2. queue' = queue \/ (queue' \in [Calls -> Rows] /\ Requeued(c))
    BY <1>2, RequeueIs DEF Defer, Current
  <2> QED BY <1>0, <1>2, <2>1, <2>2 DEF Defer, Ended, call, CallOK, RelayOK, RemoteOK
<1>3. ASSUME NEW s \in {"sent", "unknown", "applied", "refused"}, Step(l, s),
             UNCHANGED <<rec, call, queue, resp, leases, board>>, over' \in BOOLEAN,
             net' \in [Calls -> {"none", "flying", "in", "refused"}]
      PROVE  /\ TypeOK' /\ at'[l].id = at[l].id /\ at'[l].step = s /\ \A m \in Leases \ {l} : at'[m] = at[m]
  <2>1. at' \in [Leases -> Dispatches] /\ at'[l].id = at[l].id /\ at'[l].step = s /\ \A m \in Leases \ {l} : at'[m] = at[m]
    BY <1>0, <1>3, AtIs
  <2> QED BY <1>3, <2>1 DEF call, CallOK, RelayOK, RemoteOK
<1>4. CASE LostLease(c, l)
  <2>1. at' \in [Leases -> Dispatches] /\ at'[l].step = "none" /\ \A m \in Leases \ {l} : at'[m] = at[m]
    BY <1>0, <1>4, AtIs DEF LostLease
  <2> QED BY <1>4, <2>1 DEF LostLease, Ended, call, CallOK, RelayOK, remote, RemoteOK
<1>5. CASE Fenced(c, l)
  BY <1>2, <1>5 DEF Fenced, call
<1>6. CASE Send(c, l)
  <2>1. net' = [net EXCEPT ![c] = IF @ = "none" THEN "flying" ELSE @] /\ Step(l, "sent") /\ Current(c, l)
        /\ UNCHANGED <<rec, call, queue, resp, leases, board, over>>
    BY <1>6 DEF Send, Marked
  <2>2. net' \in [Calls -> {"none", "flying", "in", "refused"}] BY <1>0, <2>1
  <2>3. TypeOK' /\ at'[l].id = at[l].id /\ at'[l].step = "sent" /\ \A m \in Leases \ {l} : at'[m] = at[m]
    BY <1>0, <1>3, <2>1, <2>2
  <2> QED BY <2>1, <2>3 DEF Moved
<1>7. CASE Reject(c, l)
  <2>1. Step(l, "refused") /\ over' = (over \/ Sent(c)) /\ UNCHANGED <<rec, call, queue, resp, leases, net, board>>
    BY <1>7 DEF Reject
  <2>2. TypeOK' /\ at'[l].id = at[l].id /\ at'[l].step = "refused" /\ \A m \in Leases \ {l} : at'[m] = at[m]
    BY <1>0, <1>b, <1>3, <2>1
  <2> QED BY <2>1, <2>2 DEF Moved
<1>8. CASE Reply(c, l)
  <2>1. UNCHANGED <<rec, call, queue, resp, leases, net, board, over>> BY <1>8 DEF Reply, remote
  <2>2. PICK s \in {"unknown", "applied", "refused"} :
          /\ Step(l, s) /\ (s = "refused" => net[c] = "refused") /\ (s = "applied" => net[c] = "in" /\ board.st = "applied")
    BY <1>8 DEF Reply
  <2>3. TypeOK' /\ at'[l].id = at[l].id /\ at'[l].step = s /\ \A m \in Leases \ {l} : at'[m] = at[m]
    BY <1>0, <1>3, <2>1, <2>2
  <2> QED BY <2>1, <2>2, <2>3 DEF Moved, Sent
<1>9. CASE Look(c, l)
  <2>1. UNCHANGED <<rec, call, queue, resp, leases, net, board, over>> BY <1>9 DEF Look, remote
  <2>2. PICK s \in {"unknown", "applied", "refused"} : Step(l, s) /\ (s # "unknown" => Receipt(Wants[c]) = s)
    BY <1>9 DEF Look
  <2>3. s # "unknown" => board.req = Wants[c] /\ board.st = s BY <2>2 DEF Receipt
  <2>4. TypeOK' /\ at'[l].id = at[l].id /\ at'[l].step = s /\ \A m \in Leases \ {l} : at'[m] = at[m]
    BY <1>0, <1>3, <2>1, <2>2
  <2> QED BY <2>1, <2>2, <2>3, <2>4 DEF Moved
<1>10. CASE Complete(c, l)
  <2>1. PICK ans \in {"applied", "unknown", "refused"} : Answer(c, l, ans, FALSE) /\ (ans = "unknown" \/ at[l].step = ans)
    BY <1>10 DEF Complete
  <2>2. UNCHANGED <<rec, call, leases, net, board>> BY <1>10 DEF Complete
  <2> QED BY <1>1, <2>1, <2>2, AnswerIs
<1>11. CASE Unknown(c, l)
  <2>1. UNCHANGED <<rec, call, leases, net, board>> /\ (Defer(c, l, TRUE) \/ Answer(c, l, "unknown", FALSE))
    BY <1>11 DEF Unknown
  <2>2. CASE Defer(c, l, TRUE) BY <1>2, <2>1, <2>2
  <2>3. CASE Answer(c, l, "unknown", FALSE) BY <1>1, <2>1, <2>3, AnswerIs
  <2> QED BY <2>1, <2>2, <2>3
<1>12. CASE Mismatch(c, l) \/ TooLarge(c, l)
  <2>1. UNCHANGED <<rec, call, leases, net, board>> /\ Answer(c, l, "not_sent", Sent(c))
    BY <1>12 DEF Mismatch, TooLarge
  <2>2. CASE Sent(c) = TRUE
    <3>1. Answer(c, l, "not_sent", TRUE) BY <2>1, <2>2
    <3> QED BY <1>1, <2>1, <3>1, AnswerIs
  <2>3. CASE Sent(c) = FALSE
    <3>1. Answer(c, l, "not_sent", FALSE) BY <2>1, <2>3
    <3> QED BY <1>1, <2>1, <2>3, <3>1, AnswerIs
  <2> QED BY <1>b, <2>2, <2>3
<1> QED BY <1>4, <1>5, <1>6, <1>7, <1>8, <1>9, <1>10, <1>11, <1>12 DEF Dispatch

----------------------------------------------------------------------------
(* The steps of a call, by what they do to the key, to the queue and to    *)
(* the call.                                                               *)

SettledStep == \E i \in Calls, o \in Outcomes \ {"none"} :
                  /\ rec' = Settled(i, o)
                  /\ o \in NoEffect => Dead(i)
                  /\ o = "applied" => board.st = "applied"
SubmittedStep(c) == pc[c] \in {"record", "holds"} /\ pc'[c] \in Taken /\ rec' = Submitted(c)
AbandonedStep(c) == /\ pc[c] = "holds" /\ pc'[c] = "done" /\ queue[c].in = "none" /\ resp[c] = "none"
                    /\ rec' = Abandoned(c)
ReservedStep == rec = NoRecord /\ rec'.publishing = {} /\ ~rec'.applied /\ \A d \in Calls : rec'.out[d] = "none"
BegunStep(c) == /\ pc[c] = "begin" /\ pc'[c] = "submit" /\ (rec = NoRecord \/ Same(c))
                /\ rec'.req = Wants[c] /\ rec'.publishing = rec.publishing \cup {c}
                /\ rec'.out = rec.out /\ rec'.applied = rec.applied

LEMMA NoAnswerIs == NoAnswer.ans = "none" /\ NoRow.in = "none" /\ NoRow.lease = 0 /\ NoRow.claimed = FALSE
BY SMT DEF NoAnswer, NoRow

LEMMA KeySteps ==
    ASSUME TypeOK, PhaseInv, RefusalInv, AppliedInv, NEW c \in Calls, CallStep(c)
    PROVE  rec' = rec \/ SettledStep \/ SubmittedStep(c) \/ AbandonedStep(c) \/ ReservedStep \/ BegunStep(c)
<1>0. rec \in Records /\ got \in [Calls -> Answers] BY TypeParts DEF CallOK
<1>1. got[c].ans \in Outcomes BY <1>0, SMT DEF Answers
<1>2. CASE SettleLate(c)
  <2>1. pc[c] = "settle" BY <1>2 DEF SettleLate
  <2>2. got[c].id \in Calls /\ got[c].ans # "none" BY <2>1 DEF PhaseInv
  <2>3. rec' = rec \/ rec' = Settled(got[c].id, got[c].ans) BY <1>2, <2>2, SettleLateIs
  <2>4. got[c].ans \in NoEffect => Dead(got[c].id) BY DEF RefusalInv
  <2>5. got[c].ans = "applied" => board.st = "applied" BY DEF AppliedInv, Applied
  <2>6. got[c].ans \in Outcomes \ {"none"} BY <1>1, <2>2
  <2>7. CASE rec' = Settled(got[c].id, got[c].ans)
    <3>1. SettledStep BY <2>2, <2>4, <2>5, <2>6, <2>7 DEF SettledStep
    <3> QED BY <3>1
  <2> QED BY <2>3, <2>7
<1>3. CASE SettleOwn(c)
  <2>1. pc[c] = "settleown" /\ rec' = Settled(c, got[c].ans) BY <1>3 DEF SettleOwn
  <2>2. got[c].id = c /\ got[c].ans # "none" BY <2>1 DEF PhaseInv
  <2>4. got[c].ans \in NoEffect => Dead(c) BY <2>2 DEF RefusalInv
  <2>5. got[c].ans = "applied" => board.st = "applied" BY DEF AppliedInv, Applied
  <2> QED BY <1>1, <2>1, <2>2, <2>4, <2>5 DEF SettledStep
<1>4. CASE Ask(c)
  <2>1. rec' = rec \/ (board.st = "applied" /\ \E i \in Ids : rec' = Settled(i, "applied")) BY <1>4, AskIs
  <2>2. Ids \subseteq Calls /\ "applied" \in Outcomes \ {"none"} /\ "applied" \notin NoEffect
    BY SMT DEF Ids, Outcomes, NoEffect
  <2> QED BY <2>1, <2>2 DEF SettledStep
<1>5. CASE Reserve(c)
  <2>1. rec' = rec \/ ReservedStep BY <1>5, ReserveIs DEF ReservedStep
  <2> QED BY <2>1
<1>6. CASE Begin(c)
  <2>1. rec' = rec \/ BegunStep(c) BY <1>6, BeginIs DEF BegunStep
  <2> QED BY <2>1
<1>7. CASE Record(c)
  <2>1. rec' = rec \/ SubmittedStep(c) BY <1>7, RecordIs DEF SubmittedStep, Taken
  <2> QED BY <2>1
<1>8. CASE Interrupted(c)
  <2>1. rec' = rec \/ SubmittedStep(c) \/ AbandonedStep(c) BY <1>8, InterruptedIs DEF SubmittedStep, AbandonedStep, Taken
  <2> QED BY <2>1
<1>9. CASE \/ Lookup(c) \/ Unlink(c) \/ EndLate(c) \/ Submit(c) \/ Receive(c) \/ Withdraw(c) \/ TimeOut(c)
           \/ \E i \in Calls : NoLate(c, i) \/ TakeLate(c, i)
  <2>1. rec' = rec BY <1>9 DEF Lookup, Unlink, EndLate, Submit, Receive, Withdraw, TimeOut, NoLate, TakeLate
  <2> QED BY <2>1
<1> QED BY <1>2, <1>3, <1>4, <1>5, <1>6, <1>7, <1>8, <1>9 DEF CallStep

SubmitStep(c) == /\ pc[c] = "submit" /\ resp' = resp /\ \A d \in Calls \ {c} : queue'[d] = queue[d]
                 /\ queue'[c].claimed = queue[c].claimed /\ queue'[c].lease = queue[c].lease
                 /\ \/ queue'[c].in = "pending" /\ pc'[c] \in {"record", "holds"}
                    \/ queue'[c].in = queue[c].in /\ pc'[c] = "holds"
WithdrawStep(c) == /\ pc[c] = "wait" /\ queue[c].in # "none" /\ resp' = resp
                   /\ queue'[c] = NoRow /\ \A d \in Calls \ {c} : queue'[d] = queue[d]
TakenStep == /\ queue' = queue
             /\ \E i \in Calls : pc[i] \in Taken /\ resp'[i] = "none" /\ \A d \in Calls \ {i} : resp'[d] = resp[d]

LEMMA CallRemote ==
    ASSUME NEW c \in Calls, CallStep(c)
    PROVE  UNCHANGED <<at, leases, net, board, over>>
BY DEF CallStep, Lookup, Unlink, SettleLate, EndLate, Reserve, Ask, Begin, Submit, Record, Interrupted, Receive, Withdraw,
       TimeOut, SettleOwn, NoLate, TakeLate, relay, remote

LEMMA RowSteps ==
    ASSUME TypeOK, PhaseInv, NEW c \in Calls, CallStep(c)
    PROVE  /\ UNCHANGED <<at, leases, net, board, over>>
           /\ UNCHANGED <<queue, resp>> \/ SubmitStep(c) \/ WithdrawStep(c) \/ TakenStep
<1>1. UNCHANGED <<at, leases, net, board, over>> BY CallRemote
<1>2. CASE Submit(c)
  <2>1. SubmitStep(c) BY <1>2, SubmitIs DEF SubmitStep
  <2> QED BY <1>1, <2>1
<1>3. CASE Withdraw(c)
  <2>1. WithdrawStep(c) BY <1>3, WithdrawIs DEF WithdrawStep
  <2> QED BY <1>1, <2>1
<1>4. CASE Receive(c)
  <2>1. /\ queue' = queue /\ pc[c] \in Taken /\ resp'[c] = "none" /\ \A d \in Calls \ {c} : resp'[d] = resp[d]
    BY <1>4, ReceiveIs DEF Taken
  <2>2. TakenStep BY <2>1 DEF TakenStep
  <2> QED BY <1>1, <2>2
<1>5. CASE Unlink(c)
  <2>1. got[c].id \in Calls /\ pc[got[c].id] \in Taken BY <1>5 DEF Unlink, PhaseInv
  <2>2. queue' = queue /\ resp'[got[c].id] = "none" /\ \A d \in Calls \ {got[c].id} : resp'[d] = resp[d]
    BY <1>5, <2>1, UnlinkIs
  <2>3. TakenStep BY <2>1, <2>2 DEF TakenStep
  <2> QED BY <1>1, <2>3
<1>6. CASE \/ Lookup(c) \/ SettleLate(c) \/ EndLate(c) \/ Reserve(c) \/ Ask(c) \/ Begin(c) \/ Record(c) \/ Interrupted(c)
           \/ TimeOut(c) \/ SettleOwn(c) \/ \E i \in Calls : NoLate(c, i) \/ TakeLate(c, i)
  BY <1>1, <1>6 DEF Lookup, SettleLate, EndLate, Reserve, Ask, Begin, Record, Interrupted, TimeOut, SettleOwn,
                    NoLate, TakeLate, relay
<1> QED BY <1>2, <1>3, <1>4, <1>5, <1>6 DEF CallStep

\* How a call moves, and what it knows and takes meanwhile.
SeenStep(c) == seen'[c] \subseteq seen[c] \/ seen'[c] = Ids
GotStep(c) == \/ got'[c].ans = "none" /\ pc'[c] \notin {"unlink", "settle", "settleown"}
              \/ got'[c] = got[c] /\ pc'[c] \notin {"unlink", "settle", "settleown"}
              \/ got'[c] = got[c] /\ pc[c] = "unlink" /\ pc'[c] = "settle"
              \/ \E i \in seen[c] : /\ i \in Calls /\ got'[c].id = i /\ got'[c].ans = resp[i] /\ resp[i] # "none"
                                   /\ pc'[c] = "unlink"
              \/ pc'[c] = "settleown" /\ got'[c].id = c /\ resp[c] # "none" /\ got'[c].ans = resp[c]
              \/ pc'[c] = "settleown" /\ got'[c].id = c /\ got'[c].ans = Withdrawn(c) /\ WithdrawStep(c)
              \/ pc'[c] = "settleown" /\ got'[c].id = c /\ got'[c].ans = "unknown"
PcStep(c) == /\ pc'[c] \in Before => pc[c] \in Before
             /\ pc[c] \in Taken => pc'[c] \in Taken
             /\ pc'[c] = "submit" => BegunStep(c)
             /\ pc'[c] \in {"record", "holds"} => SubmitStep(c)

LEMMA CallMoves ==
    ASSUME TypeOK, IdsInv, NEW c \in Calls, CallStep(c)
    PROVE  OthersKept(c) /\ SeenStep(c) /\ GotStep(c) /\ PcStep(c)
<1> USE NoAnswerIs DEF SeenStep, GotStep, PcStep, Before, Taken
<1>1. CASE Lookup(c) BY <1>1, LookupIs
<1>2. CASE Unlink(c)
  <2>1. got[c].id \in Calls BY <1>2 DEF Unlink, IdsInv
  <2> QED BY <1>2, <2>1, UnlinkIs
<1>3. CASE SettleLate(c)
  <2>1. got[c].id \in Calls BY <1>3 DEF SettleLate, IdsInv
  <2> QED BY <1>3, <2>1, SettleLateIs
<1>4. CASE EndLate(c) BY <1>4, EndLateIs
<1>5. CASE Reserve(c) BY <1>5, ReserveIs
<1>6. CASE Ask(c) BY <1>6, AskIs
<1>7. CASE Begin(c) BY <1>7, BeginIs DEF BegunStep
<1>8. CASE Submit(c)
  <2>1. SubmitStep(c) BY <1>8, SubmitIs DEF SubmitStep
  <2> QED BY <1>8, <2>1, SubmitIs
<1>9. CASE Record(c) BY <1>9, RecordIs
<1>10. CASE Interrupted(c) BY <1>10, InterruptedIs
<1>11. CASE Receive(c) BY <1>11, ReceiveIs
<1>12. CASE Withdraw(c)
  <2>1. WithdrawStep(c) BY <1>12, WithdrawIs DEF WithdrawStep
  <2> QED BY <1>12, <2>1, WithdrawIs
<1>13. CASE TimeOut(c) BY <1>13, TimeOutIs
<1>14. CASE SettleOwn(c) BY <1>14, SettleOwnIs
<1>15. CASE \E i \in Calls : NoLate(c, i)
  <2>1. PICK i \in Calls : NoLate(c, i) BY <1>15
  <2>2. pc[c] = "late" BY <2>1 DEF NoLate
  <2> QED BY <2>1, <2>2, NoLateIs
<1>16. CASE \E i \in Calls : TakeLate(c, i)
  <2> HIDE DEF SeenStep, GotStep, PcStep, Before, Taken
  <2>1. PICK i \in Calls : TakeLate(c, i) BY <1>16
  <2>2. /\ OthersKept(c) /\ pc[c] = "late" /\ pc'[c] = "unlink" /\ i \in seen[c] /\ seen'[c] = seen[c] \ {i}
        /\ resp[i] # "none" /\ got'[c].id = i /\ got'[c].ans = resp[i]
    <3>1. /\ CallOK' /\ OthersKept(c) /\ UNCHANGED <<rec, relay, remote>>
          /\ pc[c] = "late" /\ pc'[c] = "unlink" /\ i \in seen[c] /\ seen'[c] = seen[c] \ {i} /\ resp[i] # "none"
          /\ got'[c].id = i /\ got'[c].ans = resp[i]
      BY ONLY TypeOK, <2>1, TakeLateIs
    <3> QED BY ONLY <3>1
  <2>3. GotStep(c) BY <2>2 DEF GotStep
  <2>4. SeenStep(c) /\ PcStep(c) BY <2>2 DEF SeenStep, PcStep, Before, Taken
  <2> QED BY <2>2, <2>3, <2>4
<1> QED BY <1>1, <1>2, <1>3, <1>4, <1>5, <1>6, <1>7, <1>8, <1>9, <1>10, <1>11, <1>12, <1>13, <1>14, <1>15, <1>16 DEF CallStep

----------------------------------------------------------------------------
(* The invariant through a step of a call.                                 *)

LEMMA PcKept ==
    ASSUME TypeOK, IdsInv, PhaseInv, NEW c \in Calls, CallStep(c)
    PROVE  \A d \in Calls : (pc'[d] \in Before => pc[d] \in Before) /\ (pc[d] \in Taken => pc'[d] \in Taken)
BY CallMoves DEF OthersKept, PcStep

LEMMA CallPhase ==
    ASSUME TypeOK, IdsInv, PhaseInv, RefusalInv, AppliedInv, NEW c \in Calls, CallStep(c)
    PROVE  PhaseInv'
<1>0. rec \in Records /\ rec.out \in [Calls -> Outcomes] /\ rec.publishing \subseteq Calls BY TypeParts, SMT DEF Records
<1>1. OthersKept(c) /\ SeenStep(c) /\ GotStep(c) /\ PcStep(c) BY CallMoves
<1>2. \A d \in Calls : (pc'[d] \in Before => pc[d] \in Before) /\ (pc[d] \in Taken => pc'[d] \in Taken) BY PcKept
<1>3. net' = net /\ (UNCHANGED <<queue, resp>> \/ SubmitStep(c) \/ WithdrawStep(c) \/ TakenStep) BY RowSteps
<1>4. rec' = rec \/ SettledStep \/ SubmittedStep(c) \/ AbandonedStep(c) \/ ReservedStep \/ BegunStep(c) BY KeySteps
<1>5. ASSUME NEW d \in Calls, pc'[d] \in Before PROVE queue'[d].in = "none" /\ net'[d] = "none"
  <2>1. pc[d] \in Before /\ queue[d].in = "none" /\ net[d] = "none" BY <1>2, <1>5 DEF PhaseInv
  <2>2. CASE UNCHANGED <<queue, resp>> \/ TakenStep BY <1>3, <2>1, <2>2 DEF TakenStep
  <2>3. CASE SubmitStep(c)
    <3>1. d # c BY <1>5, <2>3 DEF SubmitStep, Before
    <3> QED BY <1>3, <2>1, <2>3, <3>1 DEF SubmitStep
  <2>4. CASE WithdrawStep(c) BY <1>3, <2>1, <2>4, NoAnswerIs DEF WithdrawStep
  <2> QED BY <1>3, <2>2, <2>3, <2>4
<1>6. ASSUME NEW d \in Calls, pc'[d] \in {"submit", "record", "holds"} PROVE d \in rec'.publishing /\ Held(Wants[d])'
  <2>1. CASE d = c /\ pc'[c] = "submit"
    BY <1>1, <2>1 DEF PcStep, BegunStep, Held
  <2>2. CASE ~(d = c /\ pc'[c] = "submit")
    <3>1. pc[d] \in {"submit", "record", "holds"} BY <1>1, <1>6, <2>2 DEF OthersKept, PcStep, SubmitStep
    <3>2. d \in rec.publishing /\ Held(Wants[d]) BY <3>1 DEF PhaseInv
    <3>3. rec # NoRecord BY <3>2, NoRecordIs
    <3>4. d = c => pc[c] = "submit" /\ pc'[c] \in {"record", "holds"} BY <1>1, <1>6, <2>2 DEF PcStep, SubmitStep
    <3>5. CASE rec' = rec BY <3>2, <3>5 DEF Held
    <3>6. CASE SettledStep
      <4>1. PICK i \in Calls, o \in Outcomes : rec' = Settled(i, o) BY <3>6 DEF SettledStep
      <4>2. rec'.req = rec.req /\ rec'.publishing = rec.publishing BY <1>0, <3>2, <3>3, <4>1, SettledIs
      <4> QED BY <3>2, <4>2 DEF Held
    <3>7. CASE SubmittedStep(c)
      <4>1. d # c BY <1>6, <3>7 DEF SubmittedStep, Taken
      <4>2. rec'.req = rec.req /\ rec'.publishing = rec.publishing \ {c} BY <1>0, <3>7, SubmittedIs DEF SubmittedStep
      <4> QED BY <3>2, <4>1, <4>2 DEF Held
    <3>8. CASE AbandonedStep(c)
      <4>1. d # c BY <1>6, <3>8 DEF AbandonedStep
      <4>2. rec'.req = rec.req /\ rec'.publishing = rec.publishing \ {c}
        BY <1>0, <3>2, <3>8, <4>1, AbandonedIs DEF AbandonedStep
      <4> QED BY <3>2, <4>1, <4>2 DEF Held
    <3>9. CASE ReservedStep BY <3>3, <3>9 DEF ReservedStep
    <3>10. CASE BegunStep(c)
      BY <3>2, <3>3, <3>10 DEF BegunStep, Same, Held
    <3> QED BY <1>4, <3>5, <3>6, <3>7, <3>8, <3>9, <3>10
  <2> QED BY <2>1, <2>2
<1>7. ASSUME NEW d \in Calls, rec'.out[d] # "none" PROVE pc'[d] \in Taken
  <2>1. rec.out[d] # "none" => pc'[d] \in Taken BY <1>2 DEF PhaseInv
  <2>2. CASE rec' = rec BY <1>7, <2>1, <2>2
  <2>3. CASE SettledStep
    <3>1. PICK i \in Calls, o \in Outcomes : rec' = Settled(i, o) BY <2>3 DEF SettledStep
    <3>2. rec' # NoRecord BY <1>7, NoRecordIs
    <3>3. \A j \in Calls : rec'.out[j] = IF j = i /\ i \in Ids THEN o ELSE rec.out[j] BY <1>0, <3>1, <3>2, SettledStays
    <3>4. rec'.out[d] = rec.out[d] \/ d \in Ids BY <3>3
    <3> QED BY <1>7, <2>1, <3>4 DEF Ids
  <2>4. CASE SubmittedStep(c)
    <3>1. d = c \/ rec'.out[d] = rec.out[d] BY <1>0, <2>4, SubmittedIs DEF SubmittedStep
    <3> QED BY <1>7, <2>1, <2>4, <3>1 DEF SubmittedStep
  <2>5. CASE AbandonedStep(c)
    <3>1. rec'.out[d] = rec.out[d] BY <1>0, <1>7, <2>5, AbandonedIs, NoRecordIs DEF AbandonedStep
    <3> QED BY <1>7, <2>1, <3>1
  <2>6. CASE ReservedStep \/ BegunStep(c) BY <1>7, <2>1, <2>6 DEF ReservedStep, BegunStep
  <2> QED BY <1>4, <2>2, <2>3, <2>4, <2>5, <2>6
<1>8. ASSUME NEW d \in Calls, NEW i \in seen'[d] PROVE pc'[i] \in Taken
  <2>1. i \in seen[d] \/ i \in Ids BY <1>1, <1>8 DEF OthersKept, SeenStep
  <2>2. seen[d] \subseteq Calls /\ Ids \subseteq Calls BY TypeParts DEF CallOK, Ids
  <2>3. pc[i] \in Taken BY <2>1, <2>2 DEF PhaseInv, Ids
  <2> QED BY <1>2, <2>1, <2>2, <2>3
<1>9. ASSUME NEW d \in Calls, pc'[d] \in {"unlink", "settle"} PROVE got'[d].id \in Calls /\ pc'[got'[d].id] \in Taken
  <2>1. CASE d # c BY <1>1, <1>2, <1>9, <2>1 DEF OthersKept, PhaseInv
  <2>2. CASE d = c /\ got'[c] = got[c] /\ pc[c] = "unlink" BY <1>2, <2>2 DEF PhaseInv
  <2>3. CASE d = c /\ \E i \in seen[c] : i \in Calls /\ got'[c].id = i BY <1>2, <2>3 DEF PhaseInv
  <2> QED BY <1>1, <1>9, <2>1, <2>2, <2>3 DEF GotStep
<1>10. ASSUME NEW d \in Calls, pc'[d] = "settleown" PROVE got'[d].id = d
  <2>1. CASE d # c BY <1>1, <1>10, <2>1 DEF OthersKept, PhaseInv
  <2>2. CASE d = c BY <1>1, <1>10, <2>2 DEF GotStep
  <2> QED BY <2>1, <2>2
<1>11. ASSUME NEW d \in Calls, pc'[d] \in {"unlink", "settle", "settleown"} PROVE got'[d].ans # "none"
  <2>1. CASE d # c BY <1>1, <1>11, <2>1 DEF OthersKept, PhaseInv
  <2>2. CASE d = c
    <3>1. Withdrawn(c) # "none" BY DEF Withdrawn
    <3>2. pc[c] = "unlink" => got[c].ans # "none" BY DEF PhaseInv
    <3> QED BY <1>1, <1>11, <2>2, <3>1, <3>2 DEF GotStep
  <2> QED BY <2>1, <2>2
<1> QED BY <1>5, <1>6, <1>7, <1>8, <1>9, <1>10, <1>11 DEF PhaseInv

LEMMA CallRows ==
    ASSUME TypeOK, IdsInv, PhaseInv, RowInv, NEW c \in Calls, CallStep(c)
    PROVE  RowInv'
<1>1. OthersKept(c) /\ PcStep(c) BY CallMoves
<1>2. net' = net /\ (UNCHANGED <<queue, resp>> \/ SubmitStep(c) \/ WithdrawStep(c) \/ TakenStep) BY RowSteps
<1>3. pc[c] = "submit" => net[c] = "none" BY DEF PhaseInv, Before
<1>4. ASSUME NEW d \in Calls, ~queue'[d].claimed
      PROVE  queue'[d].lease = 0 /\ (queue'[d].in # "none" => net'[d] = "none")
  <2>1. CASE queue'[d] = queue[d] BY <1>2, <1>4, <2>1 DEF RowInv
  <2>2. CASE d = c /\ SubmitStep(c) BY <1>2, <1>3, <1>4, <2>2 DEF SubmitStep, RowInv
  <2>3. CASE d = c /\ WithdrawStep(c) BY <2>3, NoAnswerIs DEF WithdrawStep
  <2> QED BY <1>2, <2>1, <2>2, <2>3 DEF SubmitStep, WithdrawStep, TakenStep
<1>5. ASSUME NEW d \in Calls, pc'[d] = "holds", queue'[d].in = "none", resp'[d] = "none" PROVE net'[d] = "none"
  <2>1. CASE d = c BY <1>1, <1>2, <1>3, <1>5, <2>1 DEF PcStep, SubmitStep
  <2>2. CASE d # c
    <3>1. pc[d] = "holds" BY <1>1, <1>5, <2>2 DEF OthersKept
    <3>2. queue[d].in = "none" BY <1>2, <1>5, <2>2 DEF SubmitStep, WithdrawStep, TakenStep
    <3>3. resp[d] = "none" BY <1>2, <1>5, <2>2, <3>1 DEF SubmitStep, WithdrawStep, TakenStep, Taken
    <3> QED BY <1>2, <3>1, <3>2, <3>3 DEF RowInv
  <2> QED BY <2>1, <2>2
<1> QED BY <1>4, <1>5 DEF RowInv

LEMMA LiveKept == ASSUME UNCHANGED <<net, board>> PROVE \A d \in Calls : Live(d)' <=> Live(d)
BY DEF Live

LEMMA CallDead ==
    ASSUME TypeOK, IdsInv, PhaseInv, NEW c \in Calls, CallStep(c)
    PROVE  \A d \in Calls : Dead(d) => Dead(d)'
<1>1. \A d \in Calls : (pc'[d] \in Before => pc[d] \in Before) /\ (pc[d] \in Taken => pc'[d] \in Taken) BY PcKept
<1>2. /\ UNCHANGED <<net, board>>
      /\ UNCHANGED <<queue, resp>> \/ SubmitStep(c) \/ WithdrawStep(c) \/ TakenStep BY RowSteps
<1>3. ASSUME NEW d \in Calls, Dead(d) PROVE queue'[d].in = "none"
  <2>1. pc[d] \notin Before /\ queue[d].in = "none" BY <1>3 DEF Dead
  <2>2. CASE SubmitStep(c)
    <3>1. d # c BY <2>1, <2>2 DEF SubmitStep, Before
    <3> QED BY <2>1, <2>2, <3>1 DEF SubmitStep
  <2>3. CASE WithdrawStep(c) BY <2>1, <2>3, NoAnswerIs DEF WithdrawStep
  <2> QED BY <1>2, <2>1, <2>2, <2>3 DEF TakenStep
<1> QED BY <1>1, <1>2, <1>3, LiveKept DEF Dead

LEMMA CallKey ==
    ASSUME TypeOK, PhaseInv, PhaseInv', RowInv, KeyInv, RefusalInv, AppliedInv, NEW c \in Calls, CallStep(c)
    PROVE  KeyInv'
<1>0. rec \in Records /\ rec.out \in [Calls -> Outcomes] BY TypeParts, SMT DEF Records
<1>1. /\ UNCHANGED <<net, board>>
      /\ UNCHANGED <<queue, resp>> \/ SubmitStep(c) \/ WithdrawStep(c) \/ TakenStep BY RowSteps
<1>2. rec' = rec \/ SettledStep \/ SubmittedStep(c) \/ AbandonedStep(c) \/ ReservedStep \/ BegunStep(c) BY KeySteps
<1> SUFFICES ASSUME NEW d \in Calls, queue'[d].in # "none" \/ Live(d)'
             PROVE  Held(Wants[d])' /\ d \in Ids' \cup rec'.publishing
  BY DEF KeyInv
<1>3. CASE pc'[d] \in {"record", "holds"}
  BY <1>3 DEF PhaseInv
<1>4. CASE pc'[d] \notin {"record", "holds"}
  <2>1. queue[d].in # "none" \/ Live(d)
    <3>1. CASE Live(d)' BY <1>1, <3>1, LiveKept
    <3>2. CASE queue'[d].in # "none"
      BY <1>1, <1>4, <3>2, NoAnswerIs DEF SubmitStep, WithdrawStep, TakenStep
    <3> QED BY <3>1, <3>2
  <2>2. Held(Wants[d]) /\ d \in Ids \cup rec.publishing BY <2>1 DEF KeyInv
  <2>3. ~Dead(d) /\ rec.out[d] \notin NoEffect BY <2>1 DEF Dead, RefusalInv
  <2>4. rec # NoRecord BY <2>2, NoRecordIs DEF Ids
  <2>5. d \in Ids <=> rec.out[d] # "none" BY DEF Ids
  <2>6. d \in Ids' <=> rec'.out[d] # "none" BY DEF Ids
  <2>7. CASE rec' = rec BY <2>2, <2>7 DEF Held, Ids
  <2>8. CASE SettledStep
    <3>1. PICK i \in Calls, o \in Outcomes : rec' = Settled(i, o) /\ o # "none" /\ (o \in NoEffect => Dead(i))
      BY <2>8 DEF SettledStep
    <3>2. ~(rec.publishing = {} /\ \A j \in Calls : j # i => rec.out[j] \in NoEffect \cup {"none"}) \/ o \notin NoEffect
      BY <2>2, <2>3, <2>5, <3>1
    <3>3. /\ rec'.req = rec.req /\ rec'.publishing = rec.publishing
          /\ \A j \in Calls : rec'.out[j] = IF j = i /\ i \in Ids THEN o ELSE rec.out[j]
      <4>1. \/ /\ rec' = NoRecord /\ ~rec.applied /\ rec.publishing = {} /\ o \in NoEffect \cup {"none"}
               /\ \A j \in Calls : j # i => rec.out[j] \in NoEffect \cup {"none"}
            \/ /\ rec'.req = rec.req /\ rec'.publishing = rec.publishing
               /\ rec'.applied <=> rec.applied \/ o = "applied"
               /\ \A j \in Calls : rec'.out[j] = IF j = i /\ i \in Ids THEN o ELSE rec.out[j]
        <5>1. rec' = Settled(i, o) BY <3>1
        <5> QED BY ONLY <1>0, <2>4, <5>1, SettledFrees
      <4> QED BY <3>1, <3>2, <4>1
    <3>4. d \in Ids => d \in Ids' BY <2>5, <2>6, <3>1, <3>3
    <3> QED BY <2>2, <3>3, <3>4 DEF Held
  <2>9. CASE SubmittedStep(c)
    <3>1. /\ rec'.req = rec.req /\ rec'.publishing = rec.publishing \ {c}
          /\ \A j \in Calls : rec'.out[j] = IF j = c /\ rec.out[j] = "none" THEN "unknown" ELSE rec.out[j]
      BY <1>0, <2>9, SubmittedIs DEF SubmittedStep
    <3>2. rec'.out[c] # "none" /\ (rec.out[d] # "none" => rec'.out[d] # "none") BY <3>1
    <3> QED BY <2>2, <2>5, <2>6, <3>1, <3>2 DEF Held
  <2>10. CASE AbandonedStep(c)
    <3>1. pc[c] = "holds" /\ queue[c].in = "none" /\ resp[c] = "none" BY <2>10 DEF AbandonedStep
    <3>2. net[c] = "none" BY <3>1 DEF RowInv
    <3>3. d # c BY <2>1, <3>1, <3>2 DEF Live
    <3>4. ~(Ids = {} /\ rec.publishing \ {c} = {}) BY <2>2, <3>3
    <3>5. rec'.req = rec.req /\ rec'.publishing = rec.publishing \ {c} /\ rec'.out = rec.out
      BY <1>0, <2>10, <3>4, AbandonedIs DEF AbandonedStep
    <3> QED BY <2>2, <2>5, <2>6, <3>3, <3>5 DEF Held
  <2>11. CASE ReservedStep BY <2>4, <2>11 DEF ReservedStep
  <2>12. CASE BegunStep(c) BY <2>2, <2>4, <2>5, <2>6, <2>12 DEF BegunStep, Same, Held
  <2> QED BY <1>2, <2>7, <2>8, <2>9, <2>10, <2>11, <2>12
<1> QED BY <1>3, <1>4

LEMMA CallRefusal ==
    ASSUME TypeOK, IdsInv, PhaseInv, RowInv, RefusalInv, AppliedInv, NEW c \in Calls, CallStep(c)
    PROVE  RefusalInv'
<1>0. rec \in Records /\ rec.out \in [Calls -> Outcomes] BY TypeParts, SMT DEF Records
<1>1. /\ UNCHANGED <<at, net, board>>
      /\ UNCHANGED <<queue, resp>> \/ SubmitStep(c) \/ WithdrawStep(c) \/ TakenStep BY RowSteps
<1>2. rec' = rec \/ SettledStep \/ SubmittedStep(c) \/ AbandonedStep(c) \/ ReservedStep \/ BegunStep(c) BY KeySteps
<1>3. \A d \in Calls : Dead(d) => Dead(d)' BY CallDead
<1>4. OthersKept(c) /\ GotStep(c) BY CallMoves
<1>n. "none" \notin NoEffect /\ "unknown" \notin NoEffect BY DEF NoEffect
<1>5. ASSUME NEW d \in Calls, resp'[d] \in NoEffect PROVE Dead(d)'
  <2>1. resp'[d] = resp[d] \/ resp'[d] = "none" BY <1>1 DEF SubmitStep, WithdrawStep, TakenStep
  <2> QED BY <1>3, <1>5, <1>n, <2>1 DEF RefusalInv
<1>6. ASSUME NEW d \in Calls, rec'.out[d] \in NoEffect PROVE Dead(d)'
  <2>1. CASE SettledStep
    <3>1. PICK i \in Calls, o \in Outcomes : rec' = Settled(i, o) /\ (o \in NoEffect => Dead(i)) BY <2>1 DEF SettledStep
    <3>2. rec' # NoRecord BY <1>6, <1>n, NoRecordIs
    <3>3. \A j \in Calls : rec'.out[j] = IF j = i /\ i \in Ids THEN o ELSE rec.out[j] BY <1>0, <3>1, <3>2, SettledStays
    <3>4. rec'.out[d] = rec.out[d] \/ (d = i /\ rec'.out[d] = o) BY <3>3
    <3> QED BY <1>3, <1>6, <3>1, <3>4 DEF RefusalInv
  <2>2. CASE ~SettledStep
    <3>1. CASE SubmittedStep(c)
      <4>1. rec'.out[d] = IF d = c /\ rec.out[d] = "none" THEN "unknown" ELSE rec.out[d]
        BY <1>0, <3>1, SubmittedIs DEF SubmittedStep
      <4> QED BY <1>6, <1>n, <4>1, <1>3 DEF RefusalInv
    <3>2. CASE AbandonedStep(c)
      <4>1. rec'.out[d] = "none" \/ rec'.out[d] = rec.out[d] BY <1>0, <3>2, AbandonedIs, NoRecordIs DEF AbandonedStep
      <4> QED BY <1>6, <1>n, <4>1, <1>3 DEF RefusalInv
    <3>3. CASE rec' = rec \/ ReservedStep \/ BegunStep(c)
      <4>1. rec'.out[d] = "none" \/ rec'.out[d] = rec.out[d] BY <3>3 DEF ReservedStep, BegunStep
      <4> QED BY <1>6, <1>n, <4>1, <1>3 DEF RefusalInv
    <3> QED BY <1>2, <2>2, <3>1, <3>2, <3>3
  <2> QED BY <2>1, <2>2
<1>7. ASSUME NEW d \in Calls, got'[d].ans \in NoEffect PROVE got'[d].id \in Calls /\ Dead(got[d].id)'
  <2>1. CASE d # c \/ got'[c] = got[c]
    <3>1. got'[d] = got[d] BY <1>4, <2>1 DEF OthersKept
    <3> QED BY <1>3, <1>7, <3>1 DEF RefusalInv
  <2>2. CASE d = c /\ \E i \in Calls : got'[c].id = i /\ got'[c].ans = resp[i]
    <3>1. PICK i \in Calls : got'[c].id = i /\ got'[c].ans = resp[i] BY <2>2
    <3> QED BY <1>3, <1>7, <2>2, <3>1 DEF RefusalInv
  <2>3. CASE d = c /\ pc'[c] = "settleown" /\ got'[c].id = c /\ got'[c].ans = Withdrawn(c) /\ WithdrawStep(c)
    <3>1. ~queue[c].claimed BY <1>7, <1>n, <2>3 DEF Withdrawn
    <3>2. net[c] = "none" BY <2>3, <3>1 DEF RowInv, WithdrawStep
    <3>3. net'[c] = "none" /\ queue'[c].in = "none" /\ pc'[c] \notin Before
      BY <1>1, <2>3, <3>2, NoAnswerIs DEF WithdrawStep, Before
    <3> QED BY <2>3, <3>3 DEF Dead, Live
  <2> QED BY <1>4, <1>7, <1>n, <2>1, <2>2, <2>3 DEF GotStep
<1> QED BY <1>5, <1>6, <1>7 DEF RefusalInv

LEMMA CallApplied ==
    ASSUME TypeOK, IdsInv, PhaseInv, RefusalInv, AppliedInv, NEW c \in Calls, CallStep(c)
    PROVE  AppliedInv'
<1>0. rec \in Records BY TypeParts
<1>1. /\ UNCHANGED <<at, net, board>>
      /\ UNCHANGED <<queue, resp>> \/ SubmitStep(c) \/ WithdrawStep(c) \/ TakenStep BY RowSteps
<1>2. rec' = rec \/ SettledStep \/ SubmittedStep(c) \/ AbandonedStep(c) \/ ReservedStep \/ BegunStep(c) BY KeySteps
<1>3. OthersKept(c) /\ GotStep(c) BY CallMoves
<1>4. \A d \in Calls : Applied(d)' <=> Applied(d) BY <1>1 DEF Applied
<1>5. ASSUME NEW d \in Calls, resp'[d] = "applied" PROVE Applied(d)'
  <2>1. resp'[d] = resp[d] \/ resp'[d] = "none" BY <1>1 DEF SubmitStep, WithdrawStep, TakenStep
  <2> QED BY <1>4, <1>5, <2>1 DEF AppliedInv
<1>6. ASSUME NEW d \in Calls, got'[d].ans = "applied" PROVE got'[d].id \in Calls /\ Applied(got[d].id)'
  <2>1. CASE d # c \/ got'[c] = got[c]
    <3>1. got'[d] = got[d] BY <1>3, <2>1 DEF OthersKept
    <3> QED BY <1>4, <1>6, <3>1 DEF AppliedInv
  <2>2. CASE d = c /\ \E i \in Calls : got'[c].id = i /\ got'[c].ans = resp[i]
    <3>1. PICK i \in Calls : got'[c].id = i /\ got'[c].ans = resp[i] BY <2>2
    <3> QED BY <1>4, <1>6, <2>2, <3>1 DEF AppliedInv
  <2>3. Withdrawn(c) # "applied" BY DEF Withdrawn
  <2> QED BY <1>3, <1>6, <2>1, <2>2, <2>3 DEF GotStep
<1>8. ASSUME rec'.applied PROVE board'.st = "applied"
  <2>1. CASE SettledStep
    <3>1. PICK i \in Calls, o \in Outcomes : rec' = Settled(i, o) /\ (o = "applied" => board.st = "applied")
      BY <2>1 DEF SettledStep
    <3>2. rec' # NoRecord BY <1>8, NoRecordIs
    <3>3. rec.applied \/ o = "applied" BY <1>0, <1>8, <3>1, <3>2, SettledStays
    <3> QED BY <1>1, <3>1, <3>3 DEF AppliedInv
  <2>2. CASE SubmittedStep(c) BY <1>0, <1>1, <1>8, <2>2, SubmittedIs DEF SubmittedStep, AppliedInv
  <2>3. CASE AbandonedStep(c) BY <1>0, <1>1, <1>8, <2>3, AbandonedIs, NoRecordIs DEF AbandonedStep, AppliedInv
  <2>4. CASE rec' = rec \/ ReservedStep \/ BegunStep(c) BY <1>1, <1>8, <2>4 DEF ReservedStep, BegunStep, AppliedInv
  <2> QED BY <1>2, <2>1, <2>2, <2>3, <2>4
<1> QED BY <1>5, <1>6, <1>8 DEF AppliedInv

LEMMA CallIds ==
    ASSUME TypeOK, IdsInv, NEW c \in Calls, CallStep(c)
    PROVE  IdsInv'
<1>1. OthersKept(c) /\ GotStep(c) BY CallMoves
<1>2. at' = at BY CallRemote
<1>3. ASSUME NEW d \in Calls, pc'[d] \in {"unlink", "settle"} PROVE got'[d].id \in Calls
  <2>1. CASE d # c BY <1>1, <1>3, <2>1 DEF OthersKept, IdsInv
  <2>2. CASE d = c BY <1>1, <1>3, <2>2 DEF GotStep, IdsInv
  <2> QED BY <2>1, <2>2
<1> QED BY <1>2, <1>3 DEF IdsInv

LEMMA CallDispatch ==
    ASSUME TypeOK, IdsInv, PhaseInv, DispatchInv, NEW c \in Calls, CallStep(c)
    PROVE  DispatchInv'
<1>1. /\ UNCHANGED <<at, net, board>>
      /\ UNCHANGED <<queue, resp>> \/ SubmitStep(c) \/ WithdrawStep(c) \/ TakenStep BY RowSteps
<1>2. ASSUME NEW l \in Leases, at'[l].step = "refused", queue'[at'[l].id].lease = l PROVE ~Live(at[l].id)'
  <2>1. at[l].step = "refused" /\ at[l].id \in Calls /\ at'[l].id = at[l].id BY <1>1, <1>2 DEF IdsInv
  <2>2. queue[at[l].id].lease = l
    <3>1. l # 0 BY SMT DEF Leases
    <3>2. \A d \in Calls : queue'[d].lease = queue[d].lease \/ queue'[d].lease = 0
      BY <1>1, NoAnswerIs DEF SubmitStep, WithdrawStep, TakenStep
    <3> QED BY <1>2, <2>1, <3>1, <3>2
  <2> QED BY <1>1, <2>1, <2>2 DEF DispatchInv, Live
<1>3. ASSUME NEW l \in Leases, at'[l].step = "applied" PROVE Applied(at[l].id)'
  BY <1>1, <1>3 DEF DispatchInv, Applied
<1> QED BY <1>2, <1>3 DEF DispatchInv

\* A step of a call keeps all of it.
LEMMA CallKeeps ==
    ASSUME TypeOK, IdsInv, KeyParts, NEW c \in Calls, CallStep(c)
    PROVE  KeyParts'
<1> USE DEF KeyParts
<1>1. UNCHANGED <<net, board>> BY RowSteps
<1>2. BoardInv' BY <1>1 DEF BoardInv
<1>3. PhaseInv' BY CallPhase
<1>4. RowInv' /\ DispatchInv' BY CallRows, CallDispatch
<1>5. KeyInv' BY <1>3, CallKey
<1>6. RefusalInv' /\ AppliedInv' BY CallRefusal, CallApplied
<1> QED BY <1>2, <1>3, <1>4, <1>5, <1>6
----------------------------------------------------------------------------
(* The invariant through a step of the queue or the relay.                 *)

\* An answer is proved by what happened to the request.
Proved(c, ans) == ans # "none" /\ (ans \in NoEffect => ~Live(c)) /\ (ans = "applied" => Applied(c))
SendStep(c) == /\ queue[c].in # "none" /\ queue[c].claimed /\ UNCHANGED <<queue, resp>>
               /\ net' = [net EXCEPT ![c] = IF @ = "none" THEN "flying" ELSE @]
RowStep(c) == /\ net' = net
              /\ \/ UNCHANGED <<queue, resp>>
                 \/ Dropped(c)
                 \/ Requeued(c)
                 \/ \E n \in Leases : Leased(c, n)
                 \/ \E ans \in Outcomes : Answered(c, ans) /\ Proved(c, ans)

\* No step of theirs puts a request into the queue or makes one live that was not in it.
LEMMA RowsOnlyLeave ==
    ASSUME TypeOK, NEW c \in Calls, SendStep(c) \/ RowStep(c), board' = board
    PROVE  \A d \in Calls : /\ queue'[d].in # "none" => queue[d].in # "none"
                            /\ Live(d)' => Live(d) \/ queue[d].in # "none"
                            /\ net'[d] # net[d] => queue[d].in # "none" /\ queue'[d] = queue[d] /\ queue[d].claimed
<1>0. net \in [Calls -> {"none", "flying", "in", "refused"}] BY TypeParts DEF RemoteOK
<1>1. CASE SendStep(c)
  <2>1. \A d \in Calls : net'[d] = net[d] \/ d = c BY <1>0, <1>1 DEF SendStep
  <2> QED BY <1>1, <2>1 DEF SendStep, Live
<1>2. CASE RowStep(c)
  <2>1. \A d \in Calls : queue'[d].in # "none" => queue[d].in # "none"
    BY <1>2, NoAnswerIs DEF RowStep, Dropped, Requeued, Leased, Answered, OtherRows
  <2> QED BY <1>2, <2>1 DEF RowStep, Live
<1> QED BY <1>1, <1>2

LEMMA RelayKeeps ==
    ASSUME TypeOK, KeyParts, NEW c \in Calls, SendStep(c) \/ RowStep(c), UNCHANGED <<rec, call, board>>
    PROVE  PhaseInv' /\ RowInv' /\ BoardInv' /\ KeyInv' /\ RefusalInv' /\ AppliedInv'
<1> USE DEF KeyParts
<1>0. net \in [Calls -> {"none", "flying", "in", "refused"}] BY TypeParts DEF RemoteOK
<1>1. UNCHANGED <<rec, pc, seen, got, board>> BY DEF call
<1>2. \A d \in Calls : /\ queue'[d].in # "none" => queue[d].in # "none"
                       /\ Live(d)' => Live(d) \/ queue[d].in # "none"
                       /\ net'[d] # net[d] => queue[d].in # "none" /\ queue'[d] = queue[d] /\ queue[d].claimed
  BY RowsOnlyLeave
<1>3. PhaseInv'
  <2>1. \A d \in Calls : pc'[d] \in Before => queue'[d].in = "none" /\ net'[d] = "none" BY <1>1, <1>2 DEF PhaseInv
  <2>2. \A d \in Calls : Held(Wants[d])' <=> Held(Wants[d]) BY <1>1 DEF Held
  <2> QED BY <1>1, <2>1, <2>2 DEF PhaseInv
<1>4. RowInv'
  <2>1. CASE SendStep(c)
    <3>1. queue' = queue /\ resp' = resp /\ pc' = pc BY <1>1, <2>1 DEF SendStep
    <3> QED BY <1>2, <3>1 DEF RowInv
  <2>2. CASE RowStep(c)
    <3>1. ASSUME NEW d \in Calls, ~queue'[d].claimed
          PROVE  queue'[d].lease = 0 /\ (queue'[d].in # "none" => net'[d] = "none")
      <4>1. net' = net BY <2>2 DEF RowStep
      <4>2. \/ queue'[d] = queue[d]
            \/ queue'[d] = NoRow
            \/ queue[d].in # "none" /\ queue'[d].claimed = queue[d].claimed /\ queue'[d].lease = queue[d].lease
            \/ queue'[d].claimed
        BY <2>2 DEF RowStep, Dropped, Requeued, Leased, Answered, OtherRows
      <4> QED BY <3>1, <4>1, <4>2, NoAnswerIs DEF RowInv
    <3>2. ASSUME NEW d \in Calls, pc'[d] = "holds", queue'[d].in = "none", resp'[d] = "none" PROVE net'[d] = "none"
      <4>1. net' = net BY <2>2 DEF RowStep
      <4>2. queue[d].in = "none" /\ resp[d] = "none"
        BY <2>2, <3>2 DEF RowStep, Dropped, Requeued, Leased, Answered, OtherRows, Proved
      <4> QED BY <1>1, <3>2, <4>1, <4>2 DEF RowInv
    <3> QED BY <3>1, <3>2 DEF RowInv
  <2> QED BY <2>1, <2>2
<1>5. BoardInv'
  <2>1. \A d \in Calls : net'[d] = "in" <=> net[d] = "in"
    <3>1. CASE SendStep(c) BY <1>0, <3>1 DEF SendStep
    <3>2. CASE RowStep(c) BY <3>2 DEF RowStep
    <3> QED BY <3>1, <3>2
  <2> QED BY <1>1, <2>1 DEF BoardInv
<1>6. KeyInv'
  <2>1. Ids' = Ids /\ rec'.publishing = rec.publishing /\ \A d \in Calls : Held(Wants[d])' <=> Held(Wants[d])
    BY <1>1 DEF Ids, Held
  <2> QED BY <1>2, <2>1 DEF KeyInv
<1>7. \A d \in Calls : Dead(d) => Dead(d)' BY <1>1, <1>2 DEF Dead
<1>8. ASSUME NEW d \in Calls, resp'[d] # resp[d] PROVE /\ resp'[d] \in NoEffect => Dead(d)'
                                                       /\ resp'[d] = "applied" => Applied(d)'
  <2>1. d = c /\ \E ans \in Outcomes : Answered(c, ans) /\ Proved(c, ans) /\ net' = net
    BY <1>8 DEF SendStep, RowStep, Dropped, Requeued, Leased, Answered, OtherRows
  <2>2. PICK ans \in Outcomes : Answered(c, ans) /\ Proved(c, ans) BY <2>1
  <2>3. queue[c].in # "none" /\ queue'[c].in = "none" /\ resp'[c] = ans BY <2>2, NoAnswerIs DEF Answered
  <2>4. pc'[c] \notin Before BY <1>1, <2>3 DEF PhaseInv
  <2>5. (Live(c)' <=> Live(c)) /\ (Applied(c)' <=> Applied(c)) BY <1>1, <2>1 DEF Live, Applied
  <2> QED BY <2>1, <2>2, <2>3, <2>4, <2>5 DEF Dead, Proved
<1>9. RefusalInv' BY <1>1, <1>7, <1>8 DEF RefusalInv
<1>10. AppliedInv'
  <2>1. \A d \in Calls : Applied(d)' <=> Applied(d) BY <1>1 DEF Applied
  <2> QED BY <1>1, <1>8, <2>1 DEF AppliedInv
<1> QED BY <1>3, <1>4, <1>5, <1>6, <1>9, <1>10

LEMMA QueueKeeps ==
    ASSUME TypeOK, IdsInv, NEW c \in Calls, Claim(c) \/ RecoverLease(c)
    PROVE  IdsInv' /\ (KeyParts /\ ~over' => ~over /\ KeyParts')
<1>1. UNCHANGED <<rec, call, net, board>> BY QueueStepIs
<1>2. IdsInv'
  <2>1. UNCHANGED <<pc, got>> BY <1>1 DEF call
  <2>2. at' = at \/ \E n \in Leases : at'[n].id = c /\ \A m \in Leases \ {n} : at'[m] = at[m] BY QueueStepIs
  <2> QED BY <2>1, <2>2 DEF IdsInv
<1>3. ASSUME KeyParts, ~over' PROVE ~over /\ KeyParts'
  <2> USE <1>3
  <2>1. /\ ~over
        /\ \/ Answered(c, Expired(c)) /\ at' = at
           \/ Dropped(c) /\ at' = at
           \/ Requeued(c) /\ at' = at
           \/ \E n \in Leases : Leased(c, n)
    BY QueueStepIs
  <2>2. RowStep(c)
    <3>1. CASE Answered(c, Expired(c))
      <4>1. Expired(c) \in Outcomes /\ Expired(c) # "none" /\ Expired(c) # "applied" BY DEF Expired, Outcomes, NoEffect
      <4>2. Expired(c) \in NoEffect => ~queue[c].claimed BY DEF Expired, NoEffect
      <4>3. queue[c].in # "none" BY <3>1 DEF Answered
      <4>4. Expired(c) \in NoEffect => ~Live(c) BY <4>2, <4>3 DEF KeyParts, RowInv, Live
      <4>5. Proved(c, Expired(c)) BY <4>1, <4>4 DEF Proved
      <4> QED BY <1>1, <3>1, <4>1, <4>5 DEF RowStep
    <3> QED BY <1>1, <2>1, <3>1 DEF RowStep
  <2>3. PhaseInv' /\ RowInv' /\ BoardInv' /\ KeyInv' /\ RefusalInv' /\ AppliedInv' BY <1>1, <2>2, RelayKeeps
  <2>4. DispatchInv'
    <3>1. ASSUME NEW l \in Leases, at'[l].step = "refused", queue'[at'[l].id].lease = l PROVE ~Live(at[l].id)'
      <4>1. at'[l] = at[l] /\ (queue'[c].lease = queue[c].lease \/ queue'[c].lease = 0 \/ queue'[c].lease # l)
        BY <2>1, <3>1, NoAnswerIs DEF Answered, Dropped, Requeued, Leased
      <4>2. at[l].id \in Calls BY <3>1, <4>1 DEF IdsInv
      <4>3. l # 0 BY SMT DEF Leases
      <4>4. at[l].id # c => queue'[at[l].id] = queue[at[l].id]
        BY <2>1, <4>2 DEF Answered, Dropped, Requeued, Leased, OtherRows
      <4>5. queue[at[l].id].lease = l BY <3>1, <4>1, <4>3, <4>4
      <4>6. ~Live(at[l].id) BY <3>1, <4>1, <4>5 DEF KeyParts, DispatchInv
      <4> QED BY <1>1, <4>1, <4>6 DEF Live
    <3>2. ASSUME NEW l \in Leases, at'[l].step = "applied" PROVE Applied(at[l].id)'
      <4>1. at'[l] = at[l] BY <2>1, <3>2 DEF Leased
      <4> QED BY <1>1, <3>2, <4>1 DEF KeyParts, DispatchInv, Applied
    <3> QED BY <3>1, <3>2 DEF DispatchInv
  <2> QED BY <2>1, <2>3, <2>4 DEF KeyParts
<1> QED BY <1>2, <1>3

LEMMA DispatchKeeps ==
    ASSUME TypeOK, IdsInv, NEW l \in Leases, Dispatch(at[l].id, l)
    PROVE  TypeOK' /\ IdsInv' /\ (KeyParts /\ ~over' => ~over /\ KeyParts')
<1> DEFINE c == at[l].id
<1>0. at[l].step # "none"
  BY DEF Dispatch, LostLease, Fenced, Send, Reject, Reply, Look, Complete, Unknown, Mismatch, TooLarge, Marked
<1>c. c \in Calls BY <1>0 DEF IdsInv
<1>1. /\ TypeOK' /\ UNCHANGED <<rec, call>> /\ \A m \in Leases \ {l} : at'[m] = at[m]
      /\ at'[l].step # "none" => at'[l].id = at[l].id
      /\ ~over' => ~over /\ (Ended(c, l) \/ Moved(c, l))
  BY <1>c, DispatchIs
<1>2. IdsInv'
  <2>1. UNCHANGED <<pc, got>> BY <1>1 DEF call
  <2> QED BY <1>1, <1>c, <2>1 DEF IdsInv
<1>n. l # 0 BY SMT DEF Leases
<1>3. ASSUME KeyParts, ~over' PROVE ~over /\ KeyParts'
  <2> USE <1>3
  <2>1. board' = board BY <1>1 DEF Ended, Moved
  <2>2. at[l].step = "refused" /\ queue[c].lease = l => ~Live(c) BY DEF KeyParts, DispatchInv
  <2>3. at[l].step = "applied" => Applied(c) BY DEF KeyParts, DispatchInv
  <2> HIDE DEF c
  <2>4. SendStep(c) \/ RowStep(c)
    <3>1. CASE Ended(c, l)
      <4>1. \A ans \in Outcomes : Reason(c, l, ans) => Proved(c, ans)
        BY <2>2, <2>3 DEF Reason, Proved, NoEffect, Sent, Live
      <4> QED BY <3>1, <4>1 DEF Ended, RowStep
    <3>2. CASE Moved(c, l) /\ Current(c, l) /\ net' # net
      <4>1. queue[c].in # "none" /\ queue[c].lease = l BY <3>2 DEF Current
      <4>2. queue[c].claimed BY <1>c, <1>n, <4>1 DEF KeyParts, RowInv
      <4> QED BY <3>2, <4>1, <4>2 DEF Moved, SendStep
    <3>3. CASE Moved(c, l) /\ net' = net BY <3>3 DEF Moved, RowStep
    <3> QED BY <1>1, <3>1, <3>2, <3>3 DEF Moved
  <2>5. PhaseInv' /\ RowInv' /\ BoardInv' /\ KeyInv' /\ RefusalInv' /\ AppliedInv' BY <1>1, <1>c, <2>1, <2>4, RelayKeeps
  <2>6. DispatchInv'
    <3>1. ASSUME NEW m \in Leases, at'[m].step = "refused", queue'[at'[m].id].lease = m PROVE ~Live(at[m].id)'
      <4>1. CASE m = l
        <5>1. at'[l].id = c /\ net' = net /\ (~Sent(c) \/ (board.req = Wants[c] /\ board.st = "refused"))
          BY <1>1, <3>1, <4>1 DEF Ended, Moved, c
        <5>2. ~Live(c) BY <1>c, <5>1 DEF KeyParts, BoardInv, Sent, Live
        <5> QED BY <2>1, <4>1, <5>1, <5>2 DEF Live
      <4>2. CASE m # l
        <5>1. at'[m] = at[m] BY <1>1, <4>2
        <5>2. at[m].id \in Calls /\ m # 0 BY <3>1, <5>1, SMT DEF IdsInv, Leases
        <5>3. queue[at[m].id].lease = m
          <6>1. \A d \in Calls : queue'[d].lease = queue[d].lease \/ queue'[d].lease = 0
            <7>1. queue' = queue \/ Requeued(c) \/ \E ans \in Outcomes : Answered(c, ans) BY <1>1 DEF Ended, Moved
            <7> QED BY <7>1, NoAnswerIs DEF Answered, Requeued, OtherRows
          <6> QED BY <3>1, <5>1, <5>2, <6>1
        <5>4. ~Live(at[m].id) BY <3>1, <5>1, <5>3 DEF KeyParts, DispatchInv
        <5>5. net'[at[m].id] = net[at[m].id]
          <6>1. CASE net' = net BY <6>1
          <6>2. CASE Current(c, l) /\ net' = [net EXCEPT ![c] = IF @ = "none" THEN "flying" ELSE @]
            <7>1. at[m].id # c BY <4>2, <5>3, <6>2 DEF Current
            <7>2. net \in [Calls -> {"none", "flying", "in", "refused"}] BY TypeParts DEF RemoteOK
            <7> QED BY <5>2, <6>2, <7>1, <7>2
          <6> QED BY <1>1, <6>1, <6>2 DEF Ended, Moved
        <5> QED BY <2>1, <5>1, <5>4, <5>5 DEF Live
      <4> QED BY <4>1, <4>2
    <3>2. ASSUME NEW m \in Leases, at'[m].step = "applied" PROVE Applied(at[m].id)'
      <4>1. CASE m = l
        <5>1. at'[l].id = c /\ board.st = "applied" /\ (net[c] = "in" \/ board.req = Wants[c])
          BY <1>1, <3>2, <4>1 DEF Ended, Moved, c
        <5> QED BY <1>c, <2>1, <4>1, <5>1 DEF KeyParts, BoardInv, Applied
      <4>2. CASE m # l
        <5>1. at'[m] = at[m] BY <1>1, <4>2
        <5> QED BY <2>1, <3>2, <5>1 DEF KeyParts, DispatchInv, Applied
      <4> QED BY <4>1, <4>2
    <3> QED BY <3>1, <3>2 DEF DispatchInv
  <2> QED BY <1>1, <2>5, <2>6 DEF KeyParts
<1> QED BY <1>1, <1>2, <1>3
----------------------------------------------------------------------------
(* The invariant through a step of the board.                              *)

LEMMA BoardKeeps ==
    ASSUME TypeOK, IdsInv, (\E c \in Calls : Deliver(c)) \/ Decide
    PROVE  TypeOK' /\ IdsInv' /\ (KeyParts /\ ~over' => ~over /\ KeyParts')
<1>0. net \in [Calls -> {"none", "flying", "in", "refused"}] /\ board \in Boards BY TypeParts DEF RemoteOK
<1>1. UNCHANGED <<rec, pc, seen, again, got, queue, resp, at, leases, over>> BY DEF Deliver, Decide, call, relay
<1>2. IdsInv' BY <1>1 DEF IdsInv
<1>3. /\ net' \in [Calls -> {"none", "flying", "in", "refused"}] /\ board' \in Boards
      /\ \A d \in Calls : (net'[d] = "none" <=> net[d] = "none") /\ (Live(d)' => Live(d)) /\ (Applied(d) => Applied(d)')
      /\ board.st = "applied" => board'.st = "applied"
      /\ BoardInv => BoardInv'
  <2>1. CASE \E c \in Calls : Deliver(c) /\ board.st = "none"
    <3>1. PICK c \in Calls : Deliver(c) /\ board.st = "none" BY <2>1
    <3>2. net[c] = "flying" /\ board' = [req |-> Wants[c], st |-> "in_progress"] /\ net' = [net EXCEPT ![c] = "in"]
      BY <3>1 DEF Deliver
    <3>3. board' \in Boards /\ board'.req = Wants[c] /\ board'.st = "in_progress" BY <3>2, Constants, SMT DEF Boards
    <3>4. /\ net' \in [Calls -> {"none", "flying", "in", "refused"}] /\ net'[c] = "in"
          /\ \A d \in Calls \ {c} : net'[d] = net[d]
      BY <1>0, <3>2
    <3>5. \A d \in Calls : (net'[d] = "none" <=> net[d] = "none") /\ (Live(d)' => Live(d)) /\ ~Applied(d)
      BY <3>1, <3>2, <3>4 DEF Live, Applied
    <3>6. BoardInv => BoardInv' BY <3>1, <3>3, <3>4 DEF BoardInv
    <3> QED BY <3>1, <3>3, <3>4, <3>5, <3>6
  <2>2. CASE \E c \in Calls : Deliver(c) /\ board.st # "none"
    <3>1. PICK c \in Calls : Deliver(c) /\ board.st # "none" BY <2>2
    <3>2. /\ net[c] = "flying" /\ board' = board
          /\ net' = [net EXCEPT ![c] = IF board.req = Wants[c] /\ board.st # "refused" THEN "in" ELSE "refused"]
      BY <3>1 DEF Deliver
    <3>4. /\ net' \in [Calls -> {"none", "flying", "in", "refused"}]
          /\ net'[c] = IF board.req = Wants[c] /\ board.st # "refused" THEN "in" ELSE "refused"
          /\ \A d \in Calls \ {c} : net'[d] = net[d]
      BY <1>0, <3>2
    <3>5. \A d \in Calls : (net'[d] = "none" <=> net[d] = "none") /\ (Live(d)' => Live(d)) /\ (Applied(d) => Applied(d)')
      BY <3>2, <3>4 DEF Live, Applied
    <3>6. BoardInv => BoardInv'
      <4>1. board.st \in {"none", "in_progress", "applied", "refused"} BY <1>0, SMT DEF Boards
      <4> QED BY <3>1, <3>2, <3>4, <4>1 DEF BoardInv
    <3> QED BY <1>0, <3>2, <3>4, <3>5, <3>6
  <2>3. CASE Decide
    <3>1. PICK st \in {"applied", "refused"} :
            /\ board.st = "in_progress" /\ board' = [board EXCEPT !.st = st]
            /\ net' = [c \in Calls |-> IF net[c] = "in" /\ st = "refused" THEN "refused" ELSE net[c]]
      BY <2>3 DEF Decide
    <3>2. board' \in Boards /\ board'.req = board.req /\ board'.st = st BY <1>0, <3>1, SMT DEF Boards
    <3>3. /\ net' \in [Calls -> {"none", "flying", "in", "refused"}]
          /\ \A d \in Calls : net'[d] = IF net[d] = "in" /\ st = "refused" THEN "refused" ELSE net[d]
      BY <1>0, <3>1
    <3>4. \A d \in Calls : (net'[d] = "none" <=> net[d] = "none") /\ (Live(d)' => Live(d)) /\ ~Applied(d)
      BY <3>1, <3>2, <3>3 DEF Live, Applied
    <3>5. BoardInv => BoardInv' BY <3>1, <3>2, <3>3 DEF BoardInv
    <3> QED BY <3>1, <3>2, <3>3, <3>4, <3>5
  <2> QED BY <2>1, <2>2, <2>3
<1>4. TypeOK' BY <1>1, <1>3, TypeParts DEF CallOK, RelayOK, RemoteOK
<1>5. ASSUME KeyParts, ~over' PROVE ~over /\ KeyParts'
  <2> USE <1>5 DEF KeyParts
  <2>1. \A d \in Calls : Dead(d) => Dead(d)' BY <1>1, <1>3 DEF Dead
  <2>2. \A d \in Calls : Held(Wants[d])' <=> Held(Wants[d]) BY <1>1 DEF Held
  <2>3. PhaseInv' BY <1>1, <1>3, <2>2 DEF PhaseInv
  <2>4. RowInv' BY <1>1, <1>3 DEF RowInv
  <2>5. KeyInv' BY <1>1, <1>3, <2>2 DEF KeyInv, Ids
  <2>6. RefusalInv' BY <1>1, <2>1 DEF RefusalInv
  <2>7. AppliedInv' BY <1>1, <1>3 DEF AppliedInv
  <2>8. DispatchInv'
    <3>1. ASSUME NEW l \in Leases, at'[l].step = "refused", queue'[at'[l].id].lease = l PROVE ~Live(at[l].id)'
      <4>1. at'[l] = at[l] /\ at[l].id \in Calls /\ ~Live(at[l].id) BY <1>1, <3>1 DEF DispatchInv, IdsInv
      <4>2. ~Live(at[l].id)' <=> ~(net'[at[l].id] = "in" \/ (net'[at[l].id] = "flying" /\ board'.st # "refused"))
        BY <4>1 DEF Live
      <4> QED BY <1>3, <4>1, <4>2 DEF Live
    <3>2. ASSUME NEW l \in Leases, at'[l].step = "applied" PROVE Applied(at[l].id)'
      <4>1. at'[l] = at[l] /\ at[l].id \in Calls /\ Applied(at[l].id) BY <1>1, <3>2 DEF DispatchInv, IdsInv
      <4> QED BY <1>3, <4>1 DEF Applied
    <3> QED BY <3>1, <3>2 DEF DispatchInv
  <2> QED BY <1>1, <1>3, <2>3, <2>4, <2>5, <2>6, <2>7, <2>8
<1> QED BY <1>2, <1>4, <1>5
----------------------------------------------------------------------------
(* The theorems.                                                           *)

LEMMA InitKInv == Init => KInv
<1> SUFFICES ASSUME Init PROVE KInv OBVIOUS
<1>1. TypeOK
  <2>1. rec \in Records BY Constants DEF Init
  <2>2. CallOK BY Constants DEF Init, CallOK, CallSteps
  <2>3. 0 \in 0..MaxLeases BY CoordinateAssumption, SMT
  <2>4. RelayOK BY <2>3, Constants DEF Init, RelayOK, Outcomes
  <2>5. board \in Boards BY SMT DEF Init, Boards
  <2>6. RemoteOK BY <2>5 DEF Init, RemoteOK
  <2> QED BY <2>1, <2>2, <2>4, <2>6, TypeParts
<1>2. \A c \in Calls : /\ pc[c] = "idle" /\ seen[c] = {} /\ got[c] = NoAnswer /\ queue[c] = NoRow
                       /\ resp[c] = "none" /\ net[c] = "none" /\ rec.out[c] = "none"
  BY NoRecordIs DEF Init
<1>3. \A l \in Leases : at[l].step = "none"
  <2>1. NoDispatch.step = "none" BY SMT DEF NoDispatch
  <2> QED BY <2>1 DEF Init
<1>4. ~rec.applied /\ board.st = "none" BY NoRecordIs, SMT DEF Init
<1>5. "none" \notin NoEffect BY DEF NoEffect
<1>6. \A c \in Calls : ~Live(c) BY <1>2 DEF Live
<1>7. PhaseInv /\ RowInv BY <1>2, NoAnswerIs DEF PhaseInv, RowInv
<1>8. BoardInv /\ DispatchInv BY <1>2, <1>3, <1>4 DEF BoardInv, DispatchInv
<1>9. KeyInv BY <1>2, <1>6, NoAnswerIs DEF KeyInv
<1>10. RefusalInv /\ AppliedInv BY <1>2, <1>4, <1>5, NoAnswerIs DEF RefusalInv, AppliedInv
<1>11. IdsInv BY <1>2, <1>3 DEF IdsInv
<1> QED BY <1>1, <1>7, <1>8, <1>9, <1>10, <1>11 DEF KInv, KeyParts

LEMMA CallStepKInv ==
    ASSUME KInv, NEW c \in Calls, CallStep(c)
    PROVE  KInv'
<1>1. TypeOK /\ IdsInv BY DEF KInv
<1>2. pc[c] \in {"unlink", "settle"} => got[c].id \in Calls BY <1>1 DEF IdsInv
<1>3. TypeOK' BY <1>1, <1>2, CallType
<1>4. IdsInv' BY <1>1, CallIds
<1>5. ASSUME ~over' PROVE KeyParts'
  <2>1. over' = over BY CallRemote
  <2>2. KeyParts BY <1>5, <2>1 DEF KInv
  <2> QED BY <1>1, <2>2, CallKeeps
<1> QED BY <1>3, <1>4, <1>5 DEF KInv

LEMMA NextKInv == KInv /\ [Next]_vars => KInv'
<1> SUFFICES ASSUME KInv, [Next]_vars PROVE KInv' OBVIOUS
<1>0. TypeOK /\ IdsInv /\ (~over => KeyParts) /\ over \in BOOLEAN BY TypeParts DEF KInv, RemoteOK
<1>1. CASE \E c \in Calls : CallStep(c) BY <1>1, CallStepKInv
<1>2. CASE \E c \in Calls : Claim(c) \/ RecoverLease(c)
  <2>1. PICK c \in Calls : Claim(c) \/ RecoverLease(c) BY <1>2
  <2>2. TypeOK' /\ (~over' => ~over) BY <1>0, <2>1, QueueStepIs
  <2>3. IdsInv' /\ (KeyParts /\ ~over' => ~over /\ KeyParts') BY <1>0, <2>1, QueueKeeps
  <2> QED BY <1>0, <2>2, <2>3 DEF KInv
<1>3. CASE \E l \in Leases : Dispatch(at[l].id, l)
  <2>1. PICK l \in Leases : Dispatch(at[l].id, l) BY <1>3
  <2>2. TypeOK' /\ IdsInv' /\ (KeyParts /\ ~over' => ~over /\ KeyParts') BY <1>0, <2>1, DispatchKeeps
  <2>3. ~over' => ~over
    <3>1. at[l].step # "none"
      BY <2>1 DEF Dispatch, LostLease, Fenced, Send, Reject, Reply, Look, Complete, Unknown, Mismatch, TooLarge, Marked
    <3>2. at[l].id \in Calls BY <1>0, <3>1 DEF IdsInv
    <3> QED BY <1>0, <2>1, <3>2, DispatchIs
  <2> QED BY <1>0, <2>2, <2>3 DEF KInv
<1>4. CASE (\E c \in Calls : Deliver(c)) \/ Decide
  <2>1. TypeOK' /\ IdsInv' /\ (KeyParts /\ ~over' => ~over /\ KeyParts') BY <1>0, <1>4, BoardKeeps
  <2>2. over' = over BY <1>4 DEF Deliver, Decide
  <2> QED BY <1>0, <2>1, <2>2 DEF KInv
<1>5. CASE UNCHANGED vars
  <2>1. TypeOK' BY <1>0, <1>5, TypeParts DEF vars, CallOK, RelayOK, RemoteOK
  <2>2. IdsInv' BY <1>0, <1>5 DEF vars, IdsInv
  <2>3. ASSUME KeyParts PROVE KeyParts'
    <3> USE <1>5, <2>3 DEF vars, KeyParts
    <3>1. \A d \in Calls : /\ Live(d)' <=> Live(d)
                           /\ Dead(d)' <=> Dead(d)
                           /\ Applied(d)' <=> Applied(d)
                           /\ Held(Wants[d])' <=> Held(Wants[d])
      BY DEF Live, Dead, Applied, Held
    <3>2. PhaseInv' BY <3>1 DEF PhaseInv
    <3>3. RowInv' /\ BoardInv' BY DEF RowInv, BoardInv
    <3>4. KeyInv' BY <3>1 DEF KeyInv, Ids
    <3>5. RefusalInv' BY <3>1 DEF RefusalInv
    <3>6. AppliedInv' BY <3>1 DEF AppliedInv
    <3>7. DispatchInv' BY DEF DispatchInv, Live, Applied
    <3> QED BY <3>2, <3>3, <3>4, <3>5, <3>6, <3>7
  <2>4. over' = over BY <1>5 DEF vars
  <2> QED BY <1>0, <2>1, <2>2, <2>3, <2>4 DEF KInv
<1> QED BY <1>1, <1>2, <1>3, <1>4, <1>5 DEF Next

\* The inductive invariant holds in every behaviour, for any number of calls, requests and leases.
THEOREM KeyIsInductive == Spec => []KInv
BY InitKInv, NextKInv, PTL DEF Spec

\* The state keeps its type, also after an answer that was not proved.
THEOREM TypesKept == Spec => []TypeOK
<1>1. KInv => TypeOK BY DEF KInv
<1> QED BY <1>1, KeyIsInductive, PTL

\* What the relay may still send is an attempt the key is held for (begin_attempt before queue.submit).
THEOREM QueuedRegistered == Spec => []QueuedIsRegistered
<1>1. KInv => QueuedIsRegistered BY DEF KInv, KeyParts, KeyInv, QueuedIsRegistered
<1> QED BY <1>1, KeyIsInductive, PTL

LEMMA KeyHeld ==
    ASSUME KeyParts
    PROVE  OnlyProofFrees
<1> USE DEF KeyParts
<1>1. \A c \in Calls : net[c] = "flying" /\ board.st # "refused" => Held(Wants[c]) BY DEF KeyInv, Live
<1>2. ASSUME board.st \in {"in_progress", "applied"} PROVE Held(board.req)
  <2>1. PICK c \in Calls : net[c] = "in" BY <1>2 DEF BoardInv
  <2>2. board.req = Wants[c] /\ Held(Wants[c]) BY <2>1 DEF BoardInv, KeyInv, Live
  <2> QED BY <2>2
<1> QED BY <1>1, <1>2 DEF OnlyProofFrees

\* The key is held for a request as long as it may be admitted, is in progress or was applied (settle_attempt,
\* abandon_attempt, begin_attempt, and the relay's answers).
THEOREM HeldWhileLive == Spec => []HeldWhileItMayApply
<1>1. KInv => HeldWhileItMayApply BY KeyHeld DEF KInv, HeldWhileItMayApply
<1> QED BY <1>1, KeyIsInductive, PTL

\* What the ledger records of an attempt is what happened to it (settle_attempt of an answer taken by any call).
THEOREM OutcomesTrue == Spec => []OutcomesAreTrue
<1>1. ASSUME KInv PROVE OutcomesAreTrue
  <2>1. ASSUME ~over, rec.applied PROVE board.st = "applied" /\ Held(board.req)
    BY <1>1, <2>1, KeyHeld DEF KInv, KeyParts, AppliedInv, OnlyProofFrees
  <2>2. ASSUME ~over, NEW i \in Calls, rec.out[i] \in NoEffect
        PROVE  net[i] # "in" /\ (net[i] = "flying" => board.st = "refused")
    BY <1>1, <2>2 DEF KInv, KeyParts, RefusalInv, Dead, Live
  <2> QED BY <2>1, <2>2 DEF OutcomesAreTrue
<1> QED BY <1>1, KeyIsInductive, PTL

\* No step of a call, the queue, the relay or the board downgrades or deletes an applied receipt, nor gives its
\* key to another request.
THEOREM AppliedFinal == Spec => AppliedIsFinal
<1>1. ASSUME KInv, [Next]_vars PROVE [~over /\ rec.applied => rec'.applied /\ rec'.req = rec.req]_vars
  <2> SUFFICES ASSUME ~over, rec.applied, Next PROVE rec'.applied /\ rec'.req = rec.req
    BY <1>1
  <2>0. TypeOK /\ IdsInv /\ KeyParts BY <1>1 DEF KInv
  <2>1. CASE \E c \in Calls : CallStep(c)
    <3>1. PICK c \in Calls : CallStep(c) BY <2>1
    <3>2. rec' = rec \/ SettledStep \/ SubmittedStep(c) \/ AbandonedStep(c) \/ ReservedStep \/ BegunStep(c)
      BY <2>0, <3>1, KeySteps DEF KeyParts
    <3>3. rec \in Records /\ rec # NoRecord BY <2>0, TypeParts, NoRecordIs
    <3>4. CASE SettledStep
      <4>1. PICK i \in Calls, o \in Outcomes : rec' = Settled(i, o) BY <3>4 DEF SettledStep
      <4> QED BY <3>3, <4>1, SettledIs
    <3>5. CASE SubmittedStep(c) BY <3>3, <3>5, SubmittedIs DEF SubmittedStep
    <3>6. CASE AbandonedStep(c)
      <4>1. board.st = "applied" BY <2>0 DEF KeyParts, AppliedInv
      <4>2. PICK d \in Calls : net[d] = "in" BY <2>0, <4>1 DEF KeyParts, BoardInv
      <4>3. d \in Ids \cup rec.publishing BY <2>0, <4>2 DEF KeyParts, KeyInv, Live
      <4>4. net[c] = "none" BY <2>0, <3>6 DEF KeyParts, RowInv, AbandonedStep
      <4>5. ~(Ids = {} /\ rec.publishing \ {c} = {}) BY <4>2, <4>3, <4>4
      <4> QED BY <3>3, <3>6, <4>5, AbandonedIs DEF AbandonedStep
    <3>7. CASE ReservedStep BY <3>3, <3>7 DEF ReservedStep
    <3>8. CASE BegunStep(c) BY <3>3, <3>8 DEF BegunStep, Same
    <3> QED BY <3>2, <3>4, <3>5, <3>6, <3>7, <3>8
  <2>2. CASE ~\E c \in Calls : CallStep(c)
    <3>1. rec' = rec
      BY <2>2 DEF Next, Claim, RecoverLease, Deliver, Decide, Dispatch, LostLease, Fenced, Send, Reject, Reply, Look,
                  Complete, Unknown, Mismatch, TooLarge
    <3> QED BY <3>1
  <2> QED BY <2>1, <2>2
<1> QED BY <1>1, KeyIsInductive, PTL DEF Spec, AppliedIsFinal
=============================================================================
