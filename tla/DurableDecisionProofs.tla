----------------------- MODULE DurableDecisionProofs -----------------------
(***************************************************************************)
(* Proofs about DurableDecision, for any sets of transactions,             *)
(* participants and workers and any expiry times.                          *)
(*                                                                         *)
(* IndInv is inductive.  What makes the argument short is that a row and   *)
(* what a participant holds only ever move one way (RowStep, HeldStep), so *)
(* whatever a worker or a late call learned from a stale copy stays true.  *)
(***************************************************************************)
EXTENDS DurableDecision, TLAPS

USE DEF TERMINAL, Terminal, States, Outcomes, Stages

\* Initially there is no row, no held state and no operation in progress.
LEMMA InitIndInv == Init => IndInv
  BY DEF Init, IndInv, TypeOK, LedgerInv, OutcomeIsDecision, WorkerInv, StrayInv, ToldInv,
         WorkerOK, Rows, Wants, NoRow, NoWant

\* begin opens the row and leaves its receipts empty.
LEMMA BegunRow ==
    ASSUME NEW r \in Rows
    PROVE  LET s == [r EXCEPT !.state = "preparing"] IN
           /\ s \in Rows
           /\ s.state = "preparing" /\ s.witness = r.witness
           /\ s.prepared = r.prepared /\ s.finished = r.finished
  BY DEF Rows

\* record_prepared merges one receipt and notices the last one.
LEMMA MergedRow ==
    ASSUME NEW r \in Rows, NEW p \in Participants
    PROVE  LET s == MergePrepared(r, p) IN
           /\ s \in Rows
           /\ s.state \in {"preparing", "prepared"}
           /\ s.state = "prepared" => s.prepared = Participants
           /\ s.prepared = r.prepared \cup {p}
           /\ s.finished = r.finished /\ s.witness = r.witness
  BY ZenonT(30) DEF Rows, MergePrepared

\* decide writes the decision and keeps the receipts.
LEMMA DecidedRow ==
    ASSUME NEW r \in Rows, NEW d \in Wants
    PROVE  LET s == Decided(r, d) IN
           /\ s \in Rows
           /\ s.state = d.state /\ Terminal(s)
           /\ s.prepared = r.prepared /\ s.finished = r.finished
  BY ZenonT(30) DEF Rows, Wants, Decided

\* abort_expired writes the abort and nothing else.
LEMMA ExpiredRow ==
    ASSUME NEW r \in Rows
    PROVE  LET s == Expired(r) IN
           /\ s \in Rows
           /\ s.state = "aborted"
           /\ s.prepared = r.prepared /\ s.finished = r.finished /\ s.witness = r.witness
  BY DEF Rows, Expired

\* record_finished merges one finish receipt and keeps the decision.
LEMMA FinishedRow ==
    ASSUME NEW r \in Rows, NEW p \in Participants
    PROVE  LET s == [r EXCEPT !.finished = @ \cup {p}] IN
           /\ s \in Rows
           /\ s.state = r.state /\ s.witness = r.witness
           /\ s.prepared = r.prepared /\ s.finished = r.finished \cup {p}
  BY DEF Rows

\* An UPDATE of one row changes that row only.
LEMMA RowUpdate ==
    ASSUME NEW t \in Txns, NEW r \in Rows, row \in [Txns -> Rows], row' = [row EXCEPT ![t] = r]
    PROVE  /\ row' \in [Txns -> Rows]
           /\ row'[t] = r
           /\ \A x \in Txns : x # t => row'[x] = row[x]
  OBVIOUS

\* A participant call changes what one participant holds for one transaction.
LEMMA HeldUpdate ==
    ASSUME NEW t \in Txns, NEW p \in Participants, NEW o \in Outcomes,
           held \in [Txns -> [Participants -> Outcomes]],
           held' = [held EXCEPT ![t][p] = o]
    PROVE  /\ held' \in [Txns -> [Participants -> Outcomes]]
           /\ held'[t][p] = o
           /\ \A x \in Txns, q \in Participants : x # t \/ q # p => held'[x][q] = held[x][q]
  OBVIOUS

\* The end of an operation touches the worker alone.
LEMMA LeaveWorker ==
    ASSUME TypeOK, NEW w \in Workers, Leave(w)
    PROVE  /\ pc' \in [Workers -> Stages] /\ txn' \in [Workers -> Txns] /\ rec' \in [Workers -> Rows]
           /\ target' \in [Workers -> Participants \cup {NoParticipant}] /\ want' \in [Workers -> Wants]
           /\ txn' = txn
           /\ pc'[w] = "idle"
           /\ \A v \in Workers : v # w => pc'[v] = pc[v] /\ rec'[v] = rec[v] /\ target'[v] = target[v]
  BY DEF TypeOK, Leave, NoRow, NoWant, Rows, Wants

\* A worker that continues its loop with the row a store call returned.
LEMMA ReloadWorker ==
    ASSUME TypeOK, NEW w \in Workers, NEW r \in Rows, NEW stage \in Stages, Reload(w, r, stage)
    PROVE  /\ pc' \in [Workers -> Stages] /\ txn' \in [Workers -> Txns] /\ rec' \in [Workers -> Rows]
           /\ target' \in [Workers -> Participants \cup {NoParticipant}] /\ want' \in [Workers -> Wants]
           /\ txn' = txn
           /\ pc'[w] = stage /\ rec'[w] = r
           /\ \A v \in Workers : v # w => pc'[v] = pc[v] /\ rec'[v] = rec[v] /\ target'[v] = target[v]
  BY DEF TypeOK, Reload

\* A row only grows: it never disappears, a decision and its witness are final,
\* receipts are never removed.
Grows(r, s) == /\ r.state # "none" => s.state # "none"
               /\ Terminal(r) => s.state = r.state /\ s.witness = r.witness
               /\ r.prepared \subseteq s.prepared
               /\ r.finished \subseteq s.finished

\* The step leaves every row as it is, or replaces one by a row it grows into.
RowsGrow == row' \in [Txns -> Rows] /\ \A x \in Txns : Grows(row[x], row'[x])

\* A participant never forgets a transaction and never leaves an outcome.
HeldKept == /\ held' \in [Txns -> [Participants -> Outcomes]]
            /\ \A x \in Txns, q \in Participants :
                  /\ held[x][q] # "none" => held'[x][q] # "none"
                  /\ held[x][q] \in TERMINAL => held'[x][q] = held[x][q]

\* Every step of the store lets rows grow only.
LEMMA RowStep == IndInv /\ [Next]_vars => RowsGrow
<1> SUFFICES ASSUME IndInv, [Next]_vars PROVE RowsGrow
  OBVIOUS
<1> USE DEF IndInv, TypeOK, RowsGrow, Grows
<1>1. CASE UNCHANGED row
  BY <1>1
<1>2. ASSUME NEW t \in Txns, Begin(t) PROVE RowsGrow
  <2> DEFINE r == [row[t] EXCEPT !.state = "preparing"]
  <2>1. r \in Rows /\ Grows(row[t], r)
    <3>1. row[t] \in Rows /\ row[t].state = "none"
      BY <1>2 DEF Begin
    <3> QED
      BY <3>1, BegunRow
  <2>2. row' = [row EXCEPT ![t] = r]
    BY <1>2 DEF Begin
  <2> QED
    BY <2>1, <2>2, RowUpdate
<1>3. ASSUME NEW w \in Workers, RecordPrepared(w) PROVE RowsGrow
  <2> DEFINE t == txn[w]  p == target[w]
  <2>1. t \in Txns /\ p \in Participants /\ row[t] \in Rows
    BY <1>3 DEF RecordPrepared, WorkerInv, WorkerOK
  <2>2. CASE row[t].state = "preparing" /\ row' = [row EXCEPT ![t] = MergePrepared(row[t], p)]
    BY <2>1, <2>2, MergedRow, RowUpdate
  <2> QED
    BY <1>1, <1>3, <2>2 DEF RecordPrepared
<1>4. ASSUME NEW w \in Workers, DecideStore(w) PROVE RowsGrow
  <2> DEFINE t == txn[w]  d == want[w]
  <2>1. t \in Txns /\ d \in Wants /\ row[t] \in Rows
    OBVIOUS
  <2>2. CASE ~Terminal(row[t]) /\ row' = [row EXCEPT ![t] = Decided(row[t], d)]
    <3>1. Decided(row[t], d) \in Rows /\ Grows(row[t], Decided(row[t], d))
      BY <2>1, <2>2, DecidedRow, ZenonT(30)
    <3> QED
      BY <2>1, <2>2, <3>1, RowUpdate
  <2> QED
    BY <1>1, <1>4, <2>2 DEF DecideStore
<1>5. ASSUME NEW w \in Workers, RecoverRow(w) PROVE RowsGrow
  <2> DEFINE t == txn[w]
  <2>1. t \in Txns /\ row[t] \in Rows
    OBVIOUS
  <2>2. CASE ~Terminal(row[t]) /\ row' = [row EXCEPT ![t] = Expired(row[t])]
    BY <2>1, <2>2, ExpiredRow, RowUpdate
  <2> QED
    BY <1>1, <1>5, <2>2 DEF RecoverRow
<1>6. ASSUME NEW w \in Workers, RecordFinished(w) PROVE RowsGrow
  <2> DEFINE t == txn[w]  p == target[w]
  <2>1. t \in Txns /\ p \in Participants /\ row[t] \in Rows
    BY <1>6 DEF RecordFinished, WorkerInv, WorkerOK
  <2> DEFINE r == [row[t] EXCEPT !.finished = @ \cup {p}]
  <2>2. r \in Rows /\ Grows(row[t], r)
    <3>1. /\ r \in Rows /\ r.state = row[t].state /\ r.witness = row[t].witness
          /\ r.prepared = row[t].prepared /\ r.finished = row[t].finished \cup {p}
      BY <2>1, FinishedRow, ZenonT(30)
    <3> HIDE DEF r
    <3> QED
      BY <3>1
  <2>3. row' = [row EXCEPT ![t] = r]
    BY <1>6 DEF RecordFinished
  <2> QED
    BY <2>1, <2>2, <2>3, RowUpdate
<1> QED
  BY <1>1, <1>2, <1>3, <1>4, <1>5, <1>6, ZenonT(30)
     DEF Next, WorkerStep, vars, ledger, Tick, Deliver, PrepareExisting, FinishRead, ListInDoubt,
         DecideRead, CallPrepare, CallFinish, AnswerPrepare, PrepareDone, AnswerFinish, FinishDone, Fail

\* No call to a participant, late or repeated, moves it backwards: a late
\* prepare finds the tombstone, a late finish carries the recorded decision.
LEMMA HeldStep == IndInv /\ [Next]_vars => HeldKept
<1> SUFFICES ASSUME IndInv, [Next]_vars PROVE HeldKept
  OBVIOUS
<1>0. /\ held \in [Txns -> [Participants -> Outcomes]] /\ txn \in [Workers -> Txns]
      /\ stray \subseteq Calls /\ WorkerInv
  BY DEF IndInv, TypeOK
<1>1. CASE UNCHANGED held
  BY <1>0, <1>1 DEF HeldKept
<1>2. ASSUME NEW t \in Txns, NEW p \in Participants, Stage(t, p) PROVE HeldKept
  BY <1>0, <1>2, HeldUpdate DEF Stage, HeldKept
<1>3. ASSUME NEW t \in Txns, NEW p \in Participants, NEW d \in TERMINAL, Materialize(t, p, d)
      PROVE  HeldKept
  BY <1>0, <1>3, HeldUpdate DEF Materialize, HeldKept
<1>4. ASSUME NEW w \in Workers, AnswerPrepare(w) PROVE HeldKept
  BY <1>0, <1>1, <1>2, <1>4 DEF AnswerPrepare, WorkerInv, WorkerOK
<1>5. ASSUME NEW w \in Workers, AnswerFinish(w) PROVE HeldKept
  BY <1>0, <1>3, <1>5 DEF AnswerFinish, WorkerInv, WorkerOK
<1>6. ASSUME NEW c \in stray, Deliver(c) PROVE HeldKept
  BY <1>0, <1>2, <1>3, <1>6 DEF Deliver, Calls
<1> QED
  BY <1>1, <1>4, <1>5, <1>6, ZenonT(30)
     DEF Next, WorkerStep, vars, Tick, Begin, PrepareExisting, FinishRead, ListInDoubt, DecideRead,
         CallPrepare, CallFinish, RecordPrepared, PrepareDone, DecideStore, RecordFinished,
         FinishDone, RecoverRow, Fail

\* Every step keeps the types: a call that outlives its caller names a real
\* participant and a real decision.
LEMMA TypeStep == IndInv /\ [Next]_vars => TypeOK'
<1> SUFFICES ASSUME IndInv, [Next]_vars PROVE TypeOK'
  OBVIOUS
<1> USE DEF IndInv, TypeOK, ledger, worker
<1>0. row' \in [Txns -> Rows] /\ held' \in [Txns -> [Participants -> Outcomes]]
  BY RowStep, HeldStep DEF RowsGrow, HeldKept
<1>1. CASE UNCHANGED vars
  BY <1>1 DEF vars
<1>2. CASE Tick
  BY <1>2 DEF Tick
<1>3. ASSUME NEW t \in Txns, Begin(t) PROVE TypeOK'
  BY <1>0, <1>3, ExpiryAssumption DEF Begin
<1>4. ASSUME NEW w \in Workers, NEW t \in Txns,
             PrepareExisting(w, t) \/ FinishRead(w, t) \/ ListInDoubt(w, t)
      PROVE  TypeOK'
  <2>1. PICK stage \in Stages : pc' = [pc EXCEPT ![w] = stage]
    BY <1>4 DEF PrepareExisting, FinishRead, ListInDoubt
  <2>2. /\ txn' = [txn EXCEPT ![w] = t] /\ rec' = [rec EXCEPT ![w] = row[t]]
        /\ UNCHANGED <<ledger, held, target, want, stray, told>>
    BY <1>4, Zenon DEF PrepareExisting, FinishRead, ListInDoubt
  <2> QED
    BY <2>1, <2>2
<1>5. ASSUME NEW w \in Workers, NEW t \in Txns, NEW d \in Wants, DecideRead(w, t, d) PROVE TypeOK'
  <2>1. told' \subseteq Answers
    BY <1>5 DEF DecideRead, Rows, Answers
  <2>2. CASE UNCHANGED worker
    BY <1>5, <2>1, <2>2, Zenon DEF DecideRead
  <2>3. CASE /\ pc' = [pc EXCEPT ![w] = "deciding"] /\ txn' = [txn EXCEPT ![w] = t]
             /\ want' = [want EXCEPT ![w] = d] /\ UNCHANGED <<rec, target>>
    BY <1>5, <2>1, <2>3 DEF DecideRead
  <2> QED
    BY <1>5, <2>2, <2>3 DEF DecideRead
<1>6. ASSUME NEW w \in Workers, NEW p \in Participants, CallPrepare(w, p) \/ CallFinish(w, p)
      PROVE  TypeOK'
  <2>1. PICK stage \in Stages : pc' = [pc EXCEPT ![w] = stage]
    BY <1>6 DEF CallPrepare, CallFinish
  <2>2. target' = [target EXCEPT ![w] = p] /\ UNCHANGED <<ledger, held, txn, rec, want, stray, told>>
    BY <1>6 DEF CallPrepare, CallFinish
  <2> QED
    BY <2>1, <2>2
<1>7. ASSUME NEW w \in Workers, AnswerPrepare(w) PROVE TypeOK'
  <2>1. CASE Leave(w)
    BY <1>0, <1>7, <2>1, LeaveWorker DEF AnswerPrepare
  <2>2. CASE pc' = [pc EXCEPT ![w] = "gotPrepare"] /\ UNCHANGED <<txn, rec, target, want>>
    BY <1>0, <1>7, <2>2, Zenon DEF AnswerPrepare
  <2> QED
    BY <1>7, <2>1, <2>2 DEF AnswerPrepare
<1>8. ASSUME NEW w \in Workers, RecordPrepared(w) PROVE TypeOK'
  <2>1. CASE Leave(w)
    BY <1>0, <1>8, <2>1, LeaveWorker, Zenon DEF RecordPrepared
  <2>2. ASSUME NEW r \in Rows, Reload(w, r, "preparing") PROVE TypeOK'
    <3>1. "preparing" \in Stages
      OBVIOUS
    <3> QED
      BY <1>0, <1>8, <2>2, <3>1, ReloadWorker DEF RecordPrepared
  <2>3. row[txn[w]] \in Rows /\ MergePrepared(row[txn[w]], target[w]) \in Rows
    BY <1>8, MergedRow DEF RecordPrepared, WorkerInv, WorkerOK
  <2> QED
    BY <1>8, <2>1, <2>2, <2>3, Zenon DEF RecordPrepared
<1>9. ASSUME NEW w \in Workers, PrepareDone(w) \/ FinishDone(w) PROVE TypeOK'
  BY <1>9, LeaveWorker, Zenon DEF PrepareDone, FinishDone
<1>10. ASSUME NEW w \in Workers, DecideStore(w) PROVE TypeOK'
  <2>1. told' \subseteq Answers
    BY <1>0, <1>10 DEF DecideStore, Rows, Answers
  <2> QED
    BY <1>0, <1>10, <2>1, LeaveWorker DEF DecideStore
<1>11. ASSUME NEW w \in Workers, AnswerFinish(w) PROVE TypeOK'
  BY <1>0, <1>11 DEF AnswerFinish
<1>12. ASSUME NEW w \in Workers, RecordFinished(w) PROVE TypeOK'
  <2>1. "finishing" \in Stages /\ [row[txn[w]] EXCEPT !.finished = @ \cup {target[w]}] \in Rows
    BY <1>12, FinishedRow, Zenon DEF RecordFinished, WorkerInv, WorkerOK
  <2> QED
    BY <1>0, <1>12, <2>1, ReloadWorker DEF RecordFinished
<1>13. ASSUME NEW w \in Workers, RecoverRow(w) PROVE TypeOK'
  <2>1. CASE Leave(w)
    BY <1>0, <1>13, <2>1, LeaveWorker DEF RecoverRow
  <2>2. CASE Reload(w, NoRow, "toFinish")
    <3>1. "toFinish" \in Stages /\ NoRow \in Rows
      BY DEF NoRow, Rows
    <3> QED
      BY <1>0, <1>13, <2>2, <3>1, ReloadWorker, Zenon DEF RecoverRow
  <2> QED
    BY <1>13, <2>1, <2>2 DEF RecoverRow
<1>14. ASSUME NEW w \in Workers, Fail(w) PROVE TypeOK'
  <2>1. stray' \subseteq Calls
    BY <1>14 DEF Fail, Outstanding, Calls, WorkerInv, WorkerOK
  <2> QED
    BY <1>14, <2>1, LeaveWorker DEF Fail
<1>15. ASSUME NEW c \in stray, Deliver(c) PROVE TypeOK'
  BY <1>0, <1>15 DEF Deliver
<1> QED
  BY <1>1, <1>2, <1>3, <1>4, <1>5, <1>6, <1>7, <1>8, <1>9, <1>10, <1>11, <1>12, <1>13, <1>14, <1>15,
     ZenonT(30)
     DEF Next, WorkerStep

\* What LedgerInv and OutcomeIsDecision say of one row r and of what the
\* participants hold for it.
RowOK(r, h) == /\ r.state \in {"prepared", "committed"} => r.prepared = Participants
               /\ \A p \in r.prepared : h[p] # "none"
               /\ \A p \in r.finished : h[p] = r.state /\ Terminal(r)
               /\ \A p \in Participants : h[p] \in TERMINAL => r.state = h[p]

\* The invariants of the ledger, row by row.
LEMMA RowWise == /\ LedgerInv /\ OutcomeIsDecision => \A t \in Txns : RowOK(row[t], held[t])
                 /\ (\A t \in Txns : RowOK(row'[t], held'[t])) => LedgerInv' /\ OutcomeIsDecision'
  BY DEF LedgerInv, OutcomeIsDecision, RowOK

\* Every store operation keeps a row in agreement with what is held for it:
\* the INSERT of begin,
LEMMA BegunOK == ASSUME NEW r \in Rows, NEW h, RowOK(r, h), r.state = "none"
                 PROVE  RowOK([r EXCEPT !.state = "preparing"], h)
  BY BegunRow DEF RowOK

\* the receipt record_prepared merges,
LEMMA MergedOK == ASSUME NEW r \in Rows, NEW h, NEW p \in Participants, RowOK(r, h),
                         r.state = "preparing", h[p] # "none"
                  PROVE  RowOK(MergePrepared(r, p), h)
<1> DEFINE s == MergePrepared(r, p)
<1>1. /\ s.state \in {"preparing", "prepared"} /\ (s.state = "prepared" => s.prepared = Participants)
      /\ s.prepared = r.prepared \cup {p} /\ s.finished = r.finished
  BY MergedRow
<1> HIDE DEF s
<1>2. \A q \in Participants : h[q] \notin TERMINAL
  BY DEF RowOK
<1>3. \A q \in r.finished : FALSE
  BY DEF RowOK
<1> QED
  BY <1>1, <1>2, <1>3 DEF RowOK, s

\* the decision, before which no participant can have finished,
LEMMA DecidedOK == ASSUME NEW r \in Rows, NEW h, NEW d \in Wants, RowOK(r, h), ~Terminal(r),
                          d.state = "committed" => r.prepared = Participants
                   PROVE  RowOK(Decided(r, d), h)
<1> DEFINE s == Decided(r, d)
<1>1. s.state = d.state /\ d.state \in TERMINAL /\ s.prepared = r.prepared /\ s.finished = r.finished
  BY DecidedRow DEF Wants
<1> HIDE DEF s
<1>2. \A q \in Participants : h[q] \notin TERMINAL
  BY DEF RowOK, Terminal
<1>3. \A q \in r.finished : FALSE
  BY DEF RowOK
<1> QED
  BY <1>1, <1>2, <1>3 DEF RowOK, s, TERMINAL

\* the abort of an expired row,
LEMMA ExpiredOK == ASSUME NEW r \in Rows, NEW h, RowOK(r, h), ~Terminal(r)
                   PROVE  RowOK(Expired(r), h)
<1> DEFINE s == Expired(r)
<1>1. s.state = "aborted" /\ s.prepared = r.prepared /\ s.finished = r.finished
  BY ExpiredRow
<1> HIDE DEF s
<1>2. \A q \in Participants : h[q] \notin TERMINAL
  BY DEF RowOK, Terminal
<1>3. \A q \in r.finished : FALSE
  BY DEF RowOK
<1> QED
  BY <1>1, <1>2, <1>3 DEF RowOK, s

\* and the receipt record_finished merges.
LEMMA FinishedOK == ASSUME NEW r \in Rows, NEW h, NEW p \in Participants, RowOK(r, h),
                           Terminal(r), h[p] = r.state
                    PROVE  RowOK([r EXCEPT !.finished = @ \cup {p}], h)
  BY FinishedRow DEF RowOK

\* An UPDATE that keeps its own row in agreement keeps them all.
LEMMA OneRow ==
    ASSUME NEW t \in Txns, NEW r \in Rows, row \in [Txns -> Rows], row' = [row EXCEPT ![t] = r],
           UNCHANGED held, LedgerInv, OutcomeIsDecision, RowOK(r, held[t])
    PROVE  LedgerInv' /\ OutcomeIsDecision'
<1>1. row'[t] = r /\ \A x \in Txns : x # t => row'[x] = row[x]
  BY RowUpdate
<1>2. \A x \in Txns : RowOK(row'[x], held'[x])
  BY <1>1, RowWise
<1> QED
  BY <1>2, RowWise

\* So does a participant that stages or takes the outcome the row has decided.
LEMMA OneHeld ==
    ASSUME NEW t \in Txns, NEW p \in Participants, NEW o \in Outcomes \ {"none"},
           held \in [Txns -> [Participants -> Outcomes]], held' = [held EXCEPT ![t][p] = o],
           UNCHANGED row, LedgerInv, OutcomeIsDecision,
           row[t] \in Rows,
           held[t][p] \notin TERMINAL \/ held[t][p] = o,
           o \in TERMINAL => row[t].state = o
    PROVE  LedgerInv' /\ OutcomeIsDecision'
<1>1. /\ held'[t][p] = o
      /\ \A x \in Txns, q \in Participants : x # t \/ q # p => held'[x][q] = held[x][q]
  <2>1. o \in Outcomes
    OBVIOUS
  <2> QED
    BY <2>1, HeldUpdate
<1>2. ASSUME NEW x \in Txns, x # t PROVE RowOK(row'[x], held'[x])
  <2>1. RowOK(row[x], held[x]) /\ held'[x] = held[x]
    BY <1>2, RowWise
  <2> QED
    BY <2>1, ZenonT(30)
<1>3. RowOK(row'[t], held'[t])
  <2>1. RowOK(row[t], held[t])
    BY RowWise
  <2>2. row[t].prepared \subseteq Participants /\ row[t].finished \subseteq Participants
    BY DEF Rows
  <2>3. \A q \in row[t].finished : held'[t][q] = row[t].state /\ Terminal(row[t])
    BY <1>1, <2>1, <2>2 DEF RowOK, Terminal
  <2> QED
    BY <1>1, <2>1, <2>2, <2>3, Zenon DEF RowOK
<1> QED
  BY <1>2, <1>3, RowWise, ZenonT(30)

\* A receipt is recorded, a decision taken and an outcome materialized only
\* where the ledger and the participants agree.
LEMMA LedgerStep == IndInv /\ [Next]_vars => LedgerInv' /\ OutcomeIsDecision'
<1> DEFINE Goal == LedgerInv' /\ OutcomeIsDecision'
<1> SUFFICES ASSUME IndInv, [Next]_vars PROVE Goal
  OBVIOUS
<1>0. /\ row \in [Txns -> Rows] /\ held \in [Txns -> [Participants -> Outcomes]]
      /\ txn \in [Workers -> Txns] /\ want \in [Workers -> Wants] /\ stray \subseteq Calls
      /\ LedgerInv /\ OutcomeIsDecision /\ WorkerInv /\ StrayInv
      /\ \A t \in Txns : RowOK(row[t], held[t])
  BY RowWise DEF IndInv, TypeOK
<1>1. CASE UNCHANGED <<row, held>>
  BY <1>0, <1>1 DEF LedgerInv, OutcomeIsDecision
<1>2. ASSUME NEW t \in Txns, Begin(t) PROVE Goal
  <2> DEFINE r == [row[t] EXCEPT !.state = "preparing"]
  <2>1. row' = [row EXCEPT ![t] = r] /\ UNCHANGED held /\ row[t].state = "none" /\ row[t] \in Rows
    BY <1>0, <1>2 DEF Begin
  <2>2. r \in Rows /\ RowOK(r, held[t])
    BY <1>0, <2>1, BegunRow, BegunOK
  <2> HIDE DEF r
  <2> QED
    BY <1>0, <2>1, <2>2, OneRow, ZenonT(30)
<1>3. ASSUME NEW t \in Txns, NEW p \in Participants, Stage(t, p), UNCHANGED row PROVE Goal
  BY <1>0, <1>3, OneHeld, ZenonT(30) DEF Stage
<1>4. ASSUME NEW t \in Txns, NEW p \in Participants, Materialize(t, p, row[t].state),
             Terminal(row[t]), UNCHANGED row
      PROVE  Goal
  <2> DEFINE o == row[t].state
  <2>1. o \in Outcomes \ {"none"} /\ (held[t][p] \notin TERMINAL \/ held[t][p] = o) /\ row[t] \in Rows
    BY <1>0, <1>4, Zenon DEF Materialize
  <2> QED
    BY <1>0, <1>4, <2>1, OneHeld, ZenonT(30) DEF Materialize
<1>5. ASSUME NEW w \in Workers, AnswerPrepare(w) PROVE Goal
  BY <1>0, <1>1, <1>3, <1>5, Zenon DEF AnswerPrepare, WorkerInv, WorkerOK, ledger
<1>6. ASSUME NEW w \in Workers, AnswerFinish(w) PROVE Goal
  BY <1>0, <1>4, <1>6 DEF AnswerFinish, WorkerInv, WorkerOK, ledger
<1>7. ASSUME NEW c \in stray, Deliver(c) PROVE Goal
  BY <1>0, <1>3, <1>4, <1>7 DEF Deliver, StrayInv, Calls, ledger
<1>8. ASSUME NEW w \in Workers, RecordPrepared(w) PROVE Goal
  <2> DEFINE t == txn[w]  p == target[w]  r == MergePrepared(row[t], p)
  <2>1. /\ t \in Txns /\ p \in Participants /\ row[t] \in Rows
        /\ held[t][p] # "none" /\ UNCHANGED held
    BY <1>0, <1>8 DEF RecordPrepared, WorkerInv, WorkerOK
  <2>2. CASE row[t].state = "preparing" /\ row' = [row EXCEPT ![t] = r]
    <3>1. r \in Rows /\ RowOK(r, held[t])
      BY <1>0, <2>1, <2>2, MergedRow, MergedOK, Zenon
    <3> HIDE DEF r
    <3> QED
      BY <1>0, <2>1, <2>2, <3>1, OneRow, ZenonT(30)
  <2> QED
    BY <1>1, <1>8, <2>1, <2>2, ZenonT(30) DEF RecordPrepared
<1>9. ASSUME NEW w \in Workers, DecideStore(w) PROVE Goal
  <2> DEFINE t == txn[w]  d == want[w]  r == Decided(row[t], d)
  <2>1. t \in Txns /\ d \in Wants /\ row[t] \in Rows /\ UNCHANGED held
    BY <1>0, <1>9 DEF DecideStore
  <2>2. CASE ~Terminal(row[t]) /\ MayDecide(t, d) /\ row' = [row EXCEPT ![t] = r]
    <3>1. r \in Rows /\ RowOK(r, held[t])
      BY <1>0, <2>1, <2>2, DecidedRow, DecidedOK DEF MayDecide
    <3> HIDE DEF r
    <3> QED
      BY <1>0, <2>1, <2>2, <3>1, OneRow, ZenonT(30)
  <2> QED
    BY <1>1, <1>9, <2>1, <2>2, Zenon DEF DecideStore
<1>10. ASSUME NEW w \in Workers, RecoverRow(w) PROVE Goal
  <2> DEFINE t == txn[w]  r == Expired(row[t])
  <2>1. t \in Txns /\ row[t] \in Rows /\ UNCHANGED held
    BY <1>0, <1>10 DEF RecoverRow
  <2>2. CASE ~Terminal(row[t]) /\ row' = [row EXCEPT ![t] = r]
    <3>1. r \in Rows /\ RowOK(r, held[t])
      BY <1>0, <2>1, <2>2, ExpiredRow, ExpiredOK
    <3> HIDE DEF r
    <3> QED
      BY <1>0, <2>1, <2>2, <3>1, OneRow, ZenonT(30)
  <2> QED
    BY <1>1, <1>10, <2>1, <2>2, Zenon DEF RecoverRow
<1>11. ASSUME NEW w \in Workers, RecordFinished(w) PROVE Goal
  <2> DEFINE t == txn[w]  p == target[w]  r == [row[t] EXCEPT !.finished = @ \cup {p}]
  <2>1. /\ t \in Txns /\ p \in Participants /\ row[t] \in Rows /\ Terminal(row[t])
        /\ held[t][p] = row[t].state /\ UNCHANGED held
    BY <1>0, <1>11 DEF RecordFinished, WorkerInv, WorkerOK
  <2>2. row' = [row EXCEPT ![t] = r]
    BY <1>11 DEF RecordFinished
  <2>3. r \in Rows /\ RowOK(r, held[t])
    BY <1>0, <2>1, FinishedRow, FinishedOK, ZenonT(30)
  <2> HIDE DEF r
  <2> QED
    BY <1>0, <2>1, <2>2, <2>3, OneRow, ZenonT(30)
<1> QED
  BY <1>1, <1>2, <1>5, <1>6, <1>7, <1>8, <1>9, <1>10, <1>11, ZenonT(30)
     DEF Next, WorkerStep, vars, ledger, Tick, PrepareExisting, FinishRead, ListInDoubt, DecideRead,
         CallPrepare, CallFinish, PrepareDone, FinishDone, Fail

\* A worker that takes no step keeps what it may rely on: rows only grow and
\* participants never move back.
LEMMA WorkerKept ==
    ASSUME IndInv, RowsGrow, HeldKept, NEW v \in Workers,
           pc'[v] = pc[v], txn'[v] = txn[v], rec'[v] = rec[v], target'[v] = target[v]
    PROVE  WorkerOK(v)'
<1>1. WorkerOK(v) /\ txn[v] \in Txns /\ Grows(row[txn[v]], row'[txn[v]])
  BY Zenon DEF IndInv, TypeOK, WorkerInv, RowsGrow
<1>2. CASE pc[v] = "gotFinish"
  <2>1. target[v] \in Participants /\ held[txn[v]][target[v]] \in TERMINAL
    BY <1>1, <1>2, Zenon DEF WorkerOK
  <2>2. held'[txn[v]][target[v]] = held[txn[v]][target[v]]
    BY <1>1, <2>1 DEF HeldKept
  <2> QED
    BY <1>1, <1>2, <2>1, <2>2, Zenon DEF WorkerOK, Grows
<1>3. CASE pc[v] # "gotFinish"
  BY <1>1, <1>3, ZenonT(30) DEF WorkerOK, Grows, HeldKept
<1> QED
  BY <1>2, <1>3

\* A worker that goes on with a fresh row relies on no participant yet.
LEMMA ReloadKept ==
    ASSUME IndInv, RowsGrow, HeldKept,
           NEW w \in Workers, NEW r \in Rows, NEW stage \in Stages, Reload(w, r, stage),
           row[txn[w]].state # "none",
           stage \in {"preparing", "toFinish", "finishing"},
           stage = "finishing" => Terminal(r) /\ r.state = row'[txn[w]].state
    PROVE  WorkerInv'
<1>1. /\ pc'[w] = stage /\ rec'[w] = r /\ txn' = txn
      /\ \A v \in Workers : v # w => pc'[v] = pc[v] /\ rec'[v] = rec[v] /\ target'[v] = target[v]
  <2>1. TypeOK
    BY Zenon DEF IndInv
  <2> QED
    BY <2>1, ReloadWorker
<1>2. row'[txn[w]].state # "none"
  BY Zenon DEF IndInv, TypeOK, RowsGrow, Grows
<1>3. WorkerOK(w)'
  BY <1>1, <1>2 DEF WorkerOK
<1>4. ASSUME NEW v \in Workers, v # w PROVE WorkerOK(v)'
  BY <1>1, <1>4, WorkerKept, Zenon
<1> QED
  BY <1>3, <1>4 DEF WorkerInv

\* A worker's knowledge survives the steps of the others, and its own steps
\* establish what its next ones rely on.
LEMMA WorkersStep == IndInv /\ [Next]_vars => WorkerInv'
<1> SUFFICES ASSUME IndInv, [Next]_vars PROVE WorkerInv'
  OBVIOUS
<1> USE DEF IndInv, TypeOK, WorkerInv
<1>0. RowsGrow /\ HeldKept
  BY RowStep, HeldStep
<1>1. CASE UNCHANGED worker
  BY <1>0, <1>1, WorkerKept DEF worker
<1>2. ASSUME NEW w \in Workers, Leave(w) PROVE WorkerInv'
  <2>1. WorkerOK(w)'
    BY <1>2, LeaveWorker, Zenon DEF WorkerOK
  <2>2. ASSUME NEW v \in Workers, v # w PROVE WorkerOK(v)'
    BY <1>0, <1>2, <2>2, LeaveWorker, WorkerKept
  <2> QED
    BY <2>1, <2>2, Zenon
<1>3. ASSUME NEW w \in Workers, NEW t \in Txns,
             PrepareExisting(w, t) \/ FinishRead(w, t) \/ ListInDoubt(w, t)
      PROVE  WorkerInv'
  <2>1. /\ txn' = [txn EXCEPT ![w] = t] /\ rec' = [rec EXCEPT ![w] = row[t]]
        /\ UNCHANGED <<row, held, target>>
        /\ row[t].state # "none"
    BY <1>3 DEF PrepareExisting, FinishRead, ListInDoubt, InDoubt, ledger
  <2>2. \/ pc' = [pc EXCEPT ![w] = "preparing"]
        \/ pc' = [pc EXCEPT ![w] = "recovering"]
        \/ pc' = [pc EXCEPT ![w] = "finishing"] /\ Terminal(row[t])
    BY <1>3, Zenon DEF PrepareExisting, FinishRead, ListInDoubt
  <2>3. WorkerOK(w)'
    BY <2>1, <2>2, Zenon DEF WorkerOK
  <2>4. ASSUME NEW v \in Workers, v # w PROVE WorkerOK(v)'
    BY <1>0, <2>1, <2>2, <2>4, WorkerKept
  <2> QED
    BY <2>3, <2>4, Zenon
<1>4. ASSUME NEW w \in Workers, NEW t \in Txns, NEW d \in Wants, DecideRead(w, t, d)
      PROVE  WorkerInv'
  <2>1. CASE /\ pc' = [pc EXCEPT ![w] = "deciding"] /\ txn' = [txn EXCEPT ![w] = t]
             /\ UNCHANGED <<row, rec, target>> /\ row[t].state # "none"
    <3>1. WorkerOK(w)'
      BY <2>1, ZenonT(30) DEF WorkerOK
    <3>2. ASSUME NEW v \in Workers, v # w PROVE WorkerOK(v)'
      BY <1>0, <2>1, <3>2, WorkerKept
    <3> QED
      BY <3>1, <3>2
  <2> QED
    BY <1>1, <1>4, <2>1, ZenonT(30) DEF DecideRead, ledger
<1>5. ASSUME NEW w \in Workers, NEW p \in Participants, CallPrepare(w, p) \/ CallFinish(w, p)
      PROVE  WorkerInv'
  <2>1. target' = [target EXCEPT ![w] = p] /\ UNCHANGED <<row, held, txn, rec>>
    BY <1>5, Zenon DEF CallPrepare, CallFinish, ledger
  <2>2. \/ pc[w] = "preparing" /\ pc' = [pc EXCEPT ![w] = "awaitPrepare"]
        \/ pc[w] = "finishing" /\ pc' = [pc EXCEPT ![w] = "awaitFinish"]
    BY <1>5, Zenon DEF CallPrepare, CallFinish
  <2>3. WorkerOK(w)'
    BY <2>1, <2>2 DEF WorkerOK
  <2>4. ASSUME NEW v \in Workers, v # w PROVE WorkerOK(v)'
    BY <1>0, <2>1, <2>2, <2>4, WorkerKept
  <2> QED
    BY <2>3, <2>4, Zenon
<1>6. ASSUME NEW w \in Workers, AnswerPrepare(w) PROVE WorkerInv'
  <2>1. CASE /\ Stage(txn[w], target[w]) /\ pc' = [pc EXCEPT ![w] = "gotPrepare"]
             /\ UNCHANGED <<txn, rec, target, want>>
    <3>1. pc[w] = "awaitPrepare" /\ UNCHANGED row
      BY <1>6, Zenon DEF AnswerPrepare, ledger
    <3>2. held'[txn[w]][target[w]] = "prepared"
      BY <2>1, <3>1, HeldUpdate, Zenon DEF Stage, WorkerOK
    <3>3. WorkerOK(w)'
      BY <2>1, <3>1, <3>2, Zenon DEF WorkerOK
    <3>4. ASSUME NEW v \in Workers, v # w PROVE WorkerOK(v)'
      BY <1>0, <2>1, <3>4, WorkerKept, Zenon
    <3> QED
      BY <3>3, <3>4
  <2> QED
    BY <1>2, <1>6, <2>1 DEF AnswerPrepare
<1>7. ASSUME NEW w \in Workers, NEW r \in Rows, NEW stage \in Stages, Reload(w, r, stage),
             row[txn[w]].state # "none",
             stage \in {"preparing", "toFinish", "finishing"},
             stage = "finishing" => Terminal(r) /\ r.state = row'[txn[w]].state
      PROVE  WorkerInv'
  BY ONLY <1>0, <1>7, ReloadKept, IndInv
<1>8. ASSUME NEW w \in Workers, RecordPrepared(w) PROVE WorkerInv'
  <2>1. /\ row[txn[w]] \in Rows /\ row[txn[w]].state # "none" /\ "preparing" \in Stages
        /\ MergePrepared(row[txn[w]], target[w]) \in Rows
    BY <1>8, MergedRow, ZenonT(30) DEF RecordPrepared, WorkerOK
  <2> QED
    BY <1>2, <1>7, <1>8, <2>1, ZenonT(30) DEF RecordPrepared
<1>9. ASSUME NEW w \in Workers, AnswerFinish(w) PROVE WorkerInv'
  <2>1. /\ pc[w] = "awaitFinish" /\ pc' = [pc EXCEPT ![w] = "gotFinish"]
        /\ UNCHANGED <<row, txn, rec, target>>
    BY <1>9 DEF AnswerFinish, ledger
  <2>2. held'[txn[w]][target[w]] = rec[w].state
    <3>1. /\ txn[w] \in Txns /\ target[w] \in Participants /\ rec[w].state \in Outcomes
          /\ Materialize(txn[w], target[w], rec[w].state)
      BY <1>9, <2>1, Zenon DEF AnswerFinish, WorkerOK, Rows, Outcomes
    <3> QED
      BY <3>1, HeldUpdate DEF Materialize
  <2>3. WorkerOK(w)'
    BY <2>1, <2>2 DEF WorkerOK
  <2>4. ASSUME NEW v \in Workers, v # w PROVE WorkerOK(v)'
    BY <1>0, <2>1, <2>4, WorkerKept
  <2> QED
    BY <2>3, <2>4
<1>10. ASSUME NEW w \in Workers, RecordFinished(w) PROVE WorkerInv'
  <2> DEFINE r == [row[txn[w]] EXCEPT !.finished = @ \cup {target[w]}]
  <2>1. "finishing" \in Stages /\ r \in Rows /\ r.state = row[txn[w]].state
    BY <1>10, FinishedRow, Zenon DEF RecordFinished, WorkerOK
  <2>2. Reload(w, r, "finishing") /\ Terminal(row[txn[w]]) /\ row'[txn[w]].state = row[txn[w]].state
    BY <1>0, <1>10 DEF RecordFinished, RowsGrow, Grows
  <2> QED
    BY <1>7, <2>1, <2>2, ZenonT(30)
<1>11. ASSUME NEW w \in Workers, RecoverRow(w) PROVE WorkerInv'
  <2>1. "toFinish" \in Stages /\ NoRow \in Rows /\ row[txn[w]].state # "none"
    BY <1>11, ZenonT(30) DEF NoRow, Rows, RecoverRow, WorkerOK
  <2> QED
    BY <1>2, <1>7, <1>11, <2>1 DEF RecoverRow
<1> QED
  BY <1>1, <1>2, <1>3, <1>4, <1>5, <1>6, <1>8, <1>9, <1>10, <1>11
    , Zenon DEF Next, WorkerStep, vars, worker, Tick, Begin, Deliver, PrepareDone, FinishDone,
         DecideStore, Fail

\* A call left behind by a worker stays one of a begun transaction and of its
\* recorded decision.
LEMMA StrayStep == IndInv /\ [Next]_vars => StrayInv'
<1> SUFFICES ASSUME IndInv, [Next]_vars PROVE StrayInv'
  OBVIOUS
<1> USE DEF IndInv, TypeOK, StrayInv, Calls
<1>1. RowsGrow
  BY RowStep
<1>2. CASE UNCHANGED stray
  BY <1>1, <1>2, ZenonT(30) DEF RowsGrow, Grows
<1>3. ASSUME NEW w \in Workers, Fail(w) PROVE StrayInv'
  BY <1>3 DEF Fail, Leave, Outstanding, WorkerInv, WorkerOK, ledger
<1> QED
  BY <1>2, <1>3, ZenonT(30) DEF Next, WorkerStep, vars, Tick, Begin, Deliver, PrepareExisting, FinishRead,
     ListInDoubt, DecideRead, CallPrepare, CallFinish, AnswerPrepare, RecordPrepared, PrepareDone,
     DecideStore, AnswerFinish, RecordFinished, FinishDone, RecoverRow

\* What `decide` has answered stays what the row says.
LEMMA ToldStep == IndInv /\ [Next]_vars => ToldInv'
<1> SUFFICES ASSUME IndInv, [Next]_vars PROVE ToldInv'
  OBVIOUS
<1>1. ASSUME NEW a \in told PROVE row'[a.t].state = a.state /\ row'[a.t].witness = a.witness
  <2>1. a.t \in Txns /\ a.state \in TERMINAL
    BY DEF IndInv, TypeOK, Answers
  <2>2. Grows(row[a.t], row'[a.t])
    BY <2>1, RowStep DEF RowsGrow
  <2> QED
    BY <2>1, <2>2 DEF IndInv, ToldInv, Grows, Terminal
<1>2. CASE UNCHANGED told
  BY <1>1, <1>2 DEF ToldInv
<1>3. ASSUME NEW t, told' \subseteq told \cup {[t |-> t, state |-> row'[t].state, witness |-> row'[t].witness]}
      PROVE  ToldInv'
  BY <1>1, <1>3 DEF ToldInv
<1>4. ASSUME NEW w \in Workers, NEW t \in Txns, NEW d \in Wants, DecideRead(w, t, d) PROVE ToldInv'
  <2>1. row' = row
    BY <1>4, Zenon DEF DecideRead, ledger
  <2>2. told' = told \/ told' = told \cup {[t |-> t, state |-> row[t].state, witness |-> row[t].witness]}
    BY <1>4, Zenon DEF DecideRead
  <2> QED
    BY <1>2, <1>3, <2>1, <2>2, Zenon
<1>5. ASSUME NEW w \in Workers, DecideStore(w) PROVE ToldInv'
  <2> DEFINE t == txn[w]
  <2>1. told' = told \/ told' = told \cup {[t |-> t, state |-> row'[t].state, witness |-> row'[t].witness]}
    BY <1>5, ZenonT(30) DEF DecideStore
  <2> QED
    BY <1>2, <1>3, <2>1
<1> QED
  BY <1>2, <1>4, <1>5, ZenonT(30) DEF Next, WorkerStep, vars, Tick, Begin, Deliver, PrepareExisting, FinishRead,
     ListInDoubt, CallPrepare, CallFinish, AnswerPrepare, RecordPrepared, PrepareDone,
     AnswerFinish, RecordFinished, FinishDone, RecoverRow, Fail

\* IndInv holds in every reachable state of the ledger and its workers.
THEOREM Inductive == Spec => []IndInv
<1>1. IndInv /\ [Next]_vars => IndInv'
  BY TypeStep, LedgerStep, WorkersStep, StrayStep, ToldStep DEF IndInv
<1> QED
  BY InitIndInv, <1>1, PTL DEF Spec

\* The rows, the copies, the calls and the answers always have their types.
THEOREM TypeCorrect == Spec => []TypeOK
  BY Inductive, PTL DEF IndInv

\* A participant that has committed or aborted follows the recorded decision.
THEOREM OutcomesFollowDecisions == Spec => []OutcomeIsDecision
  BY Inductive, PTL DEF IndInv

\* No two participants end a transaction differently.
THEOREM AtomicOutcomes == Spec => []Atomicity
<1>1. IndInv => Atomicity
  BY DEF IndInv, OutcomeIsDecision, Atomicity
<1> QED
  BY <1>1, Inductive, PTL

\* A recorded commit is over state that every participant holds.
THEOREM CommitsAreHeld == Spec => []CommitIsHeld
<1>1. IndInv => CommitIsHeld
  <2> SUFFICES ASSUME IndInv, NEW t \in Txns, row[t].state = "committed", NEW p \in Participants
               PROVE  held[t][p] \in {"prepared", "committed"}
    BY Zenon DEF CommitIsHeld
  <2>1. held[t][p] # "none" /\ held[t][p] \in Outcomes
    BY Zenon DEF IndInv, TypeOK, LedgerInv
  <2>2. held[t][p] # "aborted"
    BY DEF IndInv, OutcomeIsDecision
  <2> QED
    BY <2>1, <2>2
<1> QED
  BY <1>1, Inductive, PTL

\* A participant recorded as finished holds no prepared fence, whatever prepare
\* call arrives later.
THEOREM FinishedIsClosed == Spec => []FinishedMeansClosed
<1>1. IndInv => FinishedMeansClosed
  BY DEF IndInv, LedgerInv, FinishedMeansClosed
<1> QED
  BY <1>1, Inductive, PTL

\* All callers of `decide` are given the same decision and witness.
THEOREM DecideAnswersAgree == Spec => []AnswersAgree
<1>1. IndInv => AnswersAgree
  <2> SUFFICES ASSUME IndInv, NEW a \in told, NEW b \in told, a.t = b.t PROVE a = b
    BY DEF AnswersAgree
  <2>1. a \in Answers /\ b \in Answers
    BY DEF IndInv, TypeOK
  <2>2. a.state = b.state /\ a.witness = b.witness
    BY DEF IndInv, ToldInv
  <2> QED
    BY <2>1, <2>2 DEF Answers
<1> QED
  BY <1>1, Inductive, PTL

\* Decisions are final and receipts are never removed from a row.
THEOREM RowsOnlyGrow == Spec => RowOnlyGrows
<1> DEFINE A == \A t \in Txns : /\ Terminal(row[t]) => /\ row'[t].state = row[t].state
                                                       /\ row'[t].witness = row[t].witness
                                /\ row[t].prepared \subseteq row'[t].prepared
                                /\ row[t].finished \subseteq row'[t].finished
<1>1. IndInv /\ [Next]_vars => [A]_vars
  BY RowStep DEF RowsGrow, Grows
<1> HIDE DEF A
<1>2. [][A]_vars <=> RowOnlyGrows
  BY DEF A, RowOnlyGrows
<1> QED
  BY <1>1, <1>2, Inductive, PTL DEF Spec

\* The abstract decision of one transaction.
Abstracted(r) == IF r.state \in {"preparing", "prepared"} THEN "undecided" ELSE r.state

\* A change of rows that leaves their abstract decisions alone is a stutter.
LEMMA SameDecision ==
    ASSUME \A x \in Txns : Abstracted(row'[x]) = Abstracted(row[x])
    PROVE  Decision' = Decision
  BY DEF Decision, Abstracted

\* A participant that stages is an abstract Prepare, or a replay.
LEMMA StageMapped ==
    ASSUME IndInv, NEW t \in Txns, NEW p \in Participants, Stage(t, p), UNCHANGED row,
           row[t].state # "none"
    PROVE  [AC!Next]_<<Decision, held>>
<1>1. Decision' = Decision
  BY DEF Decision
<1>2. CASE held[t][p] = "prepared"
  <2>1. held' = held
    BY <1>2 DEF Stage, IndInv, TypeOK
  <2> QED
    BY <1>1, <2>1
<1>3. CASE held[t][p] = "none"
  <2>1. row[t].state # "committed"
    BY <1>3 DEF IndInv, LedgerInv
  <2>2. Decision[t] \in {"undecided", "aborted"}
    BY <2>1 DEF Decision, IndInv, TypeOK, Rows
  <2>3. AC!Prepare(t, p)
    BY <1>1, <1>3, <2>2, Zenon DEF AC!Prepare, Stage
  <2> QED
    BY <2>3 DEF AC!Next
<1> QED
  BY <1>2, <1>3 DEF Stage

\* A participant that materializes a decision is an abstract Finish, or a replay.
LEMMA MaterializeMapped ==
    ASSUME IndInv, NEW t \in Txns, NEW p \in Participants, Terminal(row[t]), UNCHANGED row,
           Materialize(t, p, row[t].state)
    PROVE  [AC!Next]_<<Decision, held>>
<1>1. Decision' = Decision /\ Decision[t] = row[t].state
  BY DEF Decision
<1>2. CASE held[t][p] = row[t].state
  <2>1. held' = held
    BY <1>2, Zenon DEF Materialize, IndInv, TypeOK
  <2> QED
    BY <1>1, <2>1, Zenon
<1>3. CASE held[t][p] # row[t].state
  <2>1. AC!Finish(t, p)
    BY <1>1, <1>3 DEF AC!Finish, Materialize
  <2> QED
    BY <2>1 DEF AC!Next
<1> QED
  BY <1>2, <1>3, Zenon

\* A row that becomes terminal is an abstract Commit or Abort.
LEMMA DecisionMapped ==
    ASSUME IndInv, NEW t \in Txns, NEW r \in Rows, row' = [row EXCEPT ![t] = r], UNCHANGED held,
           row[t].state \in {"preparing", "prepared"}, Terminal(r),
           r.state = "committed" => row[t].prepared = Participants
    PROVE  [AC!Next]_<<Decision, held>>
<1>1. Decision[t] = "undecided" /\ Decision' = [Decision EXCEPT ![t] = r.state]
  BY RowUpdate, ZenonT(30) DEF Decision, IndInv, TypeOK
<1>2. CASE r.state = "aborted"
  <2>1. AC!Abort(t)
    BY <1>1, <1>2, Zenon DEF AC!Abort
  <2> QED
    BY <2>1 DEF AC!Next
<1>3. CASE r.state = "committed"
  <2>1. ASSUME NEW p \in Participants PROVE held[t][p] = "prepared"
    <3>1. held[t][p] # "none" /\ held[t][p] \in Outcomes
      BY <1>3, Zenon DEF IndInv, LedgerInv, TypeOK
    <3>2. held[t][p] \notin TERMINAL
      BY DEF IndInv, OutcomeIsDecision
    <3> QED
      BY <3>1, <3>2, Zenon
  <2>2. AC!Commit(t)
    BY <1>1, <1>3, <2>1 DEF AC!Commit
  <2> QED
    BY <2>2 DEF AC!Next
<1> QED
  BY <1>2, <1>3

\* Every step of the detailed specification is a step of atomic commit or a
\* stutter of it.
LEMMA StepMapped == IndInv /\ [Next]_vars => [AC!Next]_<<Decision, held>>
<1> DEFINE Goal == [AC!Next]_<<Decision, held>>
<1> SUFFICES ASSUME IndInv, [Next]_vars PROVE Goal
  OBVIOUS
<1> USE DEF IndInv, TypeOK
<1> HIDE DEF Goal
<1>1. CASE UNCHANGED <<row, held>>
  BY <1>1 DEF Goal, Decision
<1>2. ASSUME NEW t \in Txns, Begin(t) PROVE Goal
  <2>1. Decision[t] = "none" /\ Decision' = [Decision EXCEPT ![t] = "undecided"]
    BY <1>2, ZenonT(30) DEF Begin, Decision, Rows
  <2>2. AC!Begin(t)
    BY <1>2, <2>1 DEF AC!Begin, Begin
  <2> QED
    BY <2>2 DEF AC!Next, Goal
<1>3. ASSUME NEW w \in Workers, AnswerPrepare(w) PROVE Goal
  BY <1>1, <1>3, StageMapped, Zenon DEF AnswerPrepare, WorkerInv, WorkerOK, ledger, Goal
<1>4. ASSUME NEW w \in Workers, AnswerFinish(w) PROVE Goal
  <2>1. /\ txn[w] \in Txns /\ target[w] \in Participants /\ UNCHANGED row
        /\ Terminal(rec[w]) /\ rec[w].state = row[txn[w]].state
        /\ Materialize(txn[w], target[w], rec[w].state)
    BY <1>4 DEF AnswerFinish, WorkerInv, WorkerOK, ledger
  <2> QED
    BY <2>1, MaterializeMapped, Zenon DEF Goal
<1>5. ASSUME NEW c \in stray, Deliver(c) PROVE Goal
  BY <1>5, StageMapped, MaterializeMapped, ZenonT(30) DEF Deliver, StrayInv, Calls, ledger, Goal
<1>6. ASSUME NEW w \in Workers, RecordPrepared(w) PROVE Goal
  <2> DEFINE t == txn[w]  r == MergePrepared(row[t], target[w])
  <2>1. t \in Txns /\ row[t] \in Rows /\ r \in Rows /\ r.state \in {"preparing", "prepared"}
        /\ UNCHANGED held
    BY <1>6, MergedRow, ZenonT(30) DEF RecordPrepared, WorkerInv, WorkerOK
  <2>2. CASE row[t].state = "preparing" /\ row' = [row EXCEPT ![t] = r]
    <3> HIDE DEF r
    <3>1. Decision' = Decision
      BY <2>1, <2>2, RowUpdate, SameDecision, Zenon DEF Abstracted
    <3> QED
      BY <2>1, <3>1, Zenon DEF Goal
  <2> QED
    BY <1>1, <1>6, <2>1, <2>2, ZenonT(30) DEF RecordPrepared
<1>7. ASSUME NEW w \in Workers, DecideStore(w) PROVE Goal
  <2> DEFINE t == txn[w]  d == want[w]  r == Decided(row[t], d)
  <2>1. /\ t \in Txns /\ d \in Wants /\ row[t] \in Rows /\ r \in Rows
        /\ r.state = d.state /\ Terminal(r) /\ row[t].state # "none" /\ UNCHANGED held
    <3>1. t \in Txns /\ d \in Wants /\ row[t] \in Rows
      OBVIOUS
    <3>2. row[t].state # "none" /\ UNCHANGED held
      BY <1>7 DEF DecideStore, WorkerInv, WorkerOK
    <3> QED
      BY <3>1, <3>2, DecidedRow, Zenon
  <2>2. CASE ~Terminal(row[t]) /\ MayDecide(t, d) /\ row' = [row EXCEPT ![t] = r]
    <3> HIDE DEF r
    <3>1. row[t].state \in {"preparing", "prepared"}
      BY <2>1, <2>2, Zenon DEF Rows
    <3>2. r.state = "committed" => row[t].prepared = Participants
      BY <2>1, <2>2, Zenon DEF MayDecide
    <3> QED
      BY <2>1, <2>2, <3>1, <3>2, DecisionMapped, ZenonT(30) DEF Goal
  <2> QED
    BY <1>1, <1>7, <2>1, <2>2, Zenon DEF DecideStore
<1>8. ASSUME NEW w \in Workers, RecoverRow(w) PROVE Goal
  <2> DEFINE t == txn[w]  r == Expired(row[t])
  <2>1. /\ t \in Txns /\ row[t] \in Rows /\ r \in Rows
        /\ r.state = "aborted" /\ row[t].state # "none" /\ UNCHANGED held
    BY <1>8, ExpiredRow DEF RecoverRow, WorkerInv, WorkerOK
  <2>2. CASE ~Terminal(row[t]) /\ row' = [row EXCEPT ![t] = r]
    <3> HIDE DEF r
    <3>1. row[t].state \in {"preparing", "prepared"}
      BY <2>1, <2>2 DEF Rows
    <3> QED
      BY <2>1, <2>2, <3>1, DecisionMapped, ZenonT(30) DEF Goal
  <2> QED
    BY <1>1, <1>8, <2>1, <2>2, Zenon DEF RecoverRow
<1>9. ASSUME NEW w \in Workers, RecordFinished(w) PROVE Goal
  <2> DEFINE t == txn[w]  r == [row[t] EXCEPT !.finished = @ \cup {target[w]}]
  <2>1. t \in Txns /\ row[t] \in Rows /\ r \in Rows /\ r.state = row[t].state /\ UNCHANGED held
    BY <1>9, FinishedRow, ZenonT(30) DEF RecordFinished, WorkerInv, WorkerOK
  <2>2. row' = [row EXCEPT ![t] = r]
    BY <1>9 DEF RecordFinished
  <2>3. Decision' = Decision
    <3> HIDE DEF r
    <3> QED
      BY <2>1, <2>2, RowUpdate, SameDecision DEF Abstracted
  <2> QED
    BY <2>1, <2>3 DEF Goal
<1> QED
  BY <1>1, <1>2, <1>3, <1>4, <1>5, <1>6, <1>7, <1>8, <1>9, ZenonT(30)
     DEF Next, WorkerStep, vars, ledger, Tick, PrepareExisting, FinishRead, ListInDoubt, DecideRead,
         CallPrepare, CallFinish, PrepareDone, FinishDone, Fail

\* The ledger, its stale and crashing workers and their unreliable calls
\* implement atomic commit.
THEOREM Refinement == Spec => ImplementsAtomicCommit
<1>1. Init => AC!Init
  BY DEF Init, AC!Init, Decision, NoRow
<1> QED
  BY <1>1, StepMapped, Inductive, PTL DEF Spec, ImplementsAtomicCommit, AC!Spec, AC!vars

=============================================================================
