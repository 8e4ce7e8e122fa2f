--------------------------- MODULE CardTransaction ---------------------------
(***************************************************************************)
(* The Connection Hub as a transaction participant: staging a candidate    *)
(* revision of one Card and materializing the coordinator's decision, as   *)
(* cards/transaction_store.py does it with files.                          *)
(*                                                                         *)
(* Every durable write (an atomic rename, or an unlink) is one step.  STAGE *)
(* and FINISH run inside the Card's mutation section, so what interleaves  *)
(* with them is: the coordinator's decision, a crash or cancellation after *)
(* any step, readers that take no section, work on other Cards, and the    *)
(* expiry of the serving cache's `updating` marker.                        *)
(*                                                                         *)
(* A revision's content is abstracted to its number and to the set of      *)
(* transactions whose change it contains.                                  *)
(***************************************************************************)
EXTENDS Naturals, FiniteSets

CONSTANTS Cards, Txns,
          NoTxn,          \* no transaction
          Target,         \* Target[t]: the Card that t changes
          Reads,          \* Reads[t]: the Cards t depends on and reserves
          Effects,        \* Effects[t]: the non-Card effects t carries
          MaxRev          \* bound on revision numbers

ASSUME TxnAssumption == NoTxn \notin Txns
ASSUME ScopeAssumption == /\ Target \in [Txns -> Cards]
                          /\ \A t \in Txns : Reads[t] \subseteq Cards \ {Target[t]}
ASSUME RevAssumption == MaxRev \in Nat

VARIABLES
    decision,  \* decision[t]: what the coordinator has recorded
    acked,     \* transactions whose prepare was acknowledged
    finished,  \* transactions whose finish was acknowledged
    plan,      \* plan[t]: the revisions t was computed from, or none yet
    rcpt,      \* rcpt[t]: state of t's receipt file
    ptr,       \* ptr[c]: current pointer document: a plain one, or t's BEFORE/AFTER
    marker,    \* marker[c]: card-transaction.json
    fence,     \* fence[c]: card-read-fence.json
    active,    \* in-flight index entries
    tomb,      \* abort tombstones
    revs,      \* transactions whose AFTER revision file exists
    revmarks,  \* transactions whose AFTER revision still carries its marker
    world,     \* world[t]: effects the outside world has seen
    applied,   \* applied[t]: effects recorded as applied
    mark,      \* mark[c]: owner of the serving cache's updating marker
    section,   \* section[c]: who is inside the Card's mutation section
    st, todo,  \* st[t]: next step of a STAGE of t; todo[t]: dependencies to fence
    fin,       \* fin[t]: next step of a FINISH of t
    wr,        \* wr[c]: next step of an ordinary commit of c
    overrun    \* (history) Cards a replay went on with while another transaction held them

files == <<rcpt, ptr, marker, fence, active, tomb, revs, revmarks, world, applied>>
ledger == <<decision, acked, finished>>
procs == <<st, todo, fin, wr>>
vars == <<decision, acked, finished, plan, rcpt, ptr, marker, fence, active, tomb, revs,
          revmarks, world, applied, mark, section, st, todo, fin, wr, overrun>>

DECISIONS == {"committed", "aborted"}
Free == [kind |-> "free"]
StageOf(t) == [kind |-> "stage", t |-> t]
FinishOf(t) == [kind |-> "finish", t |-> t]
WriteOf(c) == [kind |-> "write", c |-> c]
Writer == "writer"

First == [n |-> 1, in |-> {}]
Planned(t) == plan[t] # {}
Before(t) == (CHOOSE r \in plan[t] : TRUE).before
Expected(t, d) == (CHOOSE r \in plan[t] : TRUE).reads[d]
After(t) == [n |-> Before(t).n + 1, in |-> Before(t).in \cup {t}]
Plain(r) == [tx |-> NoTxn, rev |-> r]
Staged(t) == [tx |-> t, rev |-> Before(t)]

\* The Cards whose sections a STAGE of t takes, in one sorted order.
Sections(t) == {Target[t]} \cup Reads[t]
----------------------------------------------------------------------------
\* pending_effects
Pending(t) == Effects[t] \ applied[t]

\* What the decision port may answer: the recorded decision, or nothing when
\* the coordinator cannot be reached.
PortAnswers(t) == {decision[t], "undecided"}

\* _authoritative_state with a port that answers `a`.
Authoritative(t, a) == IF rcpt[t] \in DECISIONS THEN rcpt[t] ELSE a

\* _effects_outstanding
EffectsOutstanding(t) == Effects[t] # {} /\ (rcpt[t] # "committed" \/ Pending(t) # {})

\* resolve_pointer with consult_decision=False
ResolveLocal(c) ==
    IF ptr[c].tx = NoTxn THEN ptr[c].rev
    ELSE IF rcpt[ptr[c].tx] = "committed" /\ ~EffectsOutstanding(ptr[c].tx)
         THEN After(ptr[c].tx) ELSE Before(ptr[c].tx)

\* resolve_pointer for a reader: the set holds the revision, or nothing when it refuses.
ResolveServing(p, a) ==
    IF p.tx = NoTxn THEN {p.rev}
    ELSE CASE Authoritative(p.tx, a) = "committed" /\ ~EffectsOutstanding(p.tx) -> {After(p.tx)}
           [] Authoritative(p.tx, a) = "aborted" -> {Before(p.tx)}
           [] OTHER -> {}

\* read_current_authority: at most one revision, none when the read is refused.
Serving(c) == UNION {ResolveServing(ptr[c], a) :
                       a \in IF ptr[c].tx = NoTxn THEN {"undecided"} ELSE PortAnswers(ptr[c].tx)}

\* _prepared_marker and _live_read_fence: a file of a decided transaction fences nothing.
LiveMarker(c) == marker[c] # NoTxn /\ rcpt[marker[c]] = "prepared"
LiveFence(c) == fence[c] # NoTxn /\ rcpt[fence[c]] = "prepared"

\* Mutants: the pointer is not looked at; nothing but a read fence is.
ReplaceableNoPointer(c) == ~LiveMarker(c) /\ ~LiveFence(c)
ReplaceableReadsOnly(c) == ~LiveFence(c)

\* assert_replaceable
Replaceable(c) ==
    /\ ~LiveMarker(c)
    /\ ~LiveFence(c)
    /\ ptr[c].tx # NoTxn => /\ rcpt[ptr[c].tx] # "prepared"
                            /\ rcpt[ptr[c].tx] = "committed" => ~EffectsOutstanding(ptr[c].tx)

\* _is_staged
IsStaged(t) == ptr[Target[t]] = Staged(t)

\* claim_transition: the updating marker of another mutation is never displaced.
MayMark(c, who) == mark[c] \in {NoTxn, who}
----------------------------------------------------------------------------
Init == /\ decision = [t \in Txns |-> "undecided"]
        /\ acked = {} /\ finished = {}
        /\ plan = [t \in Txns |-> {}]
        /\ rcpt = [t \in Txns |-> "none"]
        /\ ptr = [c \in Cards |-> Plain(First)]
        /\ marker = [c \in Cards |-> NoTxn]
        /\ fence = [c \in Cards |-> NoTxn]
        /\ active = {} /\ tomb = {} /\ revs = {} /\ revmarks = {}
        /\ world = [t \in Txns |-> {}]
        /\ applied = [t \in Txns |-> {}]
        /\ mark = [c \in Cards |-> NoTxn]
        /\ section = [c \in Cards |-> Free]
        /\ st = [t \in Txns |-> "idle"]
        /\ todo = [t \in Txns |-> {}]
        /\ fin = [t \in Txns |-> "idle"]
        /\ wr = [c \in Cards |-> "idle"]
        /\ overrun = {}

Enter(cs, who) == /\ \A c \in cs : section[c] = Free
                  /\ section' = [c \in Cards |-> IF c \in cs THEN who ELSE section[c]]
Exit(who) == section' = [c \in Cards |-> IF section[c] = who THEN Free ELSE section[c]]

\* The writer loads the current Card and its dependencies and fixes the intent.
Plan(t) ==
    /\ ~Planned(t)
    /\ \E before \in Serving(Target[t]), reads \in [Reads[t] -> 1..MaxRev] :
        /\ before.n < MaxRev
        /\ \A d \in Reads[t] : \E r \in Serving(d) : r.n = reads[d]
        /\ plan' = [plan EXCEPT ![t] = {[before |-> before, reads |-> reads]}]
    /\ UNCHANGED <<ledger, files, mark, section, procs, overrun>>

\* The coordinator: a commit needs the acknowledged prepare, an abort nothing.
Decide(t) ==
    /\ Planned(t) /\ decision[t] = "undecided"
    /\ \/ t \in acked /\ decision' = [decision EXCEPT ![t] = "committed"]
       \/ decision' = [decision EXCEPT ![t] = "aborted"]
    /\ UNCHANGED <<acked, finished, plan, files, mark, section, procs, overrun>>

\* The updating marker has a lifetime of its own.
MarkExpires(c) == /\ mark[c] # NoTxn
                  /\ mark' = [mark EXCEPT ![c] = NoTxn]
                  /\ UNCHANGED <<ledger, plan, files, section, procs, overrun>>
----------------------------------------------------------------------------
Goto(t, s) == st' = [st EXCEPT ![t] = s]

\* Mutants: the tombstone is not read; the Card is not compared with the original.
StageFreshIgnoresTombstone(t) ==
    LET c == Target[t] IN
    /\ st[t] = "idle" /\ Planned(t)
    /\ Enter(Sections(t), StageOf(t))
    /\ rcpt[t] = "none"
    /\ Replaceable(c)
    /\ MayMark(c, t) /\ mark' = [mark EXCEPT ![c] = t]
    /\ ResolveLocal(c) = Before(t)
    /\ Goto(t, "active")
    /\ todo' = [todo EXCEPT ![t] = Reads[t]]
    /\ UNCHANGED <<ledger, plan, files, fin, wr, overrun>>

StageFreshAnyBase(t) ==
    LET c == Target[t] IN
    /\ st[t] = "idle" /\ Planned(t)
    /\ Enter(Sections(t), StageOf(t))
    /\ rcpt[t] = "none" /\ t \notin tomb
    /\ Replaceable(c)
    /\ MayMark(c, t) /\ mark' = [mark EXCEPT ![c] = t]
    /\ Goto(t, "active")
    /\ todo' = [todo EXCEPT ![t] = Reads[t]]
    /\ UNCHANGED <<ledger, plan, files, fin, wr, overrun>>

\* A fresh stage: no tombstone, no decision the port tells of, the full fence,
\* the Card still the original.  The serving cache is marked before any write.
StageFresh(t) ==
    LET c == Target[t] IN
    /\ st[t] = "idle" /\ Planned(t)
    /\ Enter(Sections(t), StageOf(t))
    /\ rcpt[t] = "none" /\ t \notin tomb
    /\ \E a \in PortAnswers(t) : a = "undecided"
    /\ Replaceable(c)
    /\ MayMark(c, t) /\ mark' = [mark EXCEPT ![c] = t]
    /\ ResolveLocal(c) = Before(t)
    /\ Goto(t, "active")
    /\ todo' = [todo EXCEPT ![t] = Reads[t]]
    /\ UNCHANGED <<ledger, plan, files, fin, wr, overrun>>

\* Mutant: the Card is not compared with BEFORE again.
StageResumeAnyBase(t) ==
    LET c == Target[t] IN
    /\ st[t] = "idle"
    /\ Enter(Sections(t), StageOf(t))
    /\ rcpt[t] = "prepared"
    /\ \E a \in PortAnswers(t) : a # "aborted"
    /\ MayMark(c, t) /\ mark' = [mark EXCEPT ![c] = t]
    /\ ~IsStaged(t)
    /\ Goto(t, "refence")
    /\ todo' = [todo EXCEPT ![t] = Reads[t]]
    /\ overrun' = IF marker[c] # t /\ ~Replaceable(c) THEN overrun \cup {c} ELSE overrun
    /\ UNCHANGED <<ledger, plan, files, fin, wr>>

\* A replay of a prepared, unstaged transaction resumes while the pointer still
\* resolves to BEFORE.  It does not ask assert_replaceable: a transaction whose
\* marker is missing (a crash between receipt and marker) goes on although
\* another transaction has taken the Card since, which `overrun` notes.
StageResume(t) ==
    LET c == Target[t] IN
    /\ st[t] = "idle"
    /\ Enter(Sections(t), StageOf(t))
    /\ rcpt[t] = "prepared"
    /\ \E a \in PortAnswers(t) : a # "aborted"
    /\ MayMark(c, t) /\ mark' = [mark EXCEPT ![c] = t]
    /\ ~IsStaged(t)
    /\ ResolveLocal(c) = Before(t)
    /\ Goto(t, "refence")
    /\ todo' = [todo EXCEPT ![t] = Reads[t]]
    /\ overrun' = IF marker[c] # t /\ ~Replaceable(c) THEN overrun \cup {c} ELSE overrun
    /\ UNCHANGED <<ledger, plan, files, fin, wr>>

\* A replay of a staged transaction only answers again.
StageReplay(t) ==
    /\ st[t] = "idle"
    /\ \A c \in Sections(t) : section[c] = Free
    /\ rcpt[t] = "prepared" /\ IsStaged(t)
    /\ \E a \in PortAnswers(t) : a # "aborted"
    /\ MayMark(Target[t], t) /\ mark' = [mark EXCEPT ![Target[t]] = t]
    /\ acked' = acked \cup {t}
    /\ UNCHANGED <<decision, finished, plan, files, section, procs, overrun>>

\* A replay refused because the Card moved or the abort is known: the marker it
\* claimed first stays.
StageRefused(t) ==
    /\ st[t] = "idle"
    /\ \A c \in Sections(t) : section[c] = Free
    /\ rcpt[t] = "prepared"
    /\ MayMark(Target[t], t) /\ mark' = [mark EXCEPT ![Target[t]] = t]
    /\ \/ decision[t] = "aborted"
       \/ ~IsStaged(t) /\ ResolveLocal(Target[t]) # Before(t)
    /\ UNCHANGED <<ledger, plan, files, section, procs, overrun>>

\* Mutant: the index entry is left out.
WriteActiveSkipped(t) == /\ st[t] = "active"
                         /\ Goto(t, "fence")
                         /\ UNCHANGED <<ledger, plan, files, mark, section, todo, fin, wr, overrun>>

\* Step 0: the in-flight index entry.
WriteActive(t) ==
    /\ st[t] = "active"
    /\ active' = active \cup {t}
    /\ Goto(t, "fence")
    /\ UNCHANGED <<ledger, plan, rcpt, ptr, marker, fence, tomb, revs, revmarks, world, applied,
                   mark, section, todo, fin, wr, overrun>>

\* Mutant: the dependency's revision is not compared.
ReservableAtAnyRevision(t, d) == (LiveFence(d) => fence[d] = t) /\ (~LiveFence(d) => Replaceable(d))

\* _reserve_reads on one dependency.
Reservable(t, d) == /\ LiveFence(d) => fence[d] = t
                    /\ ~LiveFence(d) => Replaceable(d)
                    /\ \E r \in Serving(d) : r.n = Expected(t, d)

ReserveRead(t, d) ==
    /\ st[t] \in {"fence", "refence"}
    /\ d \in todo[t]
    /\ Reservable(t, d)
    /\ fence' = [fence EXCEPT ![d] = t]
    /\ todo' = [todo EXCEPT ![t] = @ \ {d}]
    /\ UNCHANGED <<ledger, plan, rcpt, ptr, marker, active, tomb, revs, revmarks, world, applied,
                   mark, section, st, fin, wr, overrun>>

\* A dependency that moved or is reserved refuses the stage; without a receipt
\* the updating marker is released.
ReserveRefused(t, d) ==
    /\ st[t] \in {"fence", "refence"}
    /\ d \in todo[t] /\ ~Reservable(t, d)
    /\ mark' = IF rcpt[t] = "none" /\ mark[Target[t]] = t THEN [mark EXCEPT ![Target[t]] = NoTxn] ELSE mark
    /\ Goto(t, "idle") /\ Exit(StageOf(t))
    /\ todo' = [todo EXCEPT ![t] = {}]
    /\ UNCHANGED <<ledger, plan, files, fin, wr, overrun>>

\* Step 1: the prepared receipt, once every dependency is fenced.
WriteReceipt(t) ==
    /\ st[t] = "fence" /\ todo[t] = {}
    /\ rcpt' = [rcpt EXCEPT ![t] = "prepared"]
    /\ Goto(t, "marker")
    /\ UNCHANGED <<ledger, plan, ptr, marker, fence, active, tomb, revs, revmarks, world, applied,
                   mark, section, todo, fin, wr, overrun>>

\* Step 2: the per-Card marker.  A resumed stage does not write it again.
WriteMarker(t) ==
    /\ \/ st[t] = "marker" /\ marker' = [marker EXCEPT ![Target[t]] = t]
       \/ st[t] = "refence" /\ todo[t] = {} /\ UNCHANGED marker
    /\ Goto(t, "revmark")
    /\ UNCHANGED <<ledger, plan, rcpt, ptr, fence, active, tomb, revs, revmarks, world, applied,
                   mark, section, todo, fin, wr, overrun>>

\* Mutant: the revision is written before its marker.
WriteRevisionFirst(t) ==
    /\ st[t] = "revmark"
    /\ revs' = revs \cup {t}
    /\ Goto(t, "revision")
    /\ UNCHANGED <<ledger, plan, rcpt, ptr, marker, fence, active, tomb, revmarks, world, applied,
                   mark, section, todo, fin, wr, overrun>>

\* Step 3: the revision's own marker, then the revision.
WriteRevMark(t) ==
    /\ st[t] = "revmark"
    /\ revmarks' = revmarks \cup {t}
    /\ Goto(t, "revision")
    /\ UNCHANGED <<ledger, plan, rcpt, ptr, marker, fence, active, tomb, revs, world, applied,
                   mark, section, todo, fin, wr, overrun>>

WriteRevision(t) ==
    /\ st[t] = "revision"
    /\ revs' = revs \cup {t}
    /\ Goto(t, "pointer")
    /\ UNCHANGED <<ledger, plan, rcpt, ptr, marker, fence, active, tomb, revmarks, world, applied,
                   mark, section, todo, fin, wr, overrun>>

\* Step 4: the transaction pointer, and the answer to the coordinator.
WritePointer(t) ==
    /\ st[t] = "pointer"
    /\ ptr' = [ptr EXCEPT ![Target[t]] = Staged(t)]
    /\ Goto(t, "answer")
    /\ UNCHANGED <<ledger, plan, rcpt, marker, fence, active, tomb, revs, revmarks, world, applied,
                   mark, section, todo, fin, wr, overrun>>

StageAnswer(t) ==
    /\ st[t] = "answer"
    /\ acked' = acked \cup {t}
    /\ Goto(t, "idle") /\ Exit(StageOf(t))
    /\ UNCHANGED <<decision, finished, plan, files, mark, todo, fin, wr, overrun>>

\* A crash or cancellation between two durable writes of a stage.
StageCrash(t) ==
    /\ st[t] # "idle"
    /\ Goto(t, "idle") /\ Exit(StageOf(t))
    /\ todo' = [todo EXCEPT ![t] = {}]
    /\ UNCHANGED <<ledger, plan, files, mark, fin, wr, overrun>>
----------------------------------------------------------------------------
FinGoto(t, s) == fin' = [fin EXCEPT ![t] = s]

\* Mutant: a decided receipt is taken for a finished transaction.
FinishEnterOnce(t) ==
    LET c == Target[t] IN
    /\ fin[t] = "idle" /\ decision[t] \in DECISIONS
    /\ Enter({c}, FinishOf(t))
    /\ \/ /\ rcpt[t] = "none" /\ decision[t] = "aborted"
          /\ FinGoto(t, "tombstone")
          /\ UNCHANGED mark
       \/ /\ rcpt[t] = "prepared"
          /\ MayMark(c, t) /\ mark' = [mark EXCEPT ![c] = t]
          /\ FinGoto(t, "receipt")
    /\ UNCHANGED <<ledger, plan, files, st, todo, wr, overrun>>

\* FINISH of a decided transaction enters the Card's section.  Nothing staged
\* and aborted: a tombstone.  Prepared: a commit needs the pointer in place and
\* the updating marker.  Decided already: only the remaining cleanup.
FinishEnter(t) ==
    LET c == Target[t] IN
    /\ fin[t] = "idle" /\ decision[t] \in DECISIONS
    /\ Enter({c}, FinishOf(t))
    /\ \/ /\ rcpt[t] = "none" /\ decision[t] = "aborted"
          /\ FinGoto(t, "tombstone")
          /\ UNCHANGED mark
       \/ /\ rcpt[t] = "prepared" /\ decision[t] = "committed" /\ IsStaged(t)
          /\ MayMark(c, t) /\ mark' = [mark EXCEPT ![c] = t]
          /\ FinGoto(t, "receipt")
       \/ /\ rcpt[t] = "prepared" /\ decision[t] = "aborted"
          /\ FinGoto(t, "receipt")
          /\ UNCHANGED mark
       \/ /\ rcpt[t] \in DECISIONS
          /\ FinGoto(t, IF rcpt[t] = "committed" /\ Pending(t) # {} THEN "effects" ELSE "retire")
          /\ UNCHANGED mark
    /\ UNCHANGED <<ledger, plan, files, st, todo, wr, overrun>>

\* abort_unstaged: the tombstone, then the index entry.
WriteTombstone(t) ==
    /\ fin[t] = "tombstone"
    /\ tomb' = tomb \cup {t}
    /\ FinGoto(t, "inactive")
    /\ UNCHANGED <<ledger, plan, rcpt, ptr, marker, fence, active, revs, revmarks, world, applied,
                   mark, section, st, todo, wr, overrun>>

\* The one visibility point: the decided receipt.
WriteDecided(t) ==
    /\ fin[t] = "receipt"
    /\ rcpt' = [rcpt EXCEPT ![t] = decision[t]]
    /\ FinGoto(t, IF decision[t] = "committed" /\ Effects[t] # {} THEN "effects" ELSE "retire")
    /\ UNCHANGED <<ledger, plan, ptr, marker, fence, active, tomb, revs, revmarks, world, applied,
                   mark, section, st, todo, wr, overrun>>

\* apply_effects: the applier acts on the outside world, then its record is
\* written; a crash between the two applies it again.
ApplyEffect(t, e) ==
    /\ fin[t] = "effects" /\ e \in Pending(t) /\ e \notin world[t]
    /\ world' = [world EXCEPT ![t] = @ \cup {e}]
    /\ UNCHANGED <<ledger, plan, rcpt, ptr, marker, fence, active, tomb, revs, revmarks, applied,
                   mark, section, procs, overrun>>

RecordEffect(t, e) ==
    /\ fin[t] = "effects" /\ e \in Pending(t) /\ e \in world[t]
    /\ applied' = [applied EXCEPT ![t] = @ \cup {e}]
    /\ FinGoto(t, IF Pending(t) = {e} THEN "retire" ELSE "effects")
    /\ UNCHANGED <<ledger, plan, rcpt, ptr, marker, fence, active, tomb, revs, revmarks, world,
                   mark, section, st, todo, wr, overrun>>

\* _retire_pointer: the plain pointer of the decided side, if the pointer is
\* still this transaction's, then the revision marker of a committed AFTER.
RetirePointer(t) ==
    LET c == Target[t] IN
    /\ fin[t] = "retire"
    /\ ptr' = IF ptr[c].tx = t
                THEN [ptr EXCEPT ![c] = Plain(IF rcpt[t] = "committed" THEN After(t) ELSE Before(t))]
                ELSE ptr
    /\ FinGoto(t, "unmark")
    /\ UNCHANGED <<ledger, plan, rcpt, marker, fence, active, tomb, revs, revmarks, world, applied,
                   mark, section, st, todo, wr, overrun>>

DropRevMark(t) ==
    /\ fin[t] = "unmark"
    /\ revmarks' = IF rcpt[t] = "committed" THEN revmarks \ {t} ELSE revmarks
    /\ FinGoto(t, "clear")
    /\ UNCHANGED <<ledger, plan, rcpt, ptr, marker, fence, active, tomb, revs, world, applied,
                   mark, section, st, todo, wr, overrun>>

\* _clear_marker: this transaction's marker, its read fences, its index entry.
ClearMarker(t) ==
    LET c == Target[t] IN
    /\ fin[t] = "clear"
    /\ marker' = IF marker[c] = t THEN [marker EXCEPT ![c] = NoTxn] ELSE marker
    /\ FinGoto(t, "release")
    /\ UNCHANGED <<ledger, plan, rcpt, ptr, fence, active, tomb, revs, revmarks, world, applied,
                   mark, section, st, todo, wr, overrun>>

ReleaseReads(t) ==
    /\ fin[t] = "release"
    /\ fence' = [d \in Cards |-> IF d \in Reads[t] /\ fence[d] = t THEN NoTxn ELSE fence[d]]
    /\ FinGoto(t, "inactive")
    /\ UNCHANGED <<ledger, plan, rcpt, ptr, marker, active, tomb, revs, revmarks, world, applied,
                   mark, section, st, todo, wr, overrun>>

DropActive(t) ==
    /\ fin[t] = "inactive"
    /\ active' = active \ {t}
    /\ FinGoto(t, "answer")
    /\ UNCHANGED <<ledger, plan, rcpt, ptr, marker, fence, tomb, revs, revmarks, world, applied,
                   mark, section, st, todo, wr, overrun>>

\* The projection is installed (or the marker released) and FINISH answers.
FinishAnswer(t) ==
    LET c == Target[t] IN
    /\ fin[t] = "answer"
    /\ mark' = IF mark[c] = t THEN [mark EXCEPT ![c] = NoTxn] ELSE mark
    /\ finished' = finished \cup {t}
    /\ FinGoto(t, "idle") /\ Exit(FinishOf(t))
    /\ UNCHANGED <<decision, acked, plan, files, st, todo, wr, overrun>>

\* A crash or cancellation anywhere in FINISH.
FinishCrash(t) ==
    /\ fin[t] # "idle"
    /\ FinGoto(t, "idle") /\ Exit(FinishOf(t))
    /\ UNCHANGED <<ledger, plan, files, mark, st, todo, wr, overrun>>
----------------------------------------------------------------------------
\* An ordinary commit of a Card: the shared fence, the updating marker ...
CommitEnter(c) ==
    /\ wr[c] = "idle"
    /\ Enter({c}, WriteOf(c))
    /\ Replaceable(c)
    /\ ResolveLocal(c).n < MaxRev
    /\ mark[c] = NoTxn /\ mark' = [mark EXCEPT ![c] = Writer]
    /\ wr' = [wr EXCEPT ![c] = "durable"]
    /\ UNCHANGED <<ledger, plan, files, st, todo, fin, overrun>>

\* ... the next revision made current, the marker finalized.
CommitDurable(c) ==
    /\ wr[c] = "durable"
    /\ ptr' = [ptr EXCEPT ![c] = Plain([ResolveLocal(c) EXCEPT !.n = @ + 1])]
    /\ mark' = IF mark[c] = Writer THEN [mark EXCEPT ![c] = NoTxn] ELSE mark
    /\ wr' = [wr EXCEPT ![c] = "idle"]
    /\ Exit(WriteOf(c))
    /\ UNCHANGED <<ledger, plan, rcpt, marker, fence, active, tomb, revs, revmarks, world, applied,
                   st, todo, fin, overrun>>

CommitCrash(c) ==
    /\ wr[c] = "durable"
    /\ wr' = [wr EXCEPT ![c] = "idle"]
    /\ Exit(WriteOf(c))
    /\ UNCHANGED <<ledger, plan, files, mark, st, todo, fin, overrun>>
----------------------------------------------------------------------------
StageStep(t) == \/ WriteActive(t) \/ WriteReceipt(t) \/ WriteMarker(t) \/ WriteRevMark(t)
                \/ WriteRevision(t) \/ WritePointer(t) \/ StageAnswer(t)
                \/ \E d \in Cards : ReserveRead(t, d) \/ ReserveRefused(t, d)
FinishStep(t) == \/ WriteTombstone(t) \/ WriteDecided(t) \/ RetirePointer(t) \/ DropRevMark(t)
                 \/ ClearMarker(t) \/ ReleaseReads(t) \/ DropActive(t) \/ FinishAnswer(t)
                 \/ \E e \in Effects[t] : ApplyEffect(t, e) \/ RecordEffect(t, e)

Next == \/ \E t \in Txns : \/ Plan(t) \/ Decide(t)
                           \/ StageFresh(t) \/ StageResume(t) \/ StageReplay(t) \/ StageRefused(t)
                           \/ StageStep(t) \/ StageCrash(t)
                           \/ FinishEnter(t) \/ FinishStep(t) \/ FinishCrash(t)
        \/ \E c \in Cards : MarkExpires(c) \/ CommitEnter(c) \/ CommitDurable(c) \/ CommitCrash(c)

Spec == Init /\ [][Next]_vars

\* FINISH is retried until it answers, a section's holder goes on, an updating
\* marker expires, and a crash does not hit the same step of FINISH forever.
FinishFairness(t) ==
    /\ SF_vars(FinishEnter(t)) /\ SF_vars(WriteTombstone(t)) /\ SF_vars(WriteDecided(t))
    /\ \A e \in Effects[t] : SF_vars(ApplyEffect(t, e)) /\ SF_vars(RecordEffect(t, e))
    /\ SF_vars(RetirePointer(t)) /\ SF_vars(DropRevMark(t)) /\ SF_vars(ClearMarker(t))
    /\ SF_vars(ReleaseReads(t)) /\ SF_vars(DropActive(t)) /\ SF_vars(FinishAnswer(t))
FairSpec == /\ Spec
            /\ \A t \in Txns : FinishFairness(t) /\ WF_vars(StageStep(t))
            /\ \A c \in Cards : WF_vars(CommitDurable(c) \/ CommitCrash(c)) /\ WF_vars(MarkExpires(c))
----------------------------------------------------------------------------
Revision == [n : 1..MaxRev, in : SUBSET Txns]
StageSteps == {"idle", "active", "fence", "refence", "marker", "revmark", "revision", "pointer", "answer"}
FinishSteps == {"idle", "tombstone", "receipt", "effects", "retire", "unmark", "clear", "release",
                "inactive", "answer"}

TypeOK == /\ decision \in [Txns -> {"undecided"} \cup DECISIONS]
          /\ acked \subseteq Txns /\ finished \subseteq Txns
          /\ \A t \in Txns : \A r \in plan[t] : r.before \in Revision
          /\ rcpt \in [Txns -> {"none", "prepared"} \cup DECISIONS]
          /\ ptr \in [Cards -> [tx : Txns \cup {NoTxn}, rev : Revision]]
          /\ marker \in [Cards -> Txns \cup {NoTxn}]
          /\ fence \in [Cards -> Txns \cup {NoTxn}]
          /\ active \subseteq Txns /\ tomb \subseteq Txns /\ revs \subseteq Txns /\ revmarks \subseteq Txns
          /\ \A t \in Txns : applied[t] \subseteq world[t] /\ world[t] \subseteq Effects[t]
          /\ mark \in [Cards -> Txns \cup {NoTxn, Writer}]
          /\ st \in [Txns -> StageSteps]
          /\ todo \in [Txns -> SUBSET Cards]
          /\ fin \in [Txns -> FinishSteps]
          /\ wr \in [Cards -> {"idle", "durable"}]
          /\ overrun \subseteq Cards

\* The revision a Card really has: a staged AFTER counts from the moment the
\* coordinator has recorded the commit.
Logical(c) == IF ptr[c].tx = NoTxn THEN ptr[c].rev
              ELSE IF decision[ptr[c].tx] = "committed" THEN After(ptr[c].tx) ELSE Before(ptr[c].tx)

\* A committed change is never lost: from the recorded commit on, the Card's
\* revision contains it, through crashes, replays and later writers, unless a
\* replay went on with the Card while another transaction held it.
CommitIsKept == \A t \in Txns :
    decision[t] = "committed" /\ Target[t] \notin overrun => t \in Logical(Target[t]).in

\* A recorded commit can always be materialized: on such a Card FINISH never
\* meets card_transaction_not_staged, the pointer of a prepared committed
\* transaction is in place.
CommitCanFinish == \A t \in Txns :
    decision[t] = "committed" /\ rcpt[t] = "prepared" /\ Target[t] \notin overrun => IsStaged(t)

\* A stage, resumed or fresh, publishes its pointer only while the Card is still
\* exactly its BEFORE, unless it was resumed while another transaction held the Card.
StageOnlyOverBefore ==
    [][\A t \in Txns : (Planned(t) /\ ~IsStaged(t) /\ IsStaged(t)' /\ Target[t] \notin overrun) =>
          Logical(Target[t]) = Before(t)]_vars

\* What the comment of stage says of a replay, with no condition: a prepared
\* transaction resumes only while the Card is still exactly its BEFORE.
ResumeOnlyOverBefore ==
    [][\A t \in Txns : (st[t] = "idle" /\ st'[t] = "refence") => Logical(Target[t]) = Before(t)]_vars

\* A commit is recorded only while the Card is the planned original and every
\* reserved dependency is at its expected revision (W502): no write has landed
\* on either between the plan and the decision, unless a replay went on with one
\* of these Cards while it was held or reserved.
CommitOnPlannedState ==
    [][\A t \in Txns :
          (decision[t] # "committed" /\ decision'[t] = "committed" /\ Sections(t) \cap overrun = {}) =>
          /\ Logical(Target[t]) = Before(t)
          /\ \A d \in Reads[t] : Logical(d).n = Expected(t, d)]_vars

\* revision_is_committed: a revision read by name is hidden while its marker
\* stands and its transaction is not committed with all effects.
HistoryShows(t, a) ==
    t \in revs /\ (t \in revmarks => Authoritative(t, a) = "committed" /\ ~EffectsOutstanding(t))

\* A staged revision never appears in history before its commit, nor ever after
\* an abort, whichever write a crash interrupted.
HistoryCommitted == \A t \in Txns : \A a \in PortAnswers(t) :
    HistoryShows(t, a) => decision[t] = "committed" /\ world[t] = Effects[t]

\* Once FINISH has answered, the transaction holds no fence again: a late or
\* replayed stage never re-opens it.
FinishedHoldsNothing == \A t \in finished :
    rcpt[t] # "prepared" /\ st[t] \notin {"marker", "revmark", "revision", "pointer", "answer"}

\* Every fence is found again by recovery: a prepared receipt has its index
\* entry, whatever crashed, so list_in_doubt reports it.
FenceIsIndexed == \A t \in Txns : rcpt[t] = "prepared" => t \in active

\* Every decided transaction is finished, and its dependencies come free again:
\* no crash in FINISH leaves a Card fenced for good.
DecidedIsFinished == \A t \in Txns :
    decision[t] \in DECISIONS ~> /\ t \in finished /\ t \notin active
                                 /\ \A c \in Cards : marker[c] # t /\ ~(LiveFence(c) /\ fence[c] = t)
=============================================================================
