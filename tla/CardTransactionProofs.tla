------------------------ MODULE CardTransactionProofs ------------------------
(***************************************************************************)
(* What the Hub promises as a participant with single Cards, and what a    *)
(* reader without a section returns, for any Cards, transactions, effects  *)
(* and bounds.                                                             *)
(*                                                                         *)
(* The argument has four layers.  Sections: STAGE, FINISH and ordinary     *)
(* commits of one Card exclude one another, so the step a call is at says  *)
(* what the receipt is (TxnInv).  Content: pointers and plans name only    *)
(* revisions whose transactions are committed with all effects             *)
(* (ContentInv).  Exclusion: at most one transaction holds a Card that no  *)
(* replay overran, so the pointer a stage replaces is settled and resolves *)
(* to its BEFORE (CardInv), hence the Card's revision only grows.          *)
(* Reservation: such a Card, read by a prepared transaction, does not move *)
(* (ReserveInv).                                                           *)
(***************************************************************************)
EXTENDS CardRead, TLAPS

Rev == [n : Nat, in : SUBSET Txns]
Pointers == [tx : Txns \cup {NoTxn}, rev : Rev]
Plans == [before : Rev, reads : UNION {[Reads[t] -> Nat] : t \in Txns}]
AllEffects == UNION {Effects[t] : t \in Txns}
States == {"none", "prepared"} \cup DECISIONS

Types == /\ decision \in [Txns -> {"undecided"} \cup DECISIONS]
         /\ plan \in [Txns -> SUBSET Plans]
         /\ rcpt \in [Txns -> States]
         /\ ptr \in [Cards -> Pointers]
         /\ marker \in [Cards -> Txns \cup {NoTxn}] /\ fence \in [Cards -> Txns \cup {NoTxn}]
         /\ world \in [Txns -> SUBSET AllEffects] /\ applied \in [Txns -> SUBSET AllEffects]
         /\ st \in [Txns -> StageSteps] /\ todo \in [Txns -> SUBSET Cards]
         /\ fin \in [Txns -> FinishSteps] /\ wr \in [Cards -> {"idle", "durable"}]

\* Who runs a step on a Card is inside its section.
SectionInv == /\ \A t \in Txns : st[t] # "idle" => \A c \in Sections(t) : section[c] = StageOf(t)
              /\ \A t \in Txns : fin[t] # "idle" => section[Target[t]] = FinishOf(t)
              /\ \A c \in Cards : wr[c] # "idle" => section[c] = WriteOf(c)

\* The steps of STAGE after the receipt, and of FINISH after the effects.
Holding == {"refence", "marker", "revmark", "revision", "pointer", "answer"}
Retiring == {"retire", "unmark", "clear", "release"}

\* What a STAGE call knows of its transaction, ...
StageOK(t) == /\ st[t] \in {"active", "fence"} => rcpt[t] = "none"
              /\ st[t] \in Holding => rcpt[t] = "prepared"
              /\ st[t] # "idle" \/ rcpt[t] # "none" \/ decision[t] # "undecided" => Planned(t)
              /\ st[t] = "revision" => t \in revmarks
              /\ st[t] = "fence" \/ rcpt[t] = "prepared" => t \in active
              /\ t \in acked => rcpt[t] # "none"
              /\ decision[t] = "committed" => t \in acked
\* ... what a FINISH call does, ...
FinishOK(t) == /\ fin[t] # "idle" => decision[t] \in DECISIONS
               /\ fin[t] = "tombstone" => rcpt[t] = "none"
               /\ fin[t] = "receipt" => rcpt[t] = "prepared"
               /\ fin[t] = "effects" => rcpt[t] = "committed"
               /\ fin[t] \in Retiring => rcpt[t] \in DECISIONS /\ (rcpt[t] = "committed" => Pending(t) = {})
               /\ fin[t] \in {"inactive", "answer"} \/ t \in finished => rcpt[t] \in DECISIONS \/ t \in tomb
               /\ t \in tomb => rcpt[t] = "none" /\ st[t] = "idle"
               /\ rcpt[t] \in DECISIONS => rcpt[t] = decision[t]
\* ... and what its effects and its revision say.
FilesOK(t) == /\ applied[t] \subseteq world[t] /\ world[t] \subseteq Effects[t]
              /\ t \in revs => t \in revmarks \/ (rcpt[t] = "committed" /\ Pending(t) = {})
TxnInv == \A t \in Txns : StageOK(t) /\ FinishOK(t) /\ FilesOK(t)

\* A transaction pointer is the one its transaction wrote on its Card.
PtrOK(c) == LET t == ptr[c].tx IN t # NoTxn => Target[t] = c /\ rcpt[t] # "none" /\ ptr[c] = Staged(t)
PtrInv == \A c \in Cards : PtrOK(c)

BaseInv == Types /\ SectionInv /\ TxnInv /\ PtrInv

\* A revision all of whose transactions are committed with their effects.
Good(r) == \A u \in r.in : decision[u] = "committed" /\ world[u] = Effects[u]

\* Pointers and plans name such revisions.
ContentInv == /\ \A c \in Cards : Good(ptr[c].rev)
              /\ \A t \in Txns : Planned(t) => Good(Before(t))

\* The pointer is plain, or of a transaction that is decided and, if committed, has all its effects.
Clean(c) == ptr[c].tx # NoTxn => /\ rcpt[ptr[c].tx] \in DECISIONS
                                 /\ rcpt[ptr[c].tx] = "committed" => ~EffectsOutstanding(ptr[c].tx)

\* A transaction that is inside STAGE, or prepared with its marker or its pointer
\* in place, holds its Card.  One cut between receipt and marker does not.
Holds(t) == st[t] # "idle" \/ (rcpt[t] = "prepared" /\ (marker[Target[t]] = t \/ ptr[Target[t]].tx = t))
\* At most one does.
HoldInv == \A t, u \in Txns : t # u /\ Target[t] = Target[u] /\ Target[t] \notin overrun /\ Holds(t) => ~Holds(u)
\* What it replaces is settled, and is its BEFORE.
OverOK(t) == /\ Holds(t) => ptr[Target[t]].tx = t \/ Clean(Target[t])
             /\ st[t] \notin {"idle", "answer"} => Clean(Target[t]) /\ Logical(Target[t]) = Before(t)
             /\ (t \in acked /\ rcpt[t] = "prepared") \/ st[t] = "answer" => IsStaged(t)
             /\ decision[t] = "committed" => /\ t \in Logical(Target[t]).in
                                             /\ Before(t).n + 1 <= Logical(Target[t]).n
CardInv == /\ HoldInv
           /\ \A t \in Txns : Target[t] \notin overrun => OverOK(t)
           /\ \A c \in Cards : wr[c] = "durable" => Clean(c)

\* No transaction that may be committed changes d.
Untouched(d) == \A u \in Txns : Target[u] = d => ~Holds(u)
\* No prepared transaction reads d.
Unread(d) == \A t \in Txns : rcpt[t] = "prepared" => d \notin Reads[t]
Reserved(t, d) == fence[d] = t /\ (d \notin overrun => Logical(d).n = Expected(t, d) /\ Untouched(d))
ReserveInv == /\ \A t \in Txns : /\ todo[t] \subseteq Reads[t] /\ (st[t] = "active" => todo[t] = Reads[t])
                                 /\ st[t] = "fence" => \A d \in Reads[t] \ todo[t] : Reserved(t, d)
                                 /\ rcpt[t] = "prepared" => \A d \in Reads[t] : Reserved(t, d)
              /\ \A c \in Cards : wr[c] = "durable" => Unread(c)

\* What a read holds when it goes on.
ReadOK == LET t == rptr.tx IN
    /\ rcard \in Cards
    /\ rpc \in {"idle", "receipt"} => rstate = "none" /\ ~rlocal
    /\ rpc # "idle" => /\ rptr \in Pointers /\ Good(rptr.rev)
                       /\ t # NoTxn => Target[t] = rcard /\ rptr = Staged(t) /\ rcpt[t] # "none"
    /\ rpc \in {"receipt", "decision", "effects"} => t # NoTxn
    /\ rpc # "idle" /\ t # NoTxn => /\ rstate \in DECISIONS => rstate = decision[t]
                                    /\ rlocal => rcpt[t] \in DECISIONS
    /\ rpc = "effects" => rstate = "committed"
    /\ rpc = "load" /\ t # NoTxn => /\ rstate \in DECISIONS
                                    /\ rstate = "committed" => world[t] = Effects[t]
FloorOK == LET t == rptr.tx IN
    rpc # "idle" => /\ floor \in Nat /\ (rcard \notin overrun => floor <= Logical(rcard).n)
                    /\ IF t = NoTxn THEN floor = rptr.rev.n
                       ELSE \/ floor = Before(t).n
                            \/ decision[t] = "committed" /\ floor = Before(t).n + 1

\* Most steps are about sets and functions, which Zenon does best; a leaf with arithmetic or records names SMT.
USE Zenon

\* The revisions a plan names.
LEMMA BeforeType ==
    ASSUME Types, NEW t \in Txns, Planned(t)
    PROVE  /\ Before(t) \in Rev /\ After(t) \in Rev
           /\ After(t).n = Before(t).n + 1 /\ After(t).in = Before(t).in \cup {t}
<1>1. (CHOOSE r \in plan[t] : TRUE) \in Plans
  BY DEF Types, Planned
<1>2. Before(t) \in Rev
  BY <1>1 DEF Before, Plans
<1> QED
  BY <1>2, SMT DEF After, Rev

\* The transaction a pointer names is planned.
LEMMA NamedTxn ==
    ASSUME BaseInv, NEW c \in Cards, ptr[c].tx # NoTxn
    PROVE  ptr[c].tx \in Txns /\ Planned(ptr[c].tx)
<1>1. ptr[c].tx \in Txns
  BY DEF BaseInv, Types, Pointers
<1> QED
  BY <1>1 DEF BaseInv, PtrInv, PtrOK, TxnInv, StageOK

\* What a Card resolves to is a revision, ...
LEMMA LocalType == ASSUME BaseInv, NEW c \in Cards PROVE ResolveLocal(c) \in Rev
<1>1. CASE ptr[c].tx = NoTxn
  BY <1>1 DEF BaseInv, Types, Pointers, ResolveLocal
<1>2. CASE ptr[c].tx # NoTxn
  BY <1>2, NamedTxn, BeforeType DEF BaseInv, ResolveLocal
<1> QED
  BY <1>1, <1>2

\* ... and so is what a reader is served.
LEMMA ServingIs ==
    ASSUME BaseInv, NEW c \in Cards, NEW r \in Serving(c)
    PROVE  /\ r \in Rev
           /\ ptr[c].tx = NoTxn => r = ptr[c].rev
           /\ ptr[c].tx # NoTxn => \/ r = Before(ptr[c].tx) /\ decision[ptr[c].tx] = "aborted"
                                   \/ /\ r = After(ptr[c].tx) /\ decision[ptr[c].tx] = "committed"
                                      /\ ~EffectsOutstanding(ptr[c].tx)
<1>1. CASE ptr[c].tx = NoTxn
  BY <1>1, SMT DEF BaseInv, Types, Pointers, Serving, ResolveServing
<1>2. CASE ptr[c].tx # NoTxn
  <2> DEFINE t == ptr[c].tx
  <2>1. t \in Txns /\ Planned(t)
    BY <1>2, NamedTxn
  <2>2. Before(t) \in Rev /\ After(t) \in Rev
    BY <2>1, BeforeType DEF BaseInv
  <2>3. rcpt[t] \in DECISIONS => rcpt[t] = decision[t]
    BY <2>1 DEF BaseInv, TxnInv, FinishOK
  <2>4. PICK a \in PortAnswers(t) : r \in ResolveServing(ptr[c], a)
    BY <1>2 DEF Serving
  <2>5. Authoritative(t, a) \in DECISIONS => Authoritative(t, a) = decision[t]
    BY <2>3, <2>4 DEF Authoritative, PortAnswers, DECISIONS
  <2>6. \/ r = After(t) /\ Authoritative(t, a) = "committed" /\ ~EffectsOutstanding(t)
        \/ r = Before(t) /\ Authoritative(t, a) = "aborted"
    BY <1>2, <2>4 DEF ResolveServing
  <2> QED
    BY <1>2, <2>2, <2>5, <2>6 DEF DECISIONS
<1> QED
  BY <1>1, <1>2

\* Init establishes the first layer.
LEMMA InitBase == Init => BaseInv
<1> SUFFICES ASSUME Init PROVE BaseInv
  OBVIOUS
<1>1. First \in Rev /\ Plain(First) \in Pointers
  BY DEF First, Rev, Plain, Pointers
<1>2. Types
  BY <1>1 DEF Init, Types, States, StageSteps, FinishSteps
<1>3. SectionInv
  BY DEF Init, SectionInv
<1>4. TxnInv
  BY DEF Init, TxnInv, StageOK, FinishOK, FilesOK, Holding, Retiring, DECISIONS
<1>5. PtrInv
  BY DEF Init, PtrInv, PtrOK, Plain
<1> QED
  BY <1>2, <1>3, <1>4, <1>5 DEF BaseInv

\* Planning and deciding, and the steps that begin or refuse a STAGE, keep the types.
LEMMA StartTypes ==
    ASSUME BaseInv, NEW t \in Txns, Plan(t) \/ Decide(t) \/ StageFresh(t) \/ StageResume(t) \/ StageReplay(t) \/ StageRefused(t)
    PROVE  Types'
<1>0. Types /\ Target[t] \in Cards /\ Reads[t] \subseteq Cards
  BY ScopeAssumption DEF BaseInv
<1> USE DEF files, ledger, procs
<1>1. CASE Plan(t)
  <2>1. PICK before \in Serving(Target[t]), reads \in [Reads[t] -> 1..MaxRev] :
          plan' = [plan EXCEPT ![t] = {[before |-> before, reads |-> reads]}]
    BY <1>1 DEF Plan
  <2>2. before \in Rev
    BY <1>0, ServingIs
  <2>3. 1..MaxRev \subseteq Nat
    BY RevAssumption, SMT
  <2>4. reads \in UNION {[Reads[u] -> Nat] : u \in Txns}
    BY <2>3, SMT
  <2>5. [before |-> before, reads |-> reads] \in Plans
    BY <2>2, <2>4 DEF Plans
  <2>6. plan' \in [Txns -> SUBSET Plans]
    BY <1>0, <2>1, <2>5 DEF Types
  <2> QED
    BY <1>0, <1>1, <2>6 DEF Plan, Types
<1>2. CASE Decide(t)
  BY <1>0, <1>2 DEF Decide, Types, DECISIONS
<1>3. CASE StageFresh(t)
  BY <1>0, <1>3 DEF StageFresh, Goto, Types, StageSteps
<1>4. CASE StageResume(t)
  BY <1>0, <1>4 DEF StageResume, Goto, Types, StageSteps
<1>5. CASE StageReplay(t) \/ StageRefused(t)
  BY <1>0, <1>5 DEF StageReplay, StageRefused, Types
<1> QED
  BY <1>1, <1>2, <1>3, <1>4, <1>5

\* So do the steps of STAGE ...
LEMMA StageTypes == ASSUME BaseInv, NEW t \in Txns, StageStep(t) \/ StageCrash(t) PROVE Types'
<1>0. Types /\ Target[t] \in Cards /\ StageOK(t)
  BY ScopeAssumption DEF BaseInv, TxnInv
<1> USE DEF files, ledger, Goto, StageSteps
<1>1. CASE WriteActive(t) \/ WriteReceipt(t)
  BY <1>0, <1>1 DEF WriteActive, WriteReceipt, Types, States
<1>2. CASE WriteMarker(t)
  BY <1>0, <1>2, SMT DEF WriteMarker, Types
<1>3. CASE WriteRevMark(t) \/ WriteRevision(t)
  BY <1>0, <1>3 DEF WriteRevMark, WriteRevision, Types
<1>4. CASE WritePointer(t)
  <2>1. Planned(t)
    BY <1>0, <1>4 DEF WritePointer, StageOK
  <2>2. Staged(t) \in Pointers
    BY <1>0, <2>1, BeforeType DEF Staged, Pointers
  <2> QED
    BY <1>0, <1>4, <2>2 DEF WritePointer, Types
<1>5. CASE StageAnswer(t) \/ StageCrash(t)
  BY <1>0, <1>5 DEF StageAnswer, StageCrash, Types
<1>6. ASSUME NEW d \in Cards, ReserveRead(t, d) \/ ReserveRefused(t, d) PROVE Types'
  BY <1>0, <1>6, SMT DEF ReserveRead, ReserveRefused, Types
<1> QED
  BY <1>1, <1>2, <1>3, <1>4, <1>5, <1>6 DEF StageStep

\* ... of FINISH ...
LEMMA FinishTypes == ASSUME BaseInv, NEW t \in Txns, FinishEnter(t) \/ FinishStep(t) \/ FinishCrash(t) PROVE Types'
<1>0. Types /\ Target[t] \in Cards /\ StageOK(t) /\ FinishOK(t)
  BY ScopeAssumption DEF BaseInv, TxnInv
<1> USE DEF files, ledger, FinGoto, FinishSteps
<1>1. CASE FinishEnter(t)
  BY <1>0, <1>1 DEF FinishEnter, Types
<1>2. CASE WriteTombstone(t) \/ DropRevMark(t) \/ DropActive(t)
  BY <1>0, <1>2 DEF WriteTombstone, DropRevMark, DropActive, Types
<1>3. CASE WriteDecided(t)
  BY <1>0, <1>3 DEF WriteDecided, FinishOK, Types, States
<1>4. CASE RetirePointer(t)
  <2>1. Planned(t)
    BY <1>0, <1>4 DEF RetirePointer, FinishOK, StageOK, Retiring, DECISIONS
  <2>2. Plain(After(t)) \in Pointers /\ Plain(Before(t)) \in Pointers
    BY <1>0, <2>1, BeforeType DEF Plain, Pointers
  <2> QED
    BY <1>0, <1>4, <2>2 DEF RetirePointer, Types
<1>5. CASE ClearMarker(t) \/ ReleaseReads(t)
  BY <1>0, <1>5 DEF ClearMarker, ReleaseReads, Types
<1>6. CASE FinishAnswer(t) \/ FinishCrash(t)
  BY <1>0, <1>6 DEF FinishAnswer, FinishCrash, Types
<1>7. ASSUME NEW e \in Effects[t], ApplyEffect(t, e) \/ RecordEffect(t, e) PROVE Types'
  <2>1. e \in AllEffects
    BY DEF AllEffects
  <2> QED
    BY <1>0, <1>7, <2>1, SMT DEF ApplyEffect, RecordEffect, Types, procs
<1> QED
  BY <1>1, <1>2, <1>3, <1>4, <1>5, <1>6, <1>7 DEF FinishStep

\* ... and of ordinary commits.
LEMMA CommitTypes ==
    ASSUME BaseInv, NEW c \in Cards, MarkExpires(c) \/ CommitEnter(c) \/ CommitDurable(c) \/ CommitCrash(c)
    PROVE  Types'
<1>0. Types
  BY DEF BaseInv
<1> USE DEF files, ledger, procs
<1>1. CASE CommitDurable(c)
  <2>1. ResolveLocal(c) \in Rev
    BY LocalType
  <2>2. Plain([ResolveLocal(c) EXCEPT !.n = @ + 1]) \in Pointers
    BY <2>1, SMT DEF Plain, Pointers, Rev
  <2> QED
    BY <1>0, <1>1, <2>2 DEF CommitDurable, Types
<1>2. CASE MarkExpires(c) \/ CommitEnter(c) \/ CommitCrash(c)
  BY <1>0, <1>2 DEF MarkExpires, CommitEnter, CommitCrash, Types
<1> QED
  BY <1>1, <1>2

\* The holders of a section are told apart.
LEMMA Holders ==
    /\ \A t, u \in Txns : /\ StageOf(t) = StageOf(u) => t = u
                          /\ FinishOf(t) = FinishOf(u) => t = u
                          /\ StageOf(t) # FinishOf(u)
    /\ \A c, d \in Cards : WriteOf(c) = WriteOf(d) => c = d
    /\ \A t \in Txns, c \in Cards : StageOf(t) # WriteOf(c) /\ FinishOf(t) # WriteOf(c)
    /\ \A t \in Txns : StageOf(t) # Free /\ FinishOf(t) # Free
    /\ \A c \in Cards : WriteOf(c) # Free
<1>1. Free.kind = "free"
  BY DEF Free
<1>2. \A t \in Txns : StageOf(t).kind = "stage" /\ StageOf(t).t = t /\ FinishOf(t).kind = "finish" /\ FinishOf(t).t = t
  BY DEF StageOf, FinishOf
<1>3. \A c \in Cards : WriteOf(c).kind = "write" /\ WriteOf(c).c = c
  BY DEF WriteOf
<1> QED
  BY <1>1, <1>2, <1>3, SMT

\* The Cards of a transaction.
LEMMA Scope == \A t \in Txns : /\ Target[t] \in Cards /\ Reads[t] \subseteq Cards /\ Target[t] \notin Reads[t]
                               /\ Target[t] \in Sections(t) /\ Reads[t] \subseteq Sections(t) /\ Sections(t) \subseteq Cards
BY ScopeAssumption DEF Sections

\* Two calls that are inside a section of the same Card are the same call.
LEMMA Exclusion ==
    ASSUME SectionInv
    PROVE  /\ \A t, u \in Txns : st[t] # "idle" /\ st[u] # "idle" /\ t # u => Sections(t) \cap Sections(u) = {}
           /\ \A t, u \in Txns : st[t] # "idle" /\ fin[u] # "idle" => Target[u] \notin Sections(t)
           /\ \A t, u \in Txns : fin[t] # "idle" /\ fin[u] # "idle" /\ t # u => Target[t] # Target[u]
           /\ \A t \in Txns, c \in Cards : wr[c] # "idle" => /\ st[t] # "idle" => c \notin Sections(t)
                                                             /\ fin[t] # "idle" => c # Target[t]
BY Holders, Scope, SMT DEF SectionInv

\* A step that leaves the sections alone, or enters or leaves those of one call.
LEMMA SectionStays ==
    ASSUME SectionInv, section' = section, \A t \in Txns : st'[t] # "idle" => st[t] # "idle",
           \A t \in Txns : fin'[t] # "idle" => fin[t] # "idle", \A c \in Cards : wr'[c] # "idle" => wr[c] # "idle"
    PROVE  SectionInv'
BY DEF SectionInv

LEMMA SectionEnters ==
    ASSUME SectionInv, NEW cs \in SUBSET Cards, NEW who, Enter(cs, who),
           \A t \in Txns : st'[t] # "idle" => st[t] # "idle" \/ (cs = Sections(t) /\ who = StageOf(t)),
           \A t \in Txns : fin'[t] # "idle" => fin[t] # "idle" \/ (cs = {Target[t]} /\ who = FinishOf(t)),
           \A c \in Cards : wr'[c] # "idle" => wr[c] # "idle" \/ (cs = {c} /\ who = WriteOf(c))
    PROVE  SectionInv'
<1>1. \A c \in Cards : section[c] # Free => section'[c] = section[c]
  BY DEF Enter
<1>2. \A c \in cs : section'[c] = who
  BY DEF Enter
<1>3. ASSUME NEW t \in Txns, st'[t] # "idle", NEW c \in Sections(t) PROVE section'[c] = StageOf(t)
  BY <1>1, <1>2, <1>3, Holders, Scope, SMT DEF SectionInv
<1>4. ASSUME NEW t \in Txns, fin'[t] # "idle" PROVE section'[Target[t]] = FinishOf(t)
  BY <1>1, <1>2, <1>4, Holders, Scope, SMT DEF SectionInv
<1>5. ASSUME NEW c \in Cards, wr'[c] # "idle" PROVE section'[c] = WriteOf(c)
  BY <1>1, <1>2, <1>5, Holders, SMT DEF SectionInv
<1> QED
  BY <1>3, <1>4, <1>5 DEF SectionInv

LEMMA SectionLeaves ==
    ASSUME SectionInv, NEW who, Exit(who),
           \A t \in Txns : st'[t] # "idle" => st[t] # "idle" /\ who # StageOf(t),
           \A t \in Txns : fin'[t] # "idle" => fin[t] # "idle" /\ who # FinishOf(t),
           \A c \in Cards : wr'[c] # "idle" => wr[c] # "idle" /\ who # WriteOf(c)
    PROVE  SectionInv'
<1>1. \A c \in Cards : section[c] # who => section'[c] = section[c]
  BY DEF Exit
<1>2. ASSUME NEW t \in Txns, st'[t] # "idle", NEW c \in Sections(t) PROVE section'[c] = StageOf(t)
  BY <1>1, <1>2, Scope DEF SectionInv
<1>3. ASSUME NEW t \in Txns, fin'[t] # "idle" PROVE section'[Target[t]] = FinishOf(t)
  BY <1>1, <1>3, Scope DEF SectionInv
<1>4. ASSUME NEW c \in Cards, wr'[c] # "idle" PROVE section'[c] = WriteOf(c)
  BY <1>1, <1>4 DEF SectionInv
<1> QED
  BY <1>2, <1>3, <1>4 DEF SectionInv

\* How the steps of one call move the program counters.
LEMMA GotoEffect ==
    ASSUME Types, NEW t \in Txns
    PROVE  /\ \A s : Goto(t, s) => st'[t] = s /\ \A u \in Txns : u # t => st'[u] = st[u]
           /\ \A s : FinGoto(t, s) => fin'[t] = s /\ \A u \in Txns : u # t => fin'[u] = fin[u]
BY DEF Types, Goto, FinGoto

\* A call of STAGE begins from rest and leaves the other transactions where they are.
LEMMA Begins ==
    ASSUME Types, NEW t \in Txns, StageFresh(t) \/ StageResume(t)
    PROVE  /\ st[t] = "idle" /\ st'[t] \in {"active", "refence"}
           /\ \A u \in Txns \ {t} : st'[u] = st[u]
           /\ StageResume(t) => st'[t] = "refence"
<1>1. CASE StageFresh(t)
  <2>1. st[t] = "idle" /\ Goto(t, "active") /\ rcpt[t] = "none"
    BY <1>1 DEF StageFresh
  <2>2. ~StageResume(t)
    BY <2>1 DEF StageResume
  <2> QED
    BY <2>1, <2>2, GotoEffect
<1>2. CASE StageResume(t)
  <2>1. st[t] = "idle" /\ Goto(t, "refence")
    BY <1>2 DEF StageResume
  <2> QED
    BY <2>1, GotoEffect
<1> QED
  BY <1>1, <1>2

\* A transaction's steps keep the sections exclusive, ...
LEMMA TxnSections ==
    ASSUME BaseInv, NEW t \in Txns,
           \/ Plan(t) \/ Decide(t) \/ StageFresh(t) \/ StageResume(t) \/ StageReplay(t) \/ StageRefused(t)
           \/ StageStep(t) \/ StageCrash(t) \/ FinishEnter(t) \/ FinishStep(t) \/ FinishCrash(t)
    PROVE  SectionInv'
<1>0. Types /\ SectionInv /\ Sections(t) \in SUBSET Cards /\ {Target[t]} \in SUBSET Cards
  BY Scope DEF BaseInv
<1>1. CASE Plan(t) \/ Decide(t) \/ StageReplay(t) \/ StageRefused(t)
  BY <1>0, <1>1, SectionStays DEF Plan, Decide, StageReplay, StageRefused, procs
<1>2. CASE StageFresh(t) \/ StageResume(t)
  <2>1. /\ Enter(Sections(t), StageOf(t)) /\ fin' = fin /\ wr' = wr
        /\ \A u \in Txns : u # t => st'[u] = st[u]
    BY <1>0, <1>2, GotoEffect DEF StageFresh, StageResume
  <2> QED
    BY <1>0, <2>1, SectionEnters
<1>3. CASE \/ WriteActive(t) \/ WriteReceipt(t) \/ WriteMarker(t) \/ WriteRevMark(t) \/ WriteRevision(t) \/ WritePointer(t)
           \/ \E d \in Cards : ReserveRead(t, d)
  <2>1. section' = section /\ fin' = fin /\ wr' = wr /\ st[t] # "idle" /\ \A u \in Txns : u # t => st'[u] = st[u]
    BY <1>0, <1>3, GotoEffect DEF WriteActive, WriteReceipt, WriteMarker, WriteRevMark, WriteRevision, WritePointer, ReserveRead
  <2> QED
    BY <1>0, <2>1, SectionStays
<1>4. CASE StageAnswer(t) \/ StageCrash(t) \/ \E d \in Cards : ReserveRefused(t, d)
  <2>1. /\ Exit(StageOf(t)) /\ fin' = fin /\ wr' = wr
        /\ st'[t] = "idle" /\ \A u \in Txns : u # t => st'[u] = st[u]
    BY <1>0, <1>4, GotoEffect DEF StageAnswer, StageCrash, ReserveRefused
  <2> QED
    BY <1>0, <2>1, Holders, SectionLeaves
<1>5. CASE FinishEnter(t)
  <2>1. Enter({Target[t]}, FinishOf(t)) /\ st' = st /\ wr' = wr /\ \A u \in Txns : u # t => fin'[u] = fin[u]
    BY <1>0, <1>5, GotoEffect DEF FinishEnter
  <2> QED
    BY <1>0, <2>1, SectionEnters
<1>6. CASE \/ WriteTombstone(t) \/ WriteDecided(t) \/ RetirePointer(t) \/ DropRevMark(t) \/ ClearMarker(t) \/ ReleaseReads(t)
           \/ DropActive(t) \/ \E e \in Effects[t] : RecordEffect(t, e)
  <2>1. section' = section /\ st' = st /\ wr' = wr /\ fin[t] # "idle" /\ \A u \in Txns : u # t => fin'[u] = fin[u]
    BY <1>0, <1>6, GotoEffect
    DEF WriteTombstone, WriteDecided, RetirePointer, DropRevMark, ClearMarker, ReleaseReads, DropActive, RecordEffect
  <2> QED
    BY <1>0, <2>1, SectionStays
<1>7. CASE \E e \in Effects[t] : ApplyEffect(t, e)
  BY <1>0, <1>7, SectionStays DEF ApplyEffect, procs
<1>8. CASE FinishAnswer(t) \/ FinishCrash(t)
  <2>1. /\ Exit(FinishOf(t)) /\ st' = st /\ wr' = wr
        /\ fin'[t] = "idle" /\ \A u \in Txns : u # t => fin'[u] = fin[u]
    BY <1>0, <1>8, GotoEffect DEF FinishAnswer, FinishCrash
  <2> QED
    BY <1>0, <2>1, Holders, SectionLeaves
<1> QED
  BY <1>1, <1>2, <1>3, <1>4, <1>5, <1>6, <1>7, <1>8 DEF StageStep, FinishStep

\* ... and so do ordinary commits.
LEMMA CommitSections ==
    ASSUME BaseInv, NEW c \in Cards, MarkExpires(c) \/ CommitEnter(c) \/ CommitDurable(c) \/ CommitCrash(c)
    PROVE  SectionInv'
<1>0. Types /\ SectionInv /\ {c} \in SUBSET Cards
  BY DEF BaseInv
<1>1. CASE MarkExpires(c)
  BY <1>0, <1>1, SectionStays DEF MarkExpires, procs
<1>2. CASE CommitEnter(c)
  <2>1. Enter({c}, WriteOf(c)) /\ st' = st /\ fin' = fin /\ \A d \in Cards : d # c => wr'[d] = wr[d]
    BY <1>0, <1>2 DEF CommitEnter, Types
  <2> QED
    BY <1>0, <2>1, SectionEnters
<1>3. CASE CommitDurable(c) \/ CommitCrash(c)
  <2>1. Exit(WriteOf(c)) /\ st' = st /\ fin' = fin /\ wr'[c] = "idle" /\ \A d \in Cards : d # c => wr'[d] = wr[d]
    BY <1>0, <1>3 DEF CommitDurable, CommitCrash, Types
  <2> QED
    BY <1>0, <2>1, Holders, SectionLeaves
<1> QED
  BY <1>1, <1>2, <1>3

\* What one transaction's part of the invariant speaks of is left as it is.
Still(u) == /\ fin'[u] = fin[u] /\ rcpt'[u] = rcpt[u] /\ decision'[u] = decision[u]
            /\ plan'[u] = plan[u] /\ world'[u] = world[u] /\ applied'[u] = applied[u]
            /\ (u \in revmarks' <=> u \in revmarks) /\ (u \in revs' <=> u \in revs)
            /\ (u \in active' <=> u \in active) /\ (u \in tomb' <=> u \in tomb)
            /\ (u \in acked' <=> u \in acked) /\ (u \in finished' <=> u \in finished)
Kept(u) == st'[u] = st[u] /\ Still(u)
TxnOK(u) == StageOK(u) /\ FinishOK(u) /\ FilesOK(u)

LEMMA TxnKept == ASSUME NEW u \in Txns, TxnOK(u), Kept(u) PROVE TxnOK(u)'
<1>1. StageOK(u)'
  BY DEF Kept, Still, TxnOK, StageOK, Planned
<1>2. FinishOK(u)'
  BY DEF Kept, Still, TxnOK, FinishOK, Pending
<1>3. FilesOK(u)'
  BY DEF Kept, Still, TxnOK, FilesOK, Pending
<1> QED
  BY <1>1, <1>2, <1>3 DEF TxnOK

\* A STAGE goes on behind its receipt, or stops.
LEMMA TxnMoves ==
    ASSUME NEW u \in Txns, TxnOK(u), Still(u), st[u] # "idle",
           st'[u] = "idle" \/ (st[u] \in Holding /\ st'[u] \in Holding \ {"revision"})
    PROVE  TxnOK(u)'
<1>1. StageOK(u)'
  BY DEF Still, TxnOK, StageOK, Planned, Holding
<1>2. FinishOK(u)'
  BY DEF Still, TxnOK, FinishOK, Pending
<1>3. FilesOK(u)'
  BY DEF Still, TxnOK, FilesOK, Pending
<1> QED
  BY <1>1, <1>2, <1>3 DEF TxnOK

\* A transaction's steps leave the other transactions' parts, ...
LEMMA StageKeepsOthers ==
    ASSUME Types, NEW t \in Txns, NEW u \in Txns, u # t,
           \/ Plan(t) \/ Decide(t) \/ StageFresh(t) \/ StageResume(t) \/ StageReplay(t) \/ StageRefused(t)
           \/ StageStep(t) \/ StageCrash(t)
    PROVE  Kept(u)
<1> USE DEF files, ledger, procs, Kept, Still
<1>1. CASE Plan(t) \/ Decide(t)
  BY <1>1 DEF Plan, Decide, Types
<1>2. CASE StageFresh(t) \/ StageResume(t) \/ StageReplay(t) \/ StageRefused(t)
  BY <1>2, GotoEffect DEF StageFresh, StageResume, StageReplay, StageRefused
<1>3. CASE WriteActive(t) \/ WriteReceipt(t) \/ WriteMarker(t)
  BY <1>3, GotoEffect, SMT DEF WriteActive, WriteReceipt, WriteMarker, Types
<1>4. CASE WriteRevMark(t) \/ WriteRevision(t) \/ WritePointer(t)
  BY <1>4, GotoEffect DEF WriteRevMark, WriteRevision, WritePointer
<1>5. CASE StageAnswer(t) \/ StageCrash(t)
  BY <1>5, GotoEffect DEF StageAnswer, StageCrash
<1>6. ASSUME NEW d \in Cards, ReserveRead(t, d) \/ ReserveRefused(t, d) PROVE Kept(u)
  BY <1>6, GotoEffect DEF ReserveRead, ReserveRefused
<1> QED
  BY <1>1, <1>2, <1>3, <1>4, <1>5, <1>6 DEF StageStep

LEMMA FinishKeepsOthers ==
    ASSUME Types, NEW t \in Txns, NEW u \in Txns, u # t, FinishEnter(t) \/ FinishStep(t) \/ FinishCrash(t)
    PROVE  Kept(u)
<1> USE DEF files, ledger, procs, Kept, Still
<1>1. CASE FinishEnter(t) \/ FinishCrash(t) \/ FinishAnswer(t)
  BY <1>1, GotoEffect DEF FinishEnter, FinishCrash, FinishAnswer
<1>2. CASE WriteTombstone(t) \/ WriteDecided(t) \/ RetirePointer(t)
  BY <1>2, GotoEffect, SMT DEF WriteTombstone, WriteDecided, RetirePointer, Types
<1>3. CASE DropRevMark(t) \/ ClearMarker(t) \/ ReleaseReads(t) \/ DropActive(t)
  BY <1>3, GotoEffect DEF DropRevMark, ClearMarker, ReleaseReads, DropActive
<1>4. ASSUME NEW e \in Effects[t], ApplyEffect(t, e) \/ RecordEffect(t, e) PROVE Kept(u)
  BY <1>4, GotoEffect, SMT DEF ApplyEffect, RecordEffect, Types
<1> QED
  BY <1>1, <1>2, <1>3, <1>4 DEF FinishStep

LEMMA CommitKeepsOthers ==
    ASSUME NEW c \in Cards, NEW u \in Txns, MarkExpires(c) \/ CommitEnter(c) \/ CommitDurable(c) \/ CommitCrash(c)
    PROVE  Kept(u)
BY DEF MarkExpires, CommitEnter, CommitDurable, CommitCrash, files, ledger, procs, Kept, Still

\* ... and keep its own.
LEMMA StartTxn ==
    ASSUME BaseInv, NEW t \in Txns,
           Plan(t) \/ Decide(t) \/ StageFresh(t) \/ StageResume(t) \/ StageReplay(t) \/ StageRefused(t)
    PROVE  TxnOK(t)'
<1>0. Types /\ StageOK(t) /\ FinishOK(t) /\ FilesOK(t) /\ st[t] \in StageSteps /\ rcpt[t] \in States
  BY DEF BaseInv, TxnInv, Types
<1>a. fin[t] # "idle" => st[t] = "idle"
  BY Exclusion, Scope DEF BaseInv
<1> USE DEF files, ledger, procs, TxnOK
<1>1. CASE Plan(t)
  <2>1. PICK p : plan' = [plan EXCEPT ![t] = {p}]
    BY <1>1 DEF Plan
  <2>2. plan'[t] # {}
    BY <1>0, <2>1 DEF Types
  <2> QED
    BY <1>0, <1>1, <2>2 DEF Plan, StageOK, FinishOK, FilesOK, Planned, Pending
<1>2. CASE Decide(t)
  <2>1. Planned(t) /\ decision[t] = "undecided" /\ decision'[t] \in DECISIONS /\ (decision'[t] = "committed" => t \in acked)
    BY <1>0, <1>2 DEF Decide, Types, DECISIONS
  <2>2. StageOK(t)'
    BY <1>0, <1>2, <2>1 DEF Decide, StageOK, Planned
  <2>3. FinishOK(t)'
    BY <1>0, <1>2, <2>1 DEF Decide, FinishOK, Pending, DECISIONS
  <2>4. FilesOK(t)'
    BY <1>0, <1>2 DEF Decide, FilesOK, Pending
  <2> QED
    BY <2>2, <2>3, <2>4
<1>3. CASE StageFresh(t)
  <2>1. st'[t] = "active" /\ Planned(t) /\ rcpt[t] = "none" /\ t \notin tomb
    BY <1>0, <1>3, GotoEffect DEF StageFresh
  <2> QED
    BY <1>0, <1>3, <2>1 DEF StageFresh, StageOK, FinishOK, FilesOK, Planned, Pending, Holding
<1>4. CASE StageResume(t)
  <2>1. st'[t] = "refence" /\ rcpt[t] = "prepared"
    BY <1>0, <1>4, GotoEffect DEF StageResume
  <2> QED
    BY <1>0, <1>4, <2>1 DEF StageResume, StageOK, FinishOK, FilesOK, Planned, Pending, Holding
<1>5. CASE StageReplay(t)
  BY <1>0, <1>5 DEF StageReplay, StageOK, FinishOK, FilesOK, Planned, Pending
<1>6. CASE StageRefused(t)
  <2>1. Kept(t)
    BY <1>6 DEF StageRefused, Kept, Still
  <2> QED
    BY <1>0, <2>1, TxnKept
<1> QED
  BY <1>1, <1>2, <1>3, <1>4, <1>5, <1>6

LEMMA StageTxn == ASSUME BaseInv, NEW t \in Txns, StageStep(t) \/ StageCrash(t) PROVE TxnOK(t)'
<1>0. Types /\ TxnOK(t) /\ StageOK(t) /\ FinishOK(t) /\ FilesOK(t) /\ st[t] \in StageSteps /\ rcpt[t] \in States
  BY DEF BaseInv, TxnInv, Types, TxnOK
<1>a. st[t] # "idle" => fin[t] = "idle"
  BY Exclusion, Scope DEF BaseInv
<1> USE DEF files, ledger
<1>1. CASE WriteActive(t)
  BY <1>0, <1>1, GotoEffect, SMT DEF WriteActive, TxnOK, StageOK, FinishOK, FilesOK, Planned, Pending, Holding
<1>2. CASE WriteReceipt(t)
  <2>1. st[t] = "fence" /\ st'[t] = "marker" /\ rcpt[t] = "none" /\ rcpt'[t] = "prepared" /\ t \notin tomb /\ fin[t] = "idle"
    BY <1>0, <1>a, <1>2, GotoEffect DEF WriteReceipt, Types, StageOK, FinishOK
  <2>2. t \notin finished
    BY <1>0, <2>1 DEF DECISIONS, FinishOK
  <2>3. StageOK(t)'
    BY <1>0, <1>2, <2>1 DEF WriteReceipt, StageOK, Planned, Holding
  <2>4. FinishOK(t)'
    BY <1>0, <1>2, <2>1, <2>2 DEF WriteReceipt, FinishOK, DECISIONS, Retiring, Pending
  <2>5. FilesOK(t)'
    BY <1>0, <1>2, <2>1 DEF WriteReceipt, FilesOK, Pending
  <2> QED
    BY <2>3, <2>4, <2>5 DEF TxnOK
<1>3. CASE WriteMarker(t)
  <2>1. st[t] \in {"marker", "refence"} /\ st'[t] = "revmark" /\ Still(t)
    BY <1>0, <1>3, GotoEffect DEF WriteMarker, Still
  <2> QED
    BY <1>0, <2>1, TxnMoves DEF Holding
<1>4. CASE WriteRevMark(t)
  BY <1>0, <1>4, GotoEffect, SMT DEF WriteRevMark, TxnOK, StageOK, FinishOK, FilesOK, Planned, Pending, Holding
<1>5. CASE WriteRevision(t)
  BY <1>0, <1>5, GotoEffect, SMT DEF WriteRevision, TxnOK, StageOK, FinishOK, FilesOK, Planned, Pending, Holding
<1>6. CASE WritePointer(t)
  <2>1. st[t] = "pointer" /\ st'[t] = "answer" /\ Still(t)
    BY <1>0, <1>6, GotoEffect DEF WritePointer, Still
  <2> QED
    BY <1>0, <2>1, TxnMoves DEF Holding
<1>7. CASE StageAnswer(t)
  <2>1. st[t] = "answer" /\ st'[t] = "idle" /\ rcpt[t] = "prepared"
    BY <1>0, <1>7, GotoEffect DEF StageAnswer, StageOK, Holding
  <2>2. StageOK(t)'
    BY <1>0, <1>7, <2>1 DEF StageAnswer, StageOK, Planned, Holding
  <2>3. FinishOK(t)' /\ FilesOK(t)'
    BY <1>0, <1>7, <2>1 DEF StageAnswer, FinishOK, FilesOK, Pending
  <2> QED
    BY <2>2, <2>3 DEF TxnOK
<1>8. CASE StageCrash(t) /\ st[t] # "idle"
  <2>1. st'[t] = "idle" /\ Still(t)
    BY <1>0, <1>8, GotoEffect DEF StageCrash, Still
  <2> QED
    BY <1>0, <1>8, <2>1, TxnMoves
<1>9. CASE StageCrash(t) /\ st[t] = "idle"
  <2>1. Kept(t)
    BY <1>0, <1>9, GotoEffect DEF StageCrash, Kept, Still
  <2> QED
    BY <1>0, <2>1, TxnKept
<1>10. ASSUME NEW d \in Cards, ReserveRead(t, d) PROVE TxnOK(t)'
  <2>1. Kept(t)
    BY <1>10 DEF ReserveRead, Kept, Still
  <2> QED
    BY <1>0, <2>1, TxnKept
<1>11. ASSUME NEW d \in Cards, ReserveRefused(t, d) PROVE TxnOK(t)'
  <2>1. st[t] # "idle" /\ st'[t] = "idle" /\ Still(t)
    BY <1>0, <1>11, GotoEffect DEF ReserveRefused, Still
  <2> QED
    BY <1>0, <2>1, TxnMoves
<1> QED
  BY <1>1, <1>2, <1>3, <1>4, <1>5, <1>6, <1>7, <1>8, <1>9, <1>10, <1>11 DEF StageStep

LEMMA FinishTxn == ASSUME BaseInv, NEW t \in Txns, FinishEnter(t) \/ FinishStep(t) \/ FinishCrash(t) PROVE TxnOK(t)'
<1>0. Types /\ TxnOK(t) /\ StageOK(t) /\ FinishOK(t) /\ FilesOK(t) /\ fin[t] \in FinishSteps /\ rcpt[t] \in States
  BY DEF BaseInv, TxnInv, Types, TxnOK
<1>a. fin[t] # "idle" => st[t] = "idle"
  BY Exclusion, Scope DEF BaseInv
<1> USE DEF files, ledger
<1>1. CASE FinishEnter(t)
  <2>1. decision[t] \in DECISIONS
    BY <1>1 DEF FinishEnter
  <2>2. \/ fin'[t] = "tombstone" /\ rcpt[t] = "none"
        \/ fin'[t] = "receipt" /\ rcpt[t] = "prepared"
        \/ fin'[t] = "effects" /\ rcpt[t] = "committed"
        \/ fin'[t] = "retire" /\ rcpt[t] \in DECISIONS /\ (rcpt[t] = "committed" => Pending(t) = {})
    BY <1>0, <1>1, GotoEffect DEF FinishEnter
  <2>3. FinishOK(t)'
    BY <1>0, <1>1, <2>1, <2>2 DEF FinishEnter, FinishOK, Retiring, Pending
  <2>4. StageOK(t)' /\ FilesOK(t)'
    BY <1>0, <1>1 DEF FinishEnter, StageOK, FilesOK, Planned, Pending
  <2> QED
    BY <2>3, <2>4 DEF TxnOK
<1>2. CASE WriteTombstone(t)
  <2>1. fin[t] = "tombstone" /\ fin'[t] = "inactive" /\ rcpt[t] = "none" /\ st[t] = "idle"
    BY <1>0, <1>a, <1>2, GotoEffect DEF WriteTombstone, FinishOK
  <2>2. FinishOK(t)'
    BY <1>0, <1>2, <2>1 DEF WriteTombstone, FinishOK, Retiring, Pending
  <2>3. StageOK(t)' /\ FilesOK(t)'
    BY <1>0, <1>2 DEF WriteTombstone, StageOK, FilesOK, Planned, Pending
  <2> QED
    BY <2>2, <2>3 DEF TxnOK
<1>3. CASE WriteDecided(t)
  <2>1. fin[t] = "receipt" /\ rcpt[t] = "prepared" /\ st[t] = "idle" /\ decision[t] \in DECISIONS /\ rcpt'[t] = decision[t]
    BY <1>0, <1>a, <1>3 DEF WriteDecided, FinishOK, Types
  <2>2. \/ fin'[t] = "effects" /\ decision[t] = "committed"
        \/ fin'[t] = "retire" /\ (decision[t] = "committed" => Effects[t] = {})
    BY <1>0, <1>3, GotoEffect DEF WriteDecided
  <2>3. FinishOK(t)'
    BY <1>0, <1>3, <2>1, <2>2 DEF WriteDecided, FinishOK, Retiring, Pending, DECISIONS
  <2>4. StageOK(t)'
    BY <1>0, <1>3, <2>1 DEF WriteDecided, StageOK, Planned, Holding, DECISIONS
  <2>5. FilesOK(t)'
    BY <1>0, <1>3, <2>1 DEF WriteDecided, FilesOK, Pending
  <2> QED
    BY <2>3, <2>4, <2>5 DEF TxnOK
<1>4. CASE RetirePointer(t) \/ ClearMarker(t) \/ ReleaseReads(t)
  <2>1. fin[t] \in Retiring /\ fin'[t] \in (Retiring \cup {"inactive"}) \ {"idle"}
    BY <1>0, <1>4, GotoEffect, SMT DEF RetirePointer, ClearMarker, ReleaseReads, Retiring
  <2>2. FinishOK(t)'
    BY <1>0, <1>4, <2>1 DEF RetirePointer, ClearMarker, ReleaseReads, FinishOK, Retiring, Pending
  <2>3. StageOK(t)' /\ FilesOK(t)'
    BY <1>0, <1>4, SMT DEF RetirePointer, ClearMarker, ReleaseReads, StageOK, FilesOK, Planned, Pending
  <2> QED
    BY <2>2, <2>3 DEF TxnOK
<1>5. CASE DropRevMark(t)
  <2>1. fin[t] = "unmark" /\ fin'[t] = "clear" /\ st[t] = "idle" /\ (rcpt[t] = "committed" => Pending(t) = {})
    BY <1>0, <1>a, <1>5, GotoEffect DEF DropRevMark, FinishOK, Retiring
  <2>2. FinishOK(t)'
    BY <1>0, <1>5, <2>1 DEF DropRevMark, FinishOK, Retiring, Pending
  <2>3. StageOK(t)' /\ FilesOK(t)'
    BY <1>0, <1>5, <2>1 DEF DropRevMark, StageOK, FilesOK, Planned, Pending
  <2> QED
    BY <2>2, <2>3 DEF TxnOK
<1>6. CASE DropActive(t)
  <2>1. fin[t] = "inactive" /\ fin'[t] = "answer" /\ st[t] = "idle"
    BY <1>0, <1>a, <1>6, GotoEffect DEF DropActive
  <2>2. rcpt[t] # "prepared"
    BY <1>0, <2>1 DEF FinishOK, DECISIONS
  <2>3. FinishOK(t)'
    BY <1>0, <1>6, <2>1 DEF DropActive, FinishOK, Retiring, Pending
  <2>4. StageOK(t)' /\ FilesOK(t)'
    BY <1>0, <1>6, <2>1, <2>2 DEF DropActive, StageOK, FilesOK, Planned, Pending
  <2> QED
    BY <2>3, <2>4 DEF TxnOK
<1>7. CASE FinishAnswer(t) \/ FinishCrash(t)
  <2>1. fin'[t] = "idle" /\ (t \in finished' => t \in finished \/ fin[t] = "answer")
    BY <1>0, <1>7, GotoEffect DEF FinishAnswer, FinishCrash
  <2>2. FinishOK(t)'
    BY <1>0, <1>7, <2>1 DEF FinishAnswer, FinishCrash, FinishOK, Retiring, Pending
  <2>3. UNCHANGED <<decision, acked, plan, rcpt, active, revs, revmarks, world, applied, st>>
    BY <1>7 DEF FinishAnswer, FinishCrash
  <2>4. StageOK(t)'
    BY <1>0, <2>3 DEF StageOK, Planned
  <2>5. FilesOK(t)'
    BY <1>0, <2>3 DEF FilesOK, Pending
  <2> QED
    BY <2>2, <2>4, <2>5 DEF TxnOK
<1>8. ASSUME NEW e \in Effects[t], ApplyEffect(t, e) PROVE TxnOK(t)'
  <2>1. world'[t] = world[t] \cup {e}
    BY <1>0, <1>8 DEF ApplyEffect, Types
  <2>2. FilesOK(t)'
    BY <1>0, <1>8, <2>1 DEF ApplyEffect, FilesOK, Pending
  <2>3. StageOK(t)' /\ FinishOK(t)'
    BY <1>0, <1>8 DEF ApplyEffect, StageOK, FinishOK, Planned, Pending, procs
  <2> QED
    BY <2>2, <2>3 DEF TxnOK
<1>9. ASSUME NEW e \in Effects[t], RecordEffect(t, e) PROVE TxnOK(t)'
  <2>1. /\ fin[t] = "effects" /\ rcpt[t] = "committed" /\ e \in world[t] /\ st[t] = "idle"
        /\ applied'[t] = applied[t] \cup {e} /\ Pending(t)' = Pending(t) \ {e}
    BY <1>0, <1>a, <1>9 DEF RecordEffect, FinishOK, Types, Pending
  <2>2. fin'[t] = "effects" \/ (fin'[t] = "retire" /\ Pending(t)' = {})
    BY <1>0, <1>9, <2>1, GotoEffect DEF RecordEffect
  <2>3. FilesOK(t)'
    BY <1>0, <1>9, <2>1 DEF RecordEffect, FilesOK
  <2>4. FinishOK(t)'
    BY <1>0, <1>9, <2>1, <2>2 DEF RecordEffect, FinishOK, Retiring, DECISIONS
  <2>5. StageOK(t)'
    BY <1>0, <1>9 DEF RecordEffect, StageOK, Planned
  <2> QED
    BY <2>3, <2>4, <2>5 DEF TxnOK
<1> QED
  BY <1>1, <1>2, <1>3, <1>4, <1>5, <1>6, <1>7, <1>8, <1>9 DEF FinishStep

\* What a step never takes back: a plan, a receipt, a decision, an effect and its record.
Grows(u) == /\ Planned(u) => plan'[u] = plan[u]
            /\ rcpt[u] # "none" => rcpt'[u] # "none"
            /\ rcpt[u] \in DECISIONS => rcpt'[u] = rcpt[u]
            /\ decision[u] # "undecided" => decision'[u] = decision[u]
            /\ world[u] \subseteq world'[u] /\ applied[u] \subseteq applied'[u]

TxnStep(t) == \/ Plan(t) \/ Decide(t)
              \/ StageFresh(t) \/ StageResume(t) \/ StageReplay(t) \/ StageRefused(t)
              \/ StageStep(t) \/ StageCrash(t)
              \/ FinishEnter(t) \/ FinishStep(t) \/ FinishCrash(t)
CardStep(c) == MarkExpires(c) \/ CommitEnter(c) \/ CommitDurable(c) \/ CommitCrash(c)

LEMMA Steps == Next <=> (\E t \in Txns : TxnStep(t)) \/ (\E c \in Cards : CardStep(c))
BY DEF Next, TxnStep, CardStep

LEMMA KeptOthers == ASSUME Types, NEW t \in Txns, TxnStep(t), NEW u \in Txns, u # t PROVE Kept(u)
BY StageKeepsOthers, FinishKeepsOthers DEF TxnStep

LEMMA OwnGrows == ASSUME BaseInv, NEW t \in Txns, TxnStep(t) PROVE Grows(t)
<1>0. Types /\ StageOK(t) /\ FinishOK(t)
  BY DEF BaseInv, TxnInv
<1> USE DEF files, ledger, procs, Grows
<1>1. CASE Plan(t)
  BY <1>0, <1>1 DEF Plan
<1>2. CASE Decide(t)
  BY <1>0, <1>2 DEF Decide
<1>3. CASE StageFresh(t) \/ StageResume(t) \/ StageReplay(t) \/ StageRefused(t) \/ StageCrash(t)
  BY <1>3 DEF StageFresh, StageResume, StageReplay, StageRefused, StageCrash
<1>4. CASE WriteActive(t) \/ WriteMarker(t) \/ WriteRevMark(t) \/ WriteRevision(t) \/ WritePointer(t) \/ StageAnswer(t)
  BY <1>4 DEF WriteActive, WriteMarker, WriteRevMark, WriteRevision, WritePointer, StageAnswer
<1>5. CASE WriteReceipt(t)
  BY <1>0, <1>5 DEF WriteReceipt, StageOK, DECISIONS, Types
<1>6. CASE \E d \in Cards : ReserveRead(t, d) \/ ReserveRefused(t, d)
  BY <1>6 DEF ReserveRead, ReserveRefused
<1>7. CASE FinishEnter(t) \/ FinishCrash(t) \/ FinishAnswer(t)
  BY <1>7 DEF FinishEnter, FinishCrash, FinishAnswer
<1>8. CASE WriteTombstone(t) \/ RetirePointer(t) \/ DropRevMark(t) \/ ClearMarker(t) \/ ReleaseReads(t) \/ DropActive(t)
  BY <1>8 DEF WriteTombstone, RetirePointer, DropRevMark, ClearMarker, ReleaseReads, DropActive
<1>9. CASE WriteDecided(t)
  BY <1>0, <1>9 DEF WriteDecided, FinishOK, DECISIONS, Types
<1>10. CASE \E e \in Effects[t] : ApplyEffect(t, e) \/ RecordEffect(t, e)
  BY <1>0, <1>10, SMT DEF ApplyEffect, RecordEffect, Types
<1> QED
  BY <1>1, <1>2, <1>3, <1>4, <1>5, <1>6, <1>7, <1>8, <1>9, <1>10 DEF TxnStep, StageStep, FinishStep

LEMMA Grow == ASSUME BaseInv, [Next]_vars PROVE \A u \in Txns : Grows(u)
<1>1. ASSUME NEW t \in Txns, TxnStep(t), NEW u \in Txns PROVE Grows(u)
  <2>1. CASE u = t
    BY <1>1, <2>1, OwnGrows
  <2>2. CASE u # t
    BY <1>1, <2>2, KeptOthers DEF Kept, Still, Grows, BaseInv
  <2> QED
    BY <2>1, <2>2
<1>2. ASSUME NEW c \in Cards, CardStep(c), NEW u \in Txns PROVE Grows(u)
  BY <1>2, CommitKeepsOthers DEF CardStep, Kept, Still, Grows
<1>3. ASSUME UNCHANGED vars, NEW u \in Txns PROVE Grows(u)
  BY <1>3 DEF vars, Grows
<1> QED
  BY <1>1, <1>2, <1>3, Steps

\* So a planned transaction's revisions stay what they are.
LEMMA BeforeStays ==
    ASSUME NEW u \in Txns, Grows(u), Planned(u)
    PROVE  Planned(u)' /\ Before(u)' = Before(u) /\ After(u)' = After(u) /\ Staged(u)' = Staged(u)
           /\ \A d : Expected(u, d)' = Expected(u, d)
<1>1. plan'[u] = plan[u]
  BY DEF Grows
<1>2. Before(u)' = Before(u) /\ Planned(u)' /\ \A d : Expected(u, d)' = Expected(u, d)
  BY <1>1 DEF Before, Planned, Expected
<1> QED
  BY <1>2 DEF After, Staged

\* Only these steps write a pointer, each that of one Card.
LEMMA PointerSteps ==
    ASSUME Types, [Next]_vars, NEW c \in Cards
    PROVE  \/ ptr'[c] = ptr[c]
           \/ \E t \in Txns : WritePointer(t) /\ c = Target[t] /\ ptr'[c] = Staged(t)
           \/ \E t \in Txns : RetirePointer(t) /\ c = Target[t] /\ ptr[c].tx = t
                              /\ ptr'[c] = Plain(IF rcpt[t] = "committed" THEN After(t) ELSE Before(t))
           \/ CommitDurable(c) /\ ptr'[c] = Plain([ResolveLocal(c) EXCEPT !.n = @ + 1])
<1> USE DEF files
<1>0. ptr \in [Cards -> Pointers]
  BY DEF Types
<1>1. ASSUME NEW t \in Txns, TxnStep(t), ~WritePointer(t), ~RetirePointer(t) PROVE ptr' = ptr
  <2>1. CASE Plan(t) \/ Decide(t) \/ StageFresh(t) \/ StageResume(t) \/ StageReplay(t) \/ StageRefused(t) \/ StageCrash(t)
    BY <2>1 DEF Plan, Decide, StageFresh, StageResume, StageReplay, StageRefused, StageCrash
  <2>2. CASE StageStep(t)
    BY <1>1, <2>2 DEF StageStep, WriteActive, WriteReceipt, WriteMarker, WriteRevMark, WriteRevision, StageAnswer, ReserveRead, ReserveRefused
  <2>3. CASE FinishEnter(t) \/ FinishCrash(t)
    BY <2>3 DEF FinishEnter, FinishCrash
  <2>4. CASE FinishStep(t)
    BY <1>1, <2>4 DEF FinishStep, WriteTombstone, WriteDecided, DropRevMark, ClearMarker, ReleaseReads, DropActive, FinishAnswer,
                      ApplyEffect, RecordEffect
  <2> QED
    BY <1>1, <2>1, <2>2, <2>3, <2>4 DEF TxnStep
<1>2. ASSUME NEW t \in Txns, WritePointer(t) PROVE ptr' = [ptr EXCEPT ![Target[t]] = Staged(t)]
  BY <1>2 DEF WritePointer
<1>3. ASSUME NEW t \in Txns, RetirePointer(t)
      PROVE  ptr' = IF ptr[Target[t]].tx = t
                    THEN [ptr EXCEPT ![Target[t]] = Plain(IF rcpt[t] = "committed" THEN After(t) ELSE Before(t))] ELSE ptr
  BY <1>3 DEF RetirePointer
<1>4. ASSUME NEW d \in Cards, CardStep(d), ~CommitDurable(d) PROVE ptr' = ptr
  BY <1>4 DEF CardStep, MarkExpires, CommitEnter, CommitCrash
<1>5. ASSUME NEW d \in Cards, CommitDurable(d)
      PROVE  ptr' = [ptr EXCEPT ![d] = Plain([ResolveLocal(d) EXCEPT !.n = @ + 1])]
  BY <1>5 DEF CommitDurable
<1>6. CASE UNCHANGED vars
  BY <1>6 DEF vars
<1>7. CASE \E t \in Txns : TxnStep(t)
  <2>1. PICK t \in Txns : TxnStep(t)
    BY <1>7
  <2>2. CASE WritePointer(t)
    BY <1>0, <1>2, <2>2
  <2>3. CASE RetirePointer(t)
    BY <1>0, <1>3, <2>3, SMT
  <2> QED
    BY <1>1, <2>1, <2>2, <2>3
<1>8. CASE \E d \in Cards : CardStep(d)
  <2>1. PICK d \in Cards : CardStep(d)
    BY <1>8
  <2>2. CASE CommitDurable(d)
    <3>1. CASE c = d
      BY <1>0, <1>5, <2>2, <3>1
    <3>2. CASE c # d
      BY <1>0, <1>5, <2>2, <3>2
    <3> QED
      BY <3>1, <3>2
  <2> QED
    BY <1>4, <2>1, <2>2
<1> QED
  BY <1>6, <1>7, <1>8, Steps

\* A pointer that is not written keeps what it says.
LEMMA PtrStays ==
    ASSUME BaseInv, NEW c \in Cards, ptr'[c] = ptr[c], \A u \in Txns : Grows(u)
    PROVE  PtrOK(c)'
<1>1. CASE ptr[c].tx = NoTxn
  BY <1>1 DEF PtrOK
<1>2. CASE ptr[c].tx # NoTxn
  <2>1. ptr[c].tx \in Txns /\ Planned(ptr[c].tx) /\ PtrOK(c)
    BY <1>2, NamedTxn DEF BaseInv, PtrInv
  <2>2. PICK u \in Txns : u = ptr[c].tx
    BY <2>1
  <2>3. Planned(u) /\ Grows(u) /\ Target[u] = c /\ rcpt[u] # "none" /\ ptr[c] = Staged(u)
    BY <1>2, <2>1, <2>2 DEF PtrOK
  <2>4. Staged(u)' = Staged(u) /\ rcpt'[u] # "none"
    BY <2>3, BeforeStays DEF Grows
  <2> QED
    BY <2>2, <2>3, <2>4 DEF PtrOK
<1> QED
  BY <1>1, <1>2

LEMMA PtrStep == ASSUME BaseInv, [Next]_vars PROVE PtrInv'
<1> SUFFICES ASSUME NEW c \in Cards PROVE PtrOK(c)'
  BY DEF PtrInv
<1>0. Types /\ TxnInv /\ (\A u \in Txns : Grows(u))
  BY Grow DEF BaseInv
<1>1. CASE ptr'[c] = ptr[c]
  BY <1>0, <1>1, PtrStays
<1>2. ASSUME NEW t \in Txns, WritePointer(t), c = Target[t], ptr'[c] = Staged(t) PROVE PtrOK(c)'
  <2>1. rcpt[t] = "prepared" /\ Planned(t)
    BY <1>0, <1>2 DEF WritePointer, TxnInv, StageOK, Holding
  <2>2. Staged(t)' = Staged(t) /\ rcpt'[t] # "none"
    BY <1>0, <2>1, BeforeStays DEF Grows
  <2>3. Staged(t).tx = t
    BY DEF Staged
  <2> QED
    BY <1>2, <2>2, <2>3 DEF PtrOK
<1>3. ASSUME NEW r, ptr'[c] = Plain(r) PROVE PtrOK(c)'
  BY <1>3, SMT DEF PtrOK, Plain
<1> QED
  BY <1>0, <1>1, <1>2, <1>3, PointerSteps

\* The first layer is inductive.
LEMMA BaseStep == ASSUME BaseInv, [Next]_vars PROVE BaseInv'
<1>0. Types /\ SectionInv /\ TxnInv
  BY DEF BaseInv
<1>1. PtrInv'
  BY PtrStep
<1>2. ASSUME NEW t \in Txns, TxnStep(t) PROVE Types' /\ SectionInv' /\ TxnInv'
  <2>1. Types'
    BY <1>2, StartTypes, StageTypes, FinishTypes DEF TxnStep
  <2>2. SectionInv'
    BY <1>2, TxnSections DEF TxnStep
  <2>3. TxnOK(t)'
    BY <1>2, StartTxn, StageTxn, FinishTxn DEF TxnStep
  <2>4. ASSUME NEW u \in Txns, u # t PROVE TxnOK(u)'
    BY <1>0, <1>2, <2>4, KeptOthers, TxnKept DEF TxnInv, TxnOK
  <2> QED
    BY <2>1, <2>2, <2>3, <2>4 DEF TxnInv, TxnOK
<1>3. ASSUME NEW c \in Cards, CardStep(c) PROVE Types' /\ SectionInv' /\ TxnInv'
  <2>1. Types' /\ SectionInv'
    BY <1>3, CommitTypes, CommitSections DEF CardStep
  <2>2. ASSUME NEW u \in Txns PROVE TxnOK(u)'
    BY <1>0, <1>3, CommitKeepsOthers, TxnKept DEF TxnInv, TxnOK, CardStep
  <2> QED
    BY <2>1, <2>2 DEF TxnInv, TxnOK
<1>4. CASE UNCHANGED vars
  <2>1. Types'
    BY <1>0, <1>4 DEF vars, Types
  <2>2. SectionInv'
    BY <1>0, <1>4 DEF vars, SectionInv
  <2>3. ASSUME NEW u \in Txns PROVE TxnOK(u)'
    BY <1>0, <1>4, TxnKept DEF vars, TxnInv, TxnOK, Kept, Still
  <2> QED
    BY <1>1, <2>1, <2>2, <2>3 DEF TxnInv, TxnOK, BaseInv
<1> QED
  BY <1>1, <1>2, <1>3, <1>4, Steps DEF BaseInv

\* The sections exclude one another, so the step STAGE or FINISH is at says what
\* is in the receipt, the index, the tombstone and the pointer.
THEOREM BaseInductive == Spec => []BaseInv
BY InitBase, BaseStep, PTL DEF Spec

\* Every fence is found again by recovery: a prepared receipt has its index
\* entry, whatever crashed.
THEOREM FenceFound == Spec => []FenceIsIndexed
<1>1. BaseInv => FenceIsIndexed
  BY DEF BaseInv, TxnInv, StageOK, FenceIsIndexed
<1> QED
  BY <1>1, BaseInductive, PTL

KnownFinished == finished \subseteq Txns

\* Once FINISH has answered, no late or replayed stage opens the transaction again.
THEOREM FinishedStays == Spec => []FinishedHoldsNothing
<1>1. BaseInv /\ KnownFinished => FinishedHoldsNothing
  BY DEF KnownFinished, BaseInv, TxnInv, StageOK, FinishOK, Holding, DECISIONS, FinishedHoldsNothing
<1>2. Init => KnownFinished
  BY DEF Init, KnownFinished
<1>3. KnownFinished /\ [Next]_vars => KnownFinished'
  <2> USE DEF ledger, KnownFinished
  <2>1. ASSUME KnownFinished, NEW t \in Txns, TxnStep(t) PROVE KnownFinished'
    BY <2>1 DEF TxnStep, Plan, Decide, StageFresh, StageResume, StageReplay, StageRefused, StageCrash, StageStep, WriteActive,
       WriteReceipt, WriteMarker, WriteRevMark, WriteRevision, WritePointer, StageAnswer, ReserveRead, ReserveRefused,
       FinishEnter, FinishCrash, FinishStep, WriteTombstone, WriteDecided, RetirePointer, DropRevMark, ClearMarker, ReleaseReads,
       DropActive, FinishAnswer, ApplyEffect, RecordEffect
  <2>2. ASSUME NEW c \in Cards, CardStep(c) PROVE finished' = finished
    BY <2>2 DEF CardStep, MarkExpires, CommitEnter, CommitDurable, CommitCrash
  <2> QED
    BY <2>1, <2>2, Steps DEF vars
<1> QED
  BY <1>1, <1>2, <1>3, BaseInductive, PTL DEF Spec

\* A staged revision never shows in history before its commit with all effects,
\* nor ever after an abort, whichever write a crash interrupted.
THEOREM HistoryIsCommitted == Spec => []HistoryCommitted
<1>1. ASSUME BaseInv, NEW t \in Txns, NEW a \in PortAnswers(t), HistoryShows(t, a)
      PROVE  decision[t] = "committed" /\ world[t] = Effects[t]
  <2>0. StageOK(t) /\ FinishOK(t) /\ FilesOK(t)
    BY <1>1 DEF BaseInv, TxnInv
  <2>1. rcpt[t] \in DECISIONS => rcpt[t] = decision[t]
    BY <2>0 DEF FinishOK
  <2>2. applied[t] \subseteq world[t] /\ world[t] \subseteq Effects[t]
    BY <2>0 DEF FilesOK
  <2>3. CASE t \in revmarks
    <3>1. Authoritative(t, a) = "committed" /\ ~EffectsOutstanding(t)
      BY <1>1, <2>3 DEF HistoryShows
    <3>2. decision[t] = "committed"
      BY <1>1, <2>1, <3>1 DEF Authoritative, PortAnswers, DECISIONS
    <3> QED
      BY <2>2, <3>1, <3>2 DEF EffectsOutstanding, Pending
  <2>4. CASE t \notin revmarks
    <3>1. rcpt[t] = "committed" /\ Pending(t) = {}
      BY <1>1, <2>0, <2>4 DEF HistoryShows, FilesOK
    <3> QED
      BY <2>1, <2>2, <3>1 DEF Pending, DECISIONS
  <2> QED
    BY <2>3, <2>4
<1>2. BaseInv => HistoryCommitted
  BY <1>1 DEF HistoryCommitted
<1> QED
  BY <1>2, BaseInductive, PTL

\* The second layer.  A transaction none of whose effects is outstanding has them all in the world.
LEMMA Delivered ==
    ASSUME BaseInv, NEW t \in Txns, ~EffectsOutstanding(t) \/ Pending(t) = {}
    PROVE  world[t] = Effects[t]
BY DEF BaseInv, TxnInv, FilesOK, EffectsOutstanding, Pending

\* A good revision stays good.
LEMMA GoodStays ==
    ASSUME BaseInv, BaseInv', NEW r \in Rev, Good(r), \A u \in Txns : Grows(u)
    PROVE  Good(r)'
<1> SUFFICES ASSUME NEW u \in r.in PROVE decision'[u] = "committed" /\ world'[u] = Effects[u]
  BY DEF Good
<1>1. u \in Txns /\ decision[u] = "committed" /\ world[u] = Effects[u]
  BY DEF Rev, Good
<1>2. decision'[u] = "committed" /\ world[u] \subseteq world'[u]
  BY <1>1 DEF Grows
<1>3. world'[u] \subseteq Effects[u]
  BY <1>1 DEF BaseInv, TxnInv, FilesOK
<1> QED
  BY <1>1, <1>2, <1>3

\* So do the revisions a pointer and a plan name.
LEMMA GoodNames ==
    ASSUME BaseInv, BaseInv', ContentInv, \A u \in Txns : Grows(u)
    PROVE  /\ \A c \in Cards : ptr'[c] = ptr[c] => Good(ptr[c].rev)'
           /\ \A t \in Txns : Planned(t) => Good(Before(t))'
<1>1. ASSUME NEW c \in Cards, ptr'[c] = ptr[c] PROVE Good(ptr[c].rev)'
  <2>1. ptr[c].rev \in Rev /\ Good(ptr[c].rev)
    BY DEF BaseInv, Types, Pointers, ContentInv
  <2>2. PICK r \in Rev : r = ptr[c].rev
    BY <2>1
  <2>3. Good(r)'
    BY <2>1, <2>2, GoodStays
  <2> QED
    BY <1>1, <2>2, <2>3 DEF Good
<1>2. ASSUME NEW t \in Txns, Planned(t) PROVE Good(Before(t))'
  <2>1. Before(t) \in Rev /\ Good(Before(t))
    BY <1>2, BeforeType DEF BaseInv, ContentInv
  <2>2. PICK r \in Rev : r = Before(t)
    BY <2>1
  <2>3. Good(r)'
    BY <2>1, <2>2, GoodStays
  <2>4. Before(t)' = r
    BY <1>2, <2>2, BeforeStays
  <2> QED
    BY <2>3, <2>4 DEF Good
<1> QED
  BY <1>1, <1>2

\* AFTER of a committed transaction with its effects is good.
LEMMA AfterGood ==
    ASSUME BaseInv, ContentInv, NEW t \in Txns, Planned(t), decision[t] = "committed",
           ~EffectsOutstanding(t) \/ Pending(t) = {}
    PROVE  Good(After(t))
<1>1. world[t] = Effects[t]
  BY Delivered
<1>2. Good(Before(t)) /\ After(t).in = Before(t).in \cup {t}
  BY BeforeType DEF ContentInv, BaseInv
<1> QED
  BY <1>1, <1>2 DEF Good

\* Whatever a writer or a reader resolves is good.
LEMMA LocalGood == ASSUME BaseInv, ContentInv, NEW c \in Cards PROVE Good(ResolveLocal(c))
<1>1. CASE ptr[c].tx = NoTxn
  BY <1>1 DEF ContentInv, ResolveLocal
<1>2. CASE ptr[c].tx # NoTxn
  <2>1. PICK t \in Txns : t = ptr[c].tx /\ Planned(t)
    BY <1>2, NamedTxn
  <2>2. rcpt[t] = "committed" => decision[t] = "committed"
    BY DEF BaseInv, TxnInv, FinishOK, DECISIONS
  <2> QED
    BY <1>2, <2>1, <2>2, AfterGood DEF ContentInv, ResolveLocal
<1> QED
  BY <1>1, <1>2

LEMMA ServingGood == ASSUME BaseInv, ContentInv, NEW c \in Cards, NEW r \in Serving(c) PROVE Good(r)
<1>1. CASE ptr[c].tx = NoTxn
  BY <1>1, ServingIs DEF ContentInv
<1>2. CASE ptr[c].tx # NoTxn
  <2>1. PICK t \in Txns : t = ptr[c].tx /\ Planned(t)
    BY <1>2, NamedTxn
  <2> QED
    BY <1>2, <2>1, ServingIs, AfterGood DEF ContentInv
<1> QED
  BY <1>1, <1>2

\* The second layer is inductive: no pointer and no plan ever names a revision
\* with a change that is not committed with all its effects.
LEMMA InitContent == Init => ContentInv
<1> SUFFICES ASSUME Init PROVE ContentInv
  OBVIOUS
<1>1. ASSUME NEW c \in Cards PROVE ptr[c].rev.in = {}
  <2>1. ptr[c] = Plain(First)
    BY <1>1 DEF Init
  <2> QED
    BY <2>1, SMT DEF Plain, First
<1>2. \A t \in Txns : ~Planned(t)
  BY DEF Init, Planned
<1> QED
  BY <1>1, <1>2 DEF ContentInv, Good

LEMMA ContentStep == ASSUME BaseInv, ContentInv, [Next]_vars PROVE ContentInv'
<1>0. BaseInv' /\ Types /\ TxnInv /\ \A u \in Txns : Grows(u)
  BY BaseStep, Grow DEF BaseInv
<1>1. ASSUME NEW c \in Cards PROVE Good(ptr[c].rev)'
  <2>1. CASE ptr'[c] = ptr[c]
    BY <1>0, <2>1, GoodNames
  <2>2. ASSUME NEW t \in Txns, WritePointer(t), c = Target[t], ptr'[c] = Staged(t) PROVE Good(ptr[c].rev)'
    <3>1. Planned(t)
      BY <1>0, <2>2 DEF WritePointer, TxnInv, StageOK
    <3>2. Good(Before(t))' /\ Before(t)' = Before(t)
      BY <1>0, <3>1, GoodNames, BeforeStays
    <3>3. ptr'[c].rev = Before(t)'
      BY <2>2, <3>2, SMT DEF Staged
    <3> QED
      BY <3>2, <3>3 DEF Good
  <2>3. ASSUME NEW r \in Rev, Good(r), ptr'[c] = Plain(r) PROVE Good(ptr[c].rev)'
    <3>1. ptr'[c].rev = r
      BY <2>3, SMT DEF Plain
    <3>2. Good(r)'
      BY <1>0, <2>3, GoodStays
    <3> QED
      BY <3>1, <3>2 DEF Good
  <2>4. ASSUME NEW t \in Txns, RetirePointer(t), c = Target[t],
               ptr'[c] = Plain(IF rcpt[t] = "committed" THEN After(t) ELSE Before(t))
        PROVE  Good(ptr[c].rev)'
    <3>1. fin[t] = "retire" /\ StageOK(t) /\ FinishOK(t)
      BY <1>0, <2>4 DEF RetirePointer, TxnInv
    <3>2. rcpt[t] = decision[t] /\ (rcpt[t] = "committed" => Pending(t) = {}) /\ Planned(t)
      BY <3>1 DEF StageOK, FinishOK, Retiring, DECISIONS
    <3>3. After(t) \in Rev /\ Before(t) \in Rev /\ Good(Before(t)) /\ (rcpt[t] = "committed" => Good(After(t)))
      BY <1>0, <3>2, BeforeType, AfterGood DEF ContentInv
    <3> QED
      BY <2>3, <2>4, <3>3
  <2>5. ASSUME ptr'[c] = Plain([ResolveLocal(c) EXCEPT !.n = @ + 1]) PROVE Good(ptr[c].rev)'
    <3>1. PICK q \in Rev : q = ResolveLocal(c) /\ Good(q)
      BY LocalType, LocalGood
    <3>2. [q EXCEPT !.n = @ + 1] \in Rev /\ Good([q EXCEPT !.n = @ + 1])
      BY <3>1, SMT DEF Rev, Good
    <3> QED
      BY <2>3, <2>5, <3>1, <3>2
  <2> QED
    BY <1>0, <2>1, <2>2, <2>4, <2>5, PointerSteps
<1>2. ASSUME NEW t \in Txns, Planned(t)' PROVE Good(Before(t))'
  <2>1. CASE Planned(t)
    BY <1>0, <2>1, GoodNames, BeforeStays DEF Good
  <2>2. CASE ~Planned(t)
    <3>1. plan'[t] # plan[t]
      BY <1>2, <2>2 DEF Planned
    <3>2. Plan(t)
      <4>1. CASE UNCHANGED vars
        BY <3>1, <4>1 DEF vars
      <4>2. ASSUME NEW c \in Cards, CardStep(c) PROVE plan' = plan
        BY <4>2 DEF CardStep, MarkExpires, CommitEnter, CommitDurable, CommitCrash
      <4>3. ASSUME NEW u \in Txns, TxnStep(u), ~Plan(u) PROVE plan' = plan
        BY <4>3 DEF TxnStep, Decide, StageFresh, StageResume, StageReplay, StageRefused, StageCrash, StageStep, WriteActive,
           WriteReceipt, WriteMarker, WriteRevMark, WriteRevision, WritePointer, StageAnswer, ReserveRead, ReserveRefused,
           FinishEnter, FinishCrash, FinishStep, WriteTombstone, WriteDecided, RetirePointer, DropRevMark, ClearMarker, ReleaseReads,
           DropActive, FinishAnswer, ApplyEffect, RecordEffect
      <4>4. ASSUME NEW u \in Txns, TxnStep(u), u # t PROVE plan'[t] = plan[t]
        BY <1>0, <4>4, KeptOthers DEF Kept, Still
      <4> QED
        BY <3>1, <4>1, <4>2, <4>3, <4>4, Steps
    <3>3. PICK before \in Serving(Target[t]), reads \in [Reads[t] -> 1..MaxRev] :
            plan' = [plan EXCEPT ![t] = {[before |-> before, reads |-> reads]}]
      BY <3>2 DEF Plan
    <3>4. plan'[t] = {[before |-> before, reads |-> reads]}
      BY <1>0, <3>3 DEF Types
    <3>5. Before(t)' = before
      <4>1. PICK p : p = [before |-> before, reads |-> reads]
        OBVIOUS
      <4>2. (CHOOSE r \in {p} : TRUE) = p
        OBVIOUS
      <4>3. p.before = before
        BY <4>1
      <4> QED
        BY <3>4, <4>1, <4>2, <4>3 DEF Before
    <3>6. before \in Rev /\ Good(before)
      BY <3>3, Scope, ServingIs, ServingGood
    <3>7. Good(before)'
      BY <1>0, <3>6, GoodStays
    <3> QED
      BY <3>5, <3>7 DEF Good
  <2> QED
    BY <2>1, <2>2
<1> QED
  BY <1>1, <1>2 DEF ContentInv

\* Pointers and plans name only committed revisions with all their effects.
THEOREM ContentInductive == Spec => []ContentInv
BY InitContent, ContentStep, BaseInductive, PTL DEF Spec

\* A reader beside the participant takes no step of the participant's, ...
LEMMA ReadRefines == ReadSpec => Spec
<1>1. ReadInit => Init
  BY DEF ReadInit
<1>2. [ReadNext]_readVars => [Next]_vars
  BY DEF ReadNext, readVars, vars
<1> QED
  BY <1>1, <1>2, PTL DEF ReadSpec, Spec

\* ... and what it holds stays true while FINISH and other writers go on.
LEMMA ReadKept ==
    ASSUME BaseInv, BaseInv', ReadOK, \A u \in Txns : Grows(u), rvars' = rvars
    PROVE  ReadOK'
<1>0. rpc' = rpc /\ rcard' = rcard /\ rptr' = rptr /\ rstate' = rstate /\ rlocal' = rlocal
  BY DEF rvars
<1>1. CASE rpc = "idle"
  BY <1>0, <1>1 DEF ReadOK
<1>2. CASE rpc # "idle" /\ rptr.tx = NoTxn
  <2>1. PICK p \in Pointers : p = rptr /\ Good(p.rev)
    BY <1>2 DEF ReadOK
  <2>2. Good(p.rev)'
    BY <2>1, GoodStays DEF Pointers
  <2> QED
    BY <1>0, <1>2, <2>1, <2>2 DEF ReadOK, Good
<1>3. CASE rpc # "idle" /\ rptr.tx # NoTxn
  <2>1. PICK p \in Pointers : p = rptr /\ Good(p.rev)
    BY <1>3 DEF ReadOK
  <2>2. Good(p.rev)'
    BY <2>1, GoodStays DEF Pointers
  <2>3. PICK t \in Txns : t = rptr.tx
    BY <1>3, <2>1 DEF Pointers
  <2>4. Target[t] = rcard /\ rptr = Staged(t) /\ rcpt[t] # "none" /\ Planned(t)
    BY <1>3, <2>3 DEF ReadOK, BaseInv, TxnInv, StageOK
  <2>5. Staged(t)' = Staged(t) /\ rcpt'[t] # "none" /\ Grows(t)
    BY <2>4, BeforeStays DEF Grows
  <2>6. /\ decision[t] \in DECISIONS => decision'[t] = decision[t]
        /\ rcpt[t] \in DECISIONS => rcpt'[t] = rcpt[t]
    BY <2>5 DEF Grows, DECISIONS
  <2>7. world[t] = Effects[t] => world'[t] = Effects[t]
    BY <2>5 DEF Grows, BaseInv, TxnInv, FilesOK
  <2>8. /\ rstate \in DECISIONS => rstate = decision'[t]
        /\ rlocal => rcpt'[t] \in DECISIONS
    BY <1>3, <2>3, <2>6 DEF ReadOK
  <2>9. rpc = "load" => rstate \in DECISIONS /\ (rstate = "committed" => world'[t] = Effects[t])
    BY <1>3, <2>3, <2>7 DEF ReadOK
  <2>10. Good(rptr.rev)' /\ rptr' \in Pointers
    BY <1>0, <2>1, <2>2 DEF Good
  <2> QED
    BY <1>0, <1>3, <2>3, <2>4, <2>5, <2>8, <2>9, <2>10 DEF ReadOK
<1> QED
  BY <1>1, <1>2, <1>3

LEMMA ReadGoes == ASSUME BaseInv, ContentInv, ReadOK, ReaderStep, vars' = vars PROVE ReadOK'
<1>0. /\ ptr' = ptr /\ rcpt' = rcpt /\ decision' = decision /\ world' = world /\ plan' = plan
  BY DEF vars
<1>a. \A r : Good(r)' <=> Good(r)
  BY <1>0 DEF Good
<1>b. \A t : Staged(t)' = Staged(t)
  BY <1>0 DEF Staged, Before
<1>1. CASE ReadPointer
  <2>1. PICK c \in Cards : rcard' = c /\ rptr' = ptr[c]
    BY <1>1 DEF ReadPointer
  <2>2. rpc' = (IF rptr'.tx = NoTxn THEN "load" ELSE "receipt") /\ rstate' = "none" /\ ~rlocal'
    BY <1>1 DEF ReadPointer, ReadOK
  <2>3. rptr' \in Pointers /\ Good(rptr'.rev) /\ PtrOK(c)
    BY <2>1 DEF BaseInv, Types, ContentInv, PtrInv
  <2>4. Good(rptr.rev)'
    BY <1>0, <2>3 DEF Good
  <2>5. rptr'.tx # NoTxn => Target[rptr'.tx] = c /\ rptr' = Staged(rptr'.tx) /\ rcpt[rptr'.tx] # "none"
    BY <2>1, <2>3 DEF PtrOK
  <2> QED
    BY <1>0, <1>b, <2>1, <2>2, <2>3, <2>4, <2>5 DEF ReadOK, DECISIONS
<1>2. CASE ReadReceipt
  <2>1. /\ rpc = "receipt" /\ rpc' = "decision" /\ rcard' = rcard /\ rptr' = rptr /\ rptr.tx # NoTxn
        /\ rstate' = rcpt[rptr.tx] /\ rlocal' = (rcpt[rptr.tx] \in DECISIONS)
    BY <1>2 DEF ReadReceipt, ReadOK
  <2>2. rptr.tx \in Txns
    BY <2>1 DEF ReadOK, Pointers
  <2>3. rcpt[rptr.tx] \in DECISIONS => rcpt[rptr.tx] = decision[rptr.tx]
    BY <2>2 DEF BaseInv, TxnInv, FinishOK
  <2> QED
    BY <1>0, <1>a, <1>b, <2>1, <2>3 DEF ReadOK, Good
<1>3. CASE AskDecision
  <2>0. /\ rpc = "decision" /\ rcard' = rcard /\ rptr.tx # NoTxn
        /\ rstate \in DECISIONS => rstate = decision[rptr.tx]
    BY <1>3 DEF AskDecision, ReadOK
  <2>1. CASE Ended
    BY <2>0, <2>1 DEF Ended, ReadOK
  <2>2. CASE ~Ended
    <3>1. PICK a \in IF rstate \in DECISIONS THEN {rstate} ELSE PortAnswers(rptr.tx) :
            \/ a = "aborted" /\ rpc' = "load" /\ rstate' = a /\ UNCHANGED <<rlocal, rptr, floor>>
            \/ a = "committed" /\ rpc' = "effects" /\ rstate' = a /\ UNCHANGED <<rlocal, rptr, floor>>
      BY <1>3, <2>2 DEF AskDecision
    <3>2. a = decision[rptr.tx]
      BY <2>0, <3>1 DEF PortAnswers, DECISIONS
    <3> QED
      BY <1>0, <1>a, <1>b, <2>0, <3>1, <3>2, SMT DEF ReadOK, DECISIONS, Good
  <2> QED
    BY <2>1, <2>2
<1>4. CASE CheckEffects
  <2>0. rpc = "effects" /\ rcard' = rcard /\ rptr.tx # NoTxn /\ rstate = "committed"
    BY <1>4 DEF CheckEffects, ReadOK
  <2>1. CASE Ended
    BY <2>0, <2>1 DEF Ended, ReadOK
  <2>2. CASE ~Ended
    <3>1. /\ rpc' = "load" /\ UNCHANGED <<rstate, rlocal, rptr>>
          /\ Effects[rptr.tx] = {} \/ (rlocal /\ Pending(rptr.tx) = {})
      BY <1>4, <2>2 DEF CheckEffects
    <3>2. rptr.tx \in Txns
      BY <2>0 DEF ReadOK, Pointers
    <3>3. world[rptr.tx] = Effects[rptr.tx]
      BY <3>1, <3>2, Delivered DEF EffectsOutstanding
    <3> QED
      BY <1>0, <1>a, <1>b, <2>0, <3>1, <3>3 DEF ReadOK, DECISIONS, Good
  <2> QED
    BY <2>1, <2>2
<1>5. CASE LoadRevision
  BY <1>5 DEF LoadRevision, Ended, ReadOK
<1> QED
  BY <1>1, <1>2, <1>3, <1>4, <1>5 DEF ReaderStep

\* A read that takes no section returns a revision whose transactions are all
\* committed with all their effects, however its reads of pointer, receipt,
\* decision and effects interleave with FINISH.
THEOREM ReadsCommitted == ReadSpec => []ReadReturnsCommitted
<1>1. ReadInit => ReadOK
  BY DEF ReadInit, ReadOK
<1>2. BaseInv /\ BaseInv' /\ ContentInv /\ ReadOK /\ [ReadNext]_readVars => ReadOK'
  <2> SUFFICES ASSUME BaseInv, BaseInv', ContentInv, ReadOK, [ReadNext]_readVars PROVE ReadOK'
    OBVIOUS
  <2>1. CASE [Next]_vars /\ rvars' = rvars
    BY <2>1, Grow, ReadKept
  <2>2. CASE ReaderStep /\ vars' = vars
    BY <2>2, ReadGoes
  <2> QED
    BY <2>1, <2>2 DEF ReadNext, readVars
<1>3. BaseInv /\ ContentInv /\ ReadOK => ReadReturnsCommitted
  <2> SUFFICES ASSUME BaseInv, ContentInv, ReadOK, rpc = "load" PROVE Good(Named)
    BY DEF ReadReturnsCommitted, Good
  <2>1. CASE rptr.tx = NoTxn
    BY <2>1 DEF ReadOK, Named
  <2>2. CASE rptr.tx # NoTxn
    <3>1. PICK t \in Txns : t = rptr.tx
      BY <2>2 DEF ReadOK, Pointers
    <3>2. Planned(t) /\ rstate = decision[t] /\ (rstate = "committed" => world[t] = Effects[t])
      BY <2>2, <3>1 DEF ReadOK, BaseInv, TxnInv, StageOK
    <3>3. Good(Before(t)) /\ After(t).in = Before(t).in \cup {t}
      BY <3>2, BeforeType DEF ContentInv, BaseInv
    <3>4. rstate = "committed" => Good(After(t))
      BY <3>2, <3>3 DEF Good
    <3> QED
      BY <2>2, <3>1, <3>3, <3>4 DEF Named
  <2> QED
    BY <2>1, <2>2
<1> QED
  BY <1>1, <1>2, <1>3, ReadRefines, BaseInductive, ContentInductive, PTL DEF ReadSpec

\* The third layer.  Which steps change a transaction's receipt, decision, stage and acknowledgement.
LEMMA Movers ==
    ASSUME Types, [Next]_vars, NEW t \in Txns
    PROVE  /\ rcpt'[t] = rcpt[t] \/ WriteReceipt(t) \/ WriteDecided(t)
           /\ decision'[t] = decision[t] \/ Decide(t)
           /\ st'[t] = st[t] \/ st'[t] = "idle" \/ StageFresh(t) \/ StageResume(t) \/ StageStep(t)
           /\ t \in acked' => t \in acked \/ StageReplay(t) \/ StageAnswer(t)
<1> USE DEF files, ledger, procs
<1>1. CASE UNCHANGED vars
  BY <1>1 DEF vars
<1>2. ASSUME NEW c \in Cards, CardStep(c) PROVE Kept(t)
  BY <1>2, CommitKeepsOthers DEF CardStep
<1>3. ASSUME NEW u \in Txns, TxnStep(u), u # t PROVE Kept(t)
  BY <1>3, KeptOthers
<1>4. CASE TxnStep(t)
  <2>1. CASE Plan(t) \/ Decide(t) \/ StageReplay(t) \/ StageRefused(t)
    BY <2>1 DEF Plan, Decide, StageReplay, StageRefused
  <2>2. CASE StageFresh(t) \/ StageResume(t) \/ StageCrash(t)
    BY <2>2, GotoEffect DEF StageFresh, StageResume, StageCrash
  <2>3. CASE StageStep(t)
    BY <2>3 DEF StageStep, WriteActive, WriteReceipt, WriteMarker, WriteRevMark, WriteRevision, WritePointer, StageAnswer,
       ReserveRead, ReserveRefused
  <2>4. CASE FinishEnter(t) \/ FinishCrash(t)
    BY <2>4 DEF FinishEnter, FinishCrash
  <2>5. CASE FinishStep(t)
    BY <2>5 DEF FinishStep, WriteTombstone, WriteDecided, RetirePointer, DropRevMark, ClearMarker, ReleaseReads, DropActive,
       FinishAnswer, ApplyEffect, RecordEffect
  <2> QED
    BY <1>4, <2>1, <2>2, <2>3, <2>4, <2>5 DEF TxnStep
<1> QED
  BY <1>1, <1>2, <1>3, <1>4, Steps DEF Kept, Still

\* A step of STAGE from one stage to the next.
LEMMA StageMoves ==
    ASSUME Types, NEW t \in Txns, StageStep(t)
    PROVE  /\ st'[t] \in {"active", "fence"} => st[t] \in {"active", "fence"} /\ rcpt' = rcpt
           /\ st'[t] \notin {"idle", "answer"} => st[t] \notin {"idle", "answer"}
           /\ st'[t] = "answer" => WritePointer(t)
           /\ st'[t] # "active"
           /\ st'[t] # "marker" => st[t] # "marker" \/ WriteMarker(t)
<1> USE DEF files, ledger
<1>1. CASE WriteActive(t) \/ WriteReceipt(t) \/ WriteMarker(t) \/ WriteRevMark(t) \/ WriteRevision(t)
  BY <1>1, GotoEffect, SMT DEF WriteActive, WriteReceipt, WriteMarker, WriteRevMark, WriteRevision
<1>2. CASE WritePointer(t) \/ StageAnswer(t)
  <2>1. CASE WritePointer(t)
    <3>1. st[t] = "pointer" /\ st'[t] = "answer"
      BY <2>1, GotoEffect DEF WritePointer
    <3> QED
      BY <2>1, <3>1
  <2>2. CASE StageAnswer(t)
    <3>1. st[t] = "answer" /\ st'[t] = "idle"
      BY <2>2, GotoEffect DEF StageAnswer
    <3> QED
      BY <3>1
  <2> QED
    BY <1>2, <2>1, <2>2
<1>3. ASSUME NEW d \in Cards, ReserveRead(t, d) \/ ReserveRefused(t, d)
      PROVE  \/ st' = st /\ rcpt' = rcpt /\ st[t] \in {"fence", "refence"}
             \/ st'[t] = "idle" /\ st[t] \in {"fence", "refence"}
  BY <1>3, GotoEffect DEF ReserveRead, ReserveRefused
<1> QED
  BY <1>1, <1>2, <1>3 DEF StageStep

\* Settled pointers resolve to what the Card really has, ...
LEMMA CleanLocal == ASSUME BaseInv, NEW c \in Cards, Clean(c) PROVE ResolveLocal(c) = Logical(c)
<1>1. CASE ptr[c].tx = NoTxn
  BY <1>1 DEF ResolveLocal, Logical
<1>2. CASE ptr[c].tx # NoTxn
  <2>1. PICK t \in Txns : t = ptr[c].tx
    BY <1>2, NamedTxn
  <2>2. rcpt[t] \in DECISIONS /\ rcpt[t] = decision[t] /\ (rcpt[t] = "committed" => ~EffectsOutstanding(t))
    BY <1>2, <2>1 DEF Clean, BaseInv, TxnInv, FinishOK
  <2> QED
    BY <1>2, <2>1, <2>2 DEF ResolveLocal, Logical
<1> QED
  BY <1>1, <1>2

\* ... a pointer that may be replaced is settled, ...
LEMMA ReplaceableClean == ASSUME BaseInv, NEW c \in Cards, Replaceable(c) PROVE Clean(c)
<1>1. CASE ptr[c].tx # NoTxn
  <2>1. PICK t \in Txns : t = ptr[c].tx
    BY <1>1, NamedTxn
  <2>2. rcpt[t] # "none" /\ rcpt[t] \in States
    BY <1>1, <2>1 DEF BaseInv, PtrInv, PtrOK, Types
  <2> QED
    BY <1>1, <2>1, <2>2 DEF Replaceable, Clean, States
<1> QED
  BY <1>1 DEF Clean

\* ... and a settled pointer stays settled, and a Card what it is.
LEMMA CleanStays ==
    ASSUME BaseInv, NEW c \in Cards, Clean(c), ptr'[c] = ptr[c], \A u \in Txns : Grows(u)
    PROVE  Clean(c)' /\ Logical(c)' = Logical(c)
<1>1. CASE ptr[c].tx = NoTxn
  BY <1>1 DEF Clean, Logical
<1>2. CASE ptr[c].tx # NoTxn
  <2>1. PICK t \in Txns : t = ptr[c].tx /\ Planned(t)
    BY <1>2, NamedTxn
  <2>2. /\ rcpt[t] \in DECISIONS /\ rcpt[t] = decision[t]
        /\ rcpt[t] = "committed" => ~EffectsOutstanding(t)
    BY <1>2, <2>1 DEF Clean, BaseInv, TxnInv, FinishOK
  <2>3. rcpt'[t] = rcpt[t] /\ decision'[t] = decision[t] /\ applied[t] \subseteq applied'[t]
    BY <2>2 DEF Grows, DECISIONS
  <2>4. Before(t)' = Before(t) /\ After(t)' = After(t)
    BY <2>1, BeforeStays
  <2>5. ptr'[c].tx = t
    BY <2>1
  <2>6. rcpt'[t] = "committed" => ~EffectsOutstanding(t)'
    BY <2>2, <2>3 DEF EffectsOutstanding, Pending
  <2>7. Clean(c)'
    BY <2>2, <2>3, <2>5, <2>6 DEF Clean
  <2>8. Logical(c)' = Logical(c)
    BY <1>2, <2>1, <2>3, <2>4, <2>5 DEF Logical
  <2> QED
    BY <2>7, <2>8
<1> QED
  BY <1>1, <1>2

LEMMA PlainClean == ASSUME NEW c \in Cards, NEW r, ptr'[c] = Plain(r) PROVE Clean(c)' /\ Logical(c)' = r
BY SMT DEF Clean, Plain, Logical

\* Only STAGE and FINISH of a Card's own transactions write its marker.
LEMMA MarkerSteps ==
    ASSUME Types, [Next]_vars, NEW c \in Cards
    PROVE  \/ marker'[c] = marker[c]
           \/ \E t \in Txns : WriteMarker(t) /\ st[t] = "marker" /\ c = Target[t] /\ marker'[c] = t
           \/ \E t \in Txns : ClearMarker(t) /\ marker[c] = t
<1> USE DEF files
<1>0. marker \in [Cards -> Txns \cup {NoTxn}]
  BY DEF Types
<1>1. ASSUME NEW t \in Txns, TxnStep(t), ~WriteMarker(t), ~ClearMarker(t) PROVE marker' = marker
  <2>1. CASE Plan(t) \/ Decide(t) \/ StageFresh(t) \/ StageResume(t) \/ StageReplay(t) \/ StageRefused(t) \/ StageCrash(t)
    BY <2>1 DEF Plan, Decide, StageFresh, StageResume, StageReplay, StageRefused, StageCrash
  <2>2. CASE StageStep(t)
    BY <1>1, <2>2 DEF StageStep, WriteActive, WriteReceipt, WriteRevMark, WriteRevision, WritePointer, StageAnswer, ReserveRead, ReserveRefused
  <2>3. CASE FinishEnter(t) \/ FinishCrash(t)
    BY <2>3 DEF FinishEnter, FinishCrash
  <2>4. CASE FinishStep(t)
    BY <1>1, <2>4 DEF FinishStep, WriteTombstone, WriteDecided, RetirePointer, DropRevMark, ReleaseReads, DropActive, FinishAnswer,
                      ApplyEffect, RecordEffect
  <2> QED
    BY <1>1, <2>1, <2>2, <2>3, <2>4 DEF TxnStep
<1>2. ASSUME NEW t \in Txns, WriteMarker(t)
      PROVE  marker' = marker \/ (st[t] = "marker" /\ marker' = [marker EXCEPT ![Target[t]] = t])
  BY <1>2 DEF WriteMarker
<1>3. ASSUME NEW t \in Txns, ClearMarker(t)
      PROVE  marker' = marker \/ (marker[Target[t]] = t /\ marker' = [marker EXCEPT ![Target[t]] = NoTxn])
  BY <1>3 DEF ClearMarker
<1>4. ASSUME NEW d \in Cards, CardStep(d) PROVE marker' = marker
  BY <1>4 DEF CardStep, MarkExpires, CommitEnter, CommitDurable, CommitCrash
<1>5. CASE UNCHANGED vars
  BY <1>5 DEF vars
<1>6. CASE \E t \in Txns : TxnStep(t)
  <2>1. PICK t \in Txns : TxnStep(t)
    BY <1>6
  <2>2. CASE WriteMarker(t)
    BY <1>0, <1>2, <2>2
  <2>3. CASE ClearMarker(t)
    BY <1>0, <1>3, <2>3
  <2> QED
    BY <1>1, <2>1, <2>2, <2>3
<1> QED
  BY <1>4, <1>5, <1>6, Steps

\* A Card once overrun stays so, and a replay that meets another holder overruns it.
LEMMA Overruns ==
    ASSUME [Next]_vars
    PROVE  /\ overrun \subseteq overrun'
           /\ \A t \in Txns : StageResume(t) /\ marker[Target[t]] # t /\ ~Replaceable(Target[t]) => Target[t] \in overrun'
<1>1. ASSUME NEW t \in Txns, TxnStep(t), ~StageResume(t) PROVE overrun' = overrun
  <2>1. CASE Plan(t) \/ Decide(t) \/ StageFresh(t) \/ StageReplay(t) \/ StageRefused(t) \/ StageCrash(t)
    BY <2>1 DEF Plan, Decide, StageFresh, StageReplay, StageRefused, StageCrash
  <2>2. CASE StageStep(t)
    BY <2>2 DEF StageStep, WriteActive, WriteReceipt, WriteMarker, WriteRevMark, WriteRevision, WritePointer, StageAnswer,
                ReserveRead, ReserveRefused
  <2>3. CASE FinishEnter(t) \/ FinishCrash(t)
    BY <2>3 DEF FinishEnter, FinishCrash
  <2>4. CASE FinishStep(t)
    BY <2>4 DEF FinishStep, WriteTombstone, WriteDecided, RetirePointer, DropRevMark, ClearMarker, ReleaseReads, DropActive,
                FinishAnswer, ApplyEffect, RecordEffect
  <2> QED
    BY <1>1, <2>1, <2>2, <2>3, <2>4 DEF TxnStep
<1>2. ASSUME NEW t \in Txns, StageResume(t)
      PROVE  /\ overrun \subseteq overrun'
             /\ marker[Target[t]] # t /\ ~Replaceable(Target[t]) => Target[t] \in overrun'
  BY <1>2 DEF StageResume
<1>3. ASSUME NEW c \in Cards, CardStep(c) PROVE overrun' = overrun
  BY <1>3 DEF CardStep, MarkExpires, CommitEnter, CommitDurable, CommitCrash
<1>4. ASSUME UNCHANGED vars PROVE overrun' = overrun
  BY <1>4 DEF vars
<1>5. overrun \subseteq overrun'
  BY <1>1, <1>2, <1>3, <1>4, Steps
<1> QED
  BY <1>2, <1>5

\* Only a stage that begins, fresh or resumed, comes to hold its Card.
LEMMA HoldMoves ==
    ASSUME BaseInv, [Next]_vars, NEW t \in Txns, Holds(t)', ~Holds(t)
    PROVE  StageFresh(t) \/ StageResume(t)
<1>0. Types /\ StageOK(t) /\ FinishOK(t) /\ Target[t] \in Cards /\ t # NoTxn /\ st[t] = "idle"
  BY Scope, TxnAssumption DEF BaseInv, TxnInv, Holds
<1>1. CASE st'[t] # "idle"
  <2>1. ~StageStep(t)
    BY <1>0 DEF StageStep, WriteActive, WriteReceipt, WriteMarker, WriteRevMark, WriteRevision, WritePointer, StageAnswer,
                ReserveRead, ReserveRefused
  <2> QED
    BY <1>0, <1>1, <2>1, Movers
<1>2. CASE rcpt'[t] = "prepared" /\ (marker'[Target[t]] = t \/ ptr'[Target[t]].tx = t)
  <2>1. rcpt[t] = "prepared"
    <3>1. ~WriteReceipt(t)
      BY <1>0 DEF WriteReceipt
    <3>2. ~WriteDecided(t)
      BY <1>0, <1>2 DEF WriteDecided, FinishOK, DECISIONS, Types
    <3> QED
      BY <1>0, <1>2, <3>1, <3>2, Movers
  <2>2. marker[Target[t]] # t /\ ptr[Target[t]].tx # t
    BY <2>1 DEF Holds
  <2>3. CASE marker'[Target[t]] = t
    <3>1. ASSUME NEW u \in Txns, ClearMarker(u), marker[Target[t]] = u PROVE marker'[Target[t]] # t
      BY <1>0, <2>2, <3>1 DEF ClearMarker, Types
    <3> QED
      BY <1>0, <2>2, <2>3, <3>1, MarkerSteps
  <2>4. CASE ptr'[Target[t]].tx = t
    <3>1. ASSUME NEW r, ptr'[Target[t]] = Plain(r) PROVE FALSE
      BY <1>0, <2>4, <3>1, SMT DEF Plain
    <3>2. ASSUME NEW u \in Txns, WritePointer(u), ptr'[Target[t]] = Staged(u) PROVE FALSE
      <4>1. u = t
        BY <2>4, <3>2, SMT DEF Staged
      <4> QED
        BY <1>0, <3>2, <4>1 DEF WritePointer
    <3> QED
      BY <1>0, <2>2, <2>4, <3>1, <3>2, PointerSteps
  <2> QED
    BY <1>2, <2>3, <2>4
<1> QED
  BY <1>1, <1>2 DEF Holds

\* A Card that may be replaced and whose section is free is held by no one, ...
LEMMA ReplaceableUnheld ==
    ASSUME SectionInv, NEW c \in Cards, Replaceable(c), NEW u \in Txns, Target[u] = c, st[u] = "idle"
    PROVE  ~Holds(u)
<1>1. u # NoTxn
  BY TxnAssumption
<1> QED
  BY <1>1 DEF Holds, Replaceable, LiveMarker

\* ... so a stage that begins is the only holder, or overruns the Card.
LEMMA BeginsAlone ==
    ASSUME BaseInv, HoldInv, [Next]_vars, NEW t \in Txns, StageFresh(t) \/ StageResume(t), Target[t] \notin overrun',
           NEW u \in Txns, u # t, Target[u] = Target[t]
    PROVE  ~Holds(u)
<1>0. Target[t] \in Cards /\ SectionInv /\ Target[t] \notin overrun
  BY Scope, Overruns DEF BaseInv
<1>1. section[Target[t]] = Free
  BY Scope DEF StageFresh, StageResume, Enter
<1>2. st[u] = "idle"
  BY <1>0, <1>1, Scope, Holders, SMT DEF SectionInv
<1>3. CASE Replaceable(Target[t])
  BY <1>0, <1>2, <1>3, ReplaceableUnheld
<1>4. CASE ~Replaceable(Target[t])
  <2>1. StageResume(t) /\ marker[Target[t]] = t
    BY <1>4, Overruns DEF StageFresh
  <2>2. Holds(t)
    BY <2>1 DEF StageResume, Holds
  <2> QED
    BY <1>0, <2>2 DEF HoldInv
<1> QED
  BY <1>3, <1>4

LEMMA HoldStep == ASSUME BaseInv, HoldInv, [Next]_vars PROVE HoldInv'
<1> SUFFICES ASSUME NEW t \in Txns, NEW u \in Txns, t # u, Target[t] = Target[u], Target[t] \notin overrun', Holds(t)', Holds(u)'
             PROVE  FALSE
  BY DEF HoldInv
<1>0. Types /\ Target[t] \in Cards /\ Target[t] \notin overrun
  BY Scope, Overruns DEF BaseInv
<1>1. CASE Holds(t) /\ Holds(u)
  BY <1>0, <1>1 DEF HoldInv
<1>2. CASE ~Holds(t)
  <2>1. StageFresh(t) \/ StageResume(t)
    BY <1>2, HoldMoves
  <2>2. ~Holds(u)
    BY <2>1, BeginsAlone
  <2>3. StageFresh(u) \/ StageResume(u)
    BY <2>2, HoldMoves
  <2> QED
    BY <1>0, <2>1, <2>3, Begins
<1>3. CASE ~Holds(u)
  <2>1. StageFresh(u) \/ StageResume(u)
    BY <1>3, HoldMoves
  <2>2. ~Holds(t)
    BY <2>1, BeginsAlone
  <2> QED
    BY <1>2, <2>2
<1> QED
  BY <1>1, <1>2, <1>3

LEMMA InitCard == Init => CardInv
BY DEF Init, CardInv, HoldInv, Holds, OverOK, DECISIONS

\* While a call is inside a Card's section, only that call moves the Card's pointer.
LEMMA PointerHeld ==
    ASSUME BaseInv, [Next]_vars
    PROVE  /\ \A t \in Txns : st[t] # "idle" => ptr'[Target[t]] = ptr[Target[t]] \/ WritePointer(t)
           /\ \A c \in Cards : wr[c] # "idle" => ptr'[c] = ptr[c] \/ CommitDurable(c)
<1>0. Types /\ SectionInv
  BY DEF BaseInv
<1>1. ASSUME NEW t \in Txns, st[t] # "idle" PROVE ptr'[Target[t]] = ptr[Target[t]] \/ WritePointer(t)
  <2>1. ASSUME NEW u \in Txns, WritePointer(u), Target[t] = Target[u] PROVE u = t
    BY <1>0, <1>1, <2>1, Exclusion, Scope DEF WritePointer
  <2>2. ASSUME NEW u \in Txns, RetirePointer(u), Target[t] = Target[u] PROVE FALSE
    BY <1>0, <1>1, <2>2, Exclusion, Scope DEF RetirePointer
  <2>3. ~CommitDurable(Target[t])
    BY <1>0, <1>1, Exclusion, Scope DEF CommitDurable
  <2> QED
    BY <1>0, <2>1, <2>2, <2>3, Scope, PointerSteps
<1>2. ASSUME NEW c \in Cards, wr[c] # "idle" PROVE ptr'[c] = ptr[c] \/ CommitDurable(c)
  <2>1. ASSUME NEW u \in Txns, WritePointer(u) \/ RetirePointer(u) PROVE Target[u] # c
    BY <1>0, <1>2, <2>1, Exclusion, Scope DEF WritePointer, RetirePointer
  <2> QED
    BY <1>0, <2>1, PointerSteps
<1> QED
  BY <1>1, <1>2

\* The revision of a Card that is not overrun only grows: in number and in the
\* transactions it contains.
LEMMA LogicalGrows ==
    ASSUME BaseInv, BaseInv', CardInv, [Next]_vars, NEW c \in Cards, c \notin overrun
    PROVE  /\ Logical(c) \in Rev /\ Logical(c)' \in Rev
           /\ Logical(c).in \subseteq Logical(c)'.in /\ Logical(c).n <= Logical(c)'.n
<1>0. Types /\ (\A u \in Txns : Grows(u))
  BY Grow DEF BaseInv
<1>a. ASSUME NEW t \in Txns, Planned(t)
      PROVE  /\ Before(t) \in Rev /\ After(t) \in Rev /\ Before(t).in \subseteq After(t).in
             /\ Before(t).n <= After(t).n /\ Before(t).n \in Nat /\ After(t).n \in Nat
  BY <1>0, <1>a, BeforeType, SMT DEF Rev
<1>1. CASE ptr'[c] = ptr[c] /\ ptr[c].tx = NoTxn
  <2>1. Logical(c) = ptr[c].rev /\ Logical(c)' = ptr[c].rev /\ ptr[c].rev \in Rev
    BY <1>0, <1>1 DEF Logical, Types, Pointers
  <2> QED
    BY <2>1, SMT DEF Rev
<1>2. CASE ptr'[c] = ptr[c] /\ ptr[c].tx # NoTxn
  <2>1. PICK t \in Txns : t = ptr[c].tx /\ Planned(t)
    BY <1>2, NamedTxn
  <2>2. Before(t)' = Before(t) /\ After(t)' = After(t)
    BY <1>0, <2>1, BeforeStays
  <2>3. decision[t] = "committed" => decision'[t] = "committed"
    BY <1>0 DEF Grows
  <2>4. /\ Logical(c) = IF decision[t] = "committed" THEN After(t) ELSE Before(t)
        /\ Logical(c)' = IF decision'[t] = "committed" THEN After(t) ELSE Before(t)
    BY <1>2, <2>1, <2>2 DEF Logical
  <2> QED
    BY <1>a, <2>1, <2>3, <2>4, SMT
<1>3. ASSUME NEW t \in Txns, WritePointer(t), c = Target[t], ptr'[c] = Staged(t)
      PROVE  /\ Logical(c) \in Rev /\ Logical(c)' \in Rev
             /\ Logical(c).in \subseteq Logical(c)'.in /\ Logical(c).n <= Logical(c)'.n
  <2>1. st[t] = "pointer" /\ Planned(t)
    BY <1>3 DEF WritePointer, BaseInv, TxnInv, StageOK
  <2>2. Logical(c) = Before(t)
    BY <1>3, <2>1 DEF CardInv, OverOK
  <2>3. Before(t)' = Before(t) /\ After(t)' = After(t)
    BY <1>0, <2>1, BeforeStays
  <2>4. t # NoTxn /\ Staged(t).tx = t
    BY TxnAssumption DEF Staged
  <2>5. Logical(c)' = IF decision'[t] = "committed" THEN After(t) ELSE Before(t)
    BY <1>3, <2>3, <2>4 DEF Logical
  <2> QED
    BY <1>a, <2>1, <2>2, <2>5, SMT
<1>4. ASSUME NEW t \in Txns, RetirePointer(t), ptr[c].tx = t,
             ptr'[c] = Plain(IF rcpt[t] = "committed" THEN After(t) ELSE Before(t))
      PROVE  /\ Logical(c) \in Rev /\ Logical(c)' \in Rev
             /\ Logical(c).in \subseteq Logical(c)'.in /\ Logical(c).n <= Logical(c)'.n
  <2>1. t # NoTxn /\ Planned(t) /\ rcpt[t] = decision[t]
    BY <1>4, TxnAssumption, NamedTxn DEF RetirePointer, BaseInv, TxnInv, FinishOK, Retiring
  <2>2. Logical(c) = IF rcpt[t] = "committed" THEN After(t) ELSE Before(t)
    BY <1>4, <2>1 DEF Logical
  <2>3. Logical(c)' = Logical(c)
    BY <1>4, <2>2, PlainClean
  <2> QED
    BY <1>a, <2>1, <2>2, <2>3, SMT
<1>5. ASSUME CommitDurable(c), ptr'[c] = Plain([ResolveLocal(c) EXCEPT !.n = @ + 1])
      PROVE  /\ Logical(c) \in Rev /\ Logical(c)' \in Rev
             /\ Logical(c).in \subseteq Logical(c)'.in /\ Logical(c).n <= Logical(c)'.n
  <2>1. Clean(c)
    BY <1>5 DEF CommitDurable, CardInv
  <2>2. ResolveLocal(c) = Logical(c) /\ ResolveLocal(c) \in Rev
    BY <2>1, CleanLocal, LocalType
  <2>3. Logical(c)' = [Logical(c) EXCEPT !.n = @ + 1]
    BY <1>5, <2>2, PlainClean
  <2> QED
    BY <2>2, <2>3, SMT DEF Rev
<1> QED
  BY <1>0, <1>1, <1>2, <1>3, <1>4, <1>5, PointerSteps

\* The pointer of a Card that is held is its holder's, or what is there is settled, ...
LEMMA HeldOver ==
    ASSUME BaseInv, CardInv, HoldInv', [Next]_vars, NEW t \in Txns, Holds(t)', Target[t] \notin overrun'
    PROVE  ptr'[Target[t]].tx = t \/ Clean(Target[t])'
<1>0. Types /\ (\A u \in Txns : Grows(u)) /\ Target[t] \in Cards /\ TxnInv /\ Target[t] \notin overrun
  BY Grow, Scope, Overruns DEF BaseInv
<1>1. ptr[Target[t]].tx = t \/ Clean(Target[t])
  <2>1. CASE Holds(t)
    BY <1>0, <2>1 DEF CardInv, OverOK
  <2>2. CASE ~Holds(t)
    <3>1. StageFresh(t) \/ StageResume(t)
      BY <2>2, HoldMoves
    <3>2. Replaceable(Target[t])
      BY <2>2, <3>1, Overruns DEF StageFresh, StageResume, Holds
    <3> QED
      BY <1>0, <3>2, ReplaceableClean
  <2> QED
    BY <2>1, <2>2
<1>2. CASE ptr'[Target[t]] = ptr[Target[t]]
  BY <1>0, <1>1, <1>2, CleanStays
<1>3. ASSUME NEW u \in Txns, WritePointer(u), Target[t] = Target[u], ptr'[Target[t]] = Staged(u) PROVE ptr'[Target[t]].tx = t
  <2>0. st'[u] = "answer"
    BY <1>0, <1>3, GotoEffect DEF WritePointer
  <2>1. Holds(u)'
    BY <2>0 DEF Holds
  <2>2. u = t
    BY <1>3, <2>1 DEF HoldInv
  <2> QED
    BY <1>3, <2>2, SMT DEF Staged
<1>4. ASSUME NEW r, ptr'[Target[t]] = Plain(r) PROVE Clean(Target[t])'
  BY <1>0, <1>4, PlainClean
<1> QED
  BY <1>0, <1>2, <1>3, <1>4, PointerSteps

\* ... a running stage still has its BEFORE below it, ...
LEMMA RunningOver ==
    ASSUME BaseInv, CardInv, [Next]_vars, NEW t \in Txns, st'[t] \notin {"idle", "answer"}, Target[t] \notin overrun'
    PROVE  Clean(Target[t])' /\ Logical(Target[t])' = Before(t)'
<1>0. Types /\ (\A u \in Txns : Grows(u)) /\ Target[t] \in Cards /\ TxnInv /\ Target[t] \notin overrun
  BY Grow, Scope, Overruns DEF BaseInv
<1>1. Planned(t) /\ Clean(Target[t]) /\ Logical(Target[t]) = Before(t) /\ ptr'[Target[t]] = ptr[Target[t]]
  <2>1. CASE st[t] \notin {"idle", "answer"}
    <3>1. ~WritePointer(t)
      BY <1>0, GotoEffect DEF WritePointer
    <3> QED
      BY <1>0, <2>1, <3>1, PointerHeld DEF CardInv, OverOK, TxnInv, StageOK
  <2>2. CASE StageFresh(t)
    <3>1. Clean(Target[t]) /\ ResolveLocal(Target[t]) = Before(t)
      BY <1>0, <2>2, ReplaceableClean DEF StageFresh
    <3> QED
      BY <1>0, <2>2, <3>1, CleanLocal DEF StageFresh, files
  <2>3. CASE StageResume(t)
    <3>1. rcpt[t] = "prepared" /\ ~IsStaged(t) /\ ResolveLocal(Target[t]) = Before(t) /\ ptr' = ptr
      BY <2>3 DEF StageResume, files
    <3>2. ptr[Target[t]].tx # t
      BY <1>0, <3>1, TxnAssumption DEF BaseInv, PtrInv, PtrOK, IsStaged
    <3>3. Clean(Target[t]) /\ Planned(t)
      <4>1. CASE marker[Target[t]] = t
        BY <1>0, <3>1, <3>2, <4>1 DEF CardInv, OverOK, Holds, TxnInv, StageOK
      <4>2. CASE marker[Target[t]] # t
        BY <1>0, <2>3, <3>1, <4>2, Overruns, ReplaceableClean DEF TxnInv, StageOK
      <4> QED
        BY <4>1, <4>2
    <3> QED
      BY <1>0, <3>1, <3>3, CleanLocal
  <2>4. CASE StageStep(t)
    BY <1>0, <2>1, <2>4, StageMoves
  <2>5. CASE st'[t] = st[t]
    BY <2>1, <2>5
  <2> QED
    BY <1>0, <2>2, <2>3, <2>4, <2>5, Movers
<1> QED
  BY <1>0, <1>1, CleanStays, BeforeStays

\* ... an acknowledged transaction keeps its pointer until its receipt is decided, ...
LEMMA AckedStaged ==
    ASSUME BaseInv, CardInv, [Next]_vars, NEW t \in Txns, (t \in acked' /\ rcpt'[t] = "prepared") \/ st'[t] = "answer",
           Target[t] \notin overrun'
    PROVE  IsStaged(t)'
<1>0. /\ Types /\ (\A u \in Txns : Grows(u)) /\ Target[t] \in Cards /\ TxnInv /\ StageOK(t) /\ FinishOK(t)
      /\ Target[t] \notin overrun
  BY Grow, Scope, Overruns DEF BaseInv, TxnInv
<1>1. CASE WritePointer(t)
  <2>1. Planned(t) /\ ptr'[Target[t]] = Staged(t)
    BY <1>0, <1>1 DEF WritePointer, StageOK, Types
  <2> QED
    BY <1>0, <2>1, BeforeStays DEF IsStaged
<1>2. CASE ~WritePointer(t)
  <2>1. rcpt[t] = "prepared" /\ IsStaged(t)
    <3>1. CASE st'[t] = "answer"
      <4>1. st[t] = "answer"
        <5>1. StageFresh(t) => st'[t] = "active"
          BY <1>0, GotoEffect DEF StageFresh
        <5>2. StageResume(t) => st'[t] = "refence"
          BY <1>0, GotoEffect DEF StageResume
        <5>3. ~StageStep(t)
          BY <1>0, <1>2, <3>1, StageMoves
        <5> QED
          BY <1>0, <3>1, <5>1, <5>2, <5>3, Movers
      <4> QED
        BY <1>0, <4>1 DEF CardInv, OverOK, StageOK, Holding
    <3>2. CASE t \in acked' /\ rcpt'[t] = "prepared"
      <4>1. CASE StageReplay(t)
        BY <4>1 DEF StageReplay
      <4>2. CASE StageAnswer(t)
        BY <1>0, <4>2 DEF StageAnswer, CardInv, OverOK, StageOK, Holding
      <4>3. CASE t \in acked
        <5>1. rcpt[t] = "prepared"
          <6>1. ~WriteReceipt(t)
            BY <1>0, <4>3 DEF WriteReceipt, StageOK
          <6>2. ~WriteDecided(t)
            BY <1>0, <3>2 DEF WriteDecided, FinishOK, DECISIONS, Types
          <6> QED
            BY <1>0, <3>2, <6>1, <6>2, Movers
        <5> QED
          BY <1>0, <4>3, <5>1 DEF CardInv, OverOK
      <4> QED
        BY <1>0, <3>2, <4>1, <4>2, <4>3, Movers
    <3> QED
      BY <3>1, <3>2
  <2>2. ptr[Target[t]].tx = t /\ t # NoTxn /\ Planned(t)
    BY <1>0, <2>1, TxnAssumption, SMT DEF IsStaged, Staged, StageOK
  <2>3. ASSUME NEW u \in Txns, WritePointer(u), Target[t] = Target[u] PROVE FALSE
    <3>1. Holds(u) /\ u # t /\ Holds(t)
      BY <1>2, <2>1, <2>2, <2>3 DEF WritePointer, Holds
    <3> QED
      BY <1>0, <2>3, <3>1 DEF CardInv, HoldInv
  <2>4. ASSUME NEW u \in Txns, RetirePointer(u), ptr[Target[t]].tx = u PROVE FALSE
    BY <1>0, <2>1, <2>2, <2>4 DEF RetirePointer, FinishOK, Retiring, DECISIONS
  <2>5. ~CommitDurable(Target[t])
    <3>1. ~Clean(Target[t])
      BY <2>1, <2>2 DEF Clean, DECISIONS
    <3> QED
      BY <1>0, <3>1 DEF CommitDurable, CardInv
  <2>6. ptr'[Target[t]] = ptr[Target[t]]
    BY <1>0, <2>3, <2>4, <2>5, PointerSteps
  <2> QED
    BY <1>0, <2>1, <2>2, <2>6, BeforeStays DEF IsStaged
<1> QED
  BY <1>1, <1>2

\* ... and a committed one is in its Card for good.
LEMMA CommittedIn ==
    ASSUME BaseInv, BaseInv', CardInv, [Next]_vars, NEW t \in Txns, decision'[t] = "committed", Target[t] \notin overrun'
    PROVE  t \in Logical(Target[t])'.in /\ Before(t)'.n + 1 <= Logical(Target[t])'.n
<1>0. /\ Types /\ (\A u \in Txns : Grows(u)) /\ Target[t] \in Cards /\ StageOK(t) /\ FinishOK(t)
      /\ Target[t] \notin overrun
  BY Grow, Scope, Overruns DEF BaseInv, TxnInv
<1>1. CASE decision[t] = "committed"
  <2>1. t \in Logical(Target[t]).in /\ Before(t).n + 1 <= Logical(Target[t]).n /\ Planned(t)
    BY <1>0, <1>1 DEF CardInv, OverOK, StageOK
  <2>2. Before(t)' = Before(t) /\ Before(t).n \in Nat
    BY <1>0, <2>1, BeforeStays, BeforeType DEF Rev
  <2>3. /\ Logical(Target[t]).n \in Nat /\ Logical(Target[t])'.n \in Nat
        /\ Logical(Target[t]).in \subseteq Logical(Target[t])'.in /\ Logical(Target[t]).n <= Logical(Target[t])'.n
    BY <1>0, LogicalGrows DEF Rev
  <2> QED
    BY <2>1, <2>2, <2>3, SMT
<1>2. CASE decision[t] # "committed"
  <2>1. decision[t] = "undecided" /\ t \in acked /\ ptr' = ptr /\ rcpt' = rcpt
    BY <1>0, <1>2, Movers DEF Decide, files, Types
  <2>2. rcpt[t] = "prepared"
    BY <1>0, <2>1 DEF StageOK, FinishOK, DECISIONS, Types, States
  <2>3. ptr[Target[t]] = Staged(t) /\ Planned(t)
    BY <1>0, <2>1, <2>2 DEF CardInv, OverOK, IsStaged, StageOK
  <2>4. ptr'[Target[t]].tx = t /\ t # NoTxn
    BY <2>1, <2>3, TxnAssumption, SMT DEF Staged
  <2>5. Logical(Target[t])' = After(t)'
    BY <2>4 DEF Logical
  <2>6. After(t)' = After(t) /\ Before(t)' = Before(t)
    BY <1>0, <2>3, BeforeStays
  <2> QED
    BY <1>0, <2>3, <2>5, <2>6, BeforeType, SMT DEF Rev
<1> QED
  BY <1>1, <1>2

\* An ordinary commit begins in one step.
LEMMA WriterMoves ==
    ASSUME Types, [Next]_vars, NEW c \in Cards, wr'[c] = "durable"
    PROVE  wr[c] = "durable" \/ CommitEnter(c)
<1> SUFFICES ASSUME ~CommitEnter(c) PROVE wr'[c] = wr[c]
  OBVIOUS
<1>1. CASE UNCHANGED vars
  BY <1>1 DEF vars
<1>2. ASSUME NEW t \in Txns, TxnStep(t) PROVE wr' = wr
  BY <1>2 DEF TxnStep, Plan, Decide, StageFresh, StageResume, StageReplay, StageRefused, StageCrash, StageStep, WriteActive,
     WriteReceipt, WriteMarker, WriteRevMark, WriteRevision, WritePointer, StageAnswer, ReserveRead, ReserveRefused,
     FinishEnter, FinishCrash, FinishStep, WriteTombstone, WriteDecided, RetirePointer, DropRevMark, ClearMarker, ReleaseReads,
     DropActive, FinishAnswer, ApplyEffect, RecordEffect, procs
<1>3. ASSUME NEW d \in Cards, CardStep(d), d # c PROVE wr'[c] = wr[c]
  BY <1>3 DEF CardStep, MarkExpires, CommitEnter, CommitDurable, CommitCrash, procs, Types
<1>4. CASE CardStep(c)
  BY <1>4 DEF CardStep, MarkExpires, CommitDurable, CommitCrash, procs, Types
<1> QED
  BY <1>1, <1>2, <1>3, <1>4, Steps

\* The third layer is inductive.
LEMMA CardStepKeeps == ASSUME BaseInv, CardInv, [Next]_vars PROVE CardInv'
<1>0. BaseInv' /\ Types /\ (\A u \in Txns : Grows(u))
  BY BaseStep, Grow DEF BaseInv
<1>1. HoldInv'
  BY HoldStep DEF CardInv
<1>2. ASSUME NEW t \in Txns, Target[t] \notin overrun' PROVE OverOK(t)'
  <2>1. Holds(t)' => ptr'[Target[t]].tx = t \/ Clean(Target[t])'
    BY <1>1, <1>2, HeldOver
  <2>2. st'[t] \notin {"idle", "answer"} => Clean(Target[t])' /\ Logical(Target[t])' = Before(t)'
    BY <1>2, RunningOver
  <2>3. (t \in acked' /\ rcpt'[t] = "prepared") \/ st'[t] = "answer" => IsStaged(t)'
    BY <1>2, AckedStaged
  <2>4. decision'[t] = "committed" => t \in Logical(Target[t])'.in /\ Before(t)'.n + 1 <= Logical(Target[t])'.n
    BY <1>0, <1>2, CommittedIn
  <2> QED
    BY <2>1, <2>2, <2>3, <2>4 DEF OverOK
<1>3. ASSUME NEW c \in Cards, wr'[c] = "durable" PROVE Clean(c)'
  <2>1. CASE CommitEnter(c)
    <3>1. Clean(c) /\ ptr'[c] = ptr[c]
      BY <2>1, ReplaceableClean DEF CommitEnter, files
    <3> QED
      BY <1>0, <3>1, CleanStays
  <2>2. CASE wr[c] = "durable"
    <3>1. ~CommitDurable(c)
      BY <1>0, <1>3 DEF CommitDurable, Types
    <3>2. Clean(c) /\ ptr'[c] = ptr[c]
      BY <2>2, <3>1, PointerHeld DEF CardInv
    <3> QED
      BY <1>0, <3>2, CleanStays
  <2> QED
    BY <1>0, <1>3, <2>1, <2>2, WriterMoves
<1> QED
  BY <1>1, <1>2, <1>3 DEF CardInv

\* On a Card that no replay overran at most one transaction holds it, what it
\* replaces is settled and is its BEFORE, and a committed one is in the Card,
\* wherever STAGE, FINISH and ordinary commits are cut.
THEOREM CardInductive == Spec => []CardInv
<1>1. BaseInv /\ CardInv /\ [Next]_vars => CardInv'
  BY CardStepKeeps
<1> QED
  BY <1>1, InitCard, BaseInductive, PTL DEF Spec

\* A committed change is never lost from a Card that no replay overran: from the
\* recorded commit on, the Card's revision contains it, through crashes, replays
\* and later writers.
THEOREM CommitKept == Spec => []CommitIsKept
<1>1. CardInv => CommitIsKept
  BY DEF CardInv, OverOK, CommitIsKept
<1> QED
  BY <1>1, CardInductive, PTL

\* On such a Card FINISH never meets card_transaction_not_staged.
THEOREM CommitFinishes == Spec => []CommitCanFinish
<1>1. BaseInv /\ CardInv => CommitCanFinish
  BY DEF BaseInv, TxnInv, StageOK, CardInv, OverOK, CommitCanFinish
<1> QED
  BY <1>1, BaseInductive, CardInductive, PTL

\* A stage, fresh or resumed, publishes its pointer on such a Card only while the
\* Card is still exactly its BEFORE.
THEOREM StagesOverBefore == Spec => StageOnlyOverBefore
<1>1. ASSUME BaseInv, CardInv, [Next]_vars, NEW t \in Txns, Planned(t), ~IsStaged(t), IsStaged(t)', Target[t] \notin overrun
      PROVE  Logical(Target[t]) = Before(t)
  <2>0. Types /\ Grows(t) /\ Target[t] \in Cards /\ t # NoTxn
    BY <1>1, Grow, Scope, TxnAssumption DEF BaseInv
  <2>1. ptr'[Target[t]] = Staged(t)
    BY <1>1, <2>0, BeforeStays DEF IsStaged
  <2>2. ptr'[Target[t]] # ptr[Target[t]] /\ ptr'[Target[t]].tx = t
    BY <1>1, <2>1, SMT DEF IsStaged, Staged
  <2>3. \A r : ptr'[Target[t]] # Plain(r)
    BY <2>0, <2>2, SMT DEF Plain
  <2>4. PICK u \in Txns : WritePointer(u) /\ ptr'[Target[t]] = Staged(u)
    BY <1>1, <2>0, <2>2, <2>3, PointerSteps
  <2>5. u = t
    BY <2>2, <2>4, SMT DEF Staged
  <2> QED
    BY <1>1, <2>4, <2>5 DEF WritePointer, CardInv, OverOK
<1>2. BaseInv /\ CardInv /\ [Next]_vars =>
        [\A t \in Txns : (Planned(t) /\ ~IsStaged(t) /\ IsStaged(t)' /\ Target[t] \notin overrun) =>
            Logical(Target[t]) = Before(t)]_vars
  BY <1>1
<1> QED
  BY <1>2, BaseInductive, CardInductive, PTL DEF Spec, StageOnlyOverBefore

\* What a read knows of the revision the Card had when it began.
LEMMA FloorKept ==
    ASSUME BaseInv, BaseInv', CardInv, ReadOK, FloorOK, [Next]_vars, rvars' = rvars
    PROVE  FloorOK'
<1>0. rpc' = rpc /\ rcard' = rcard /\ rptr' = rptr /\ floor' = floor /\ rcard \in Cards
  BY DEF rvars, ReadOK
<1> SUFFICES ASSUME rpc # "idle" PROVE FloorOK'
  BY <1>0 DEF FloorOK
<1>1. floor \in Nat /\ (rcard \notin overrun => floor <= Logical(rcard).n)
  BY DEF FloorOK
<1>2. ASSUME rcard \notin overrun' PROVE floor' <= Logical(rcard)'.n
  <2>1. PICK c \in Cards : c = rcard
    BY <1>0
  <2>2. c \notin overrun /\ Logical(c).n \in Nat /\ Logical(c)'.n \in Nat /\ Logical(c).n <= Logical(c)'.n
    BY <1>2, <2>1, Overruns, LogicalGrows DEF Rev
  <2>3. floor' <= Logical(c)'.n
    BY <1>0, <1>1, <2>1, <2>2, SMT
  <2> QED
    BY <1>0, <2>1, <2>3
<1>3. CASE rptr.tx = NoTxn
  BY <1>0, <1>1, <1>2, <1>3 DEF FloorOK
<1>4. CASE rptr.tx # NoTxn
  <2>1. PICK t \in Txns : t = rptr.tx
    BY <1>4 DEF ReadOK, Pointers
  <2>2. Grows(t) /\ Planned(t)
    BY <1>4, <2>1, Grow DEF ReadOK, BaseInv, TxnInv, StageOK
  <2>3. Before(t)' = Before(t) /\ (decision[t] = "committed" => decision'[t] = "committed")
    BY <2>2, BeforeStays DEF Grows
  <2>4. floor = Before(t).n \/ (decision[t] = "committed" /\ floor = Before(t).n + 1)
    BY <1>4, <2>1 DEF FloorOK
  <2> QED
    BY <1>0, <1>1, <1>2, <1>4, <2>1, <2>3, <2>4 DEF FloorOK
<1> QED
  BY <1>3, <1>4

LEMMA FloorGoes == ASSUME BaseInv, ReadOK, FloorOK, ReaderStep, vars' = vars PROVE FloorOK'
<1>0. ptr' = ptr /\ decision' = decision /\ plan' = plan /\ overrun' = overrun
  BY DEF vars
<1>a. (\A t : Before(t)' = Before(t) /\ After(t)' = After(t)) /\ \A c : Logical(c)' = Logical(c)
  BY <1>0, SMT DEF Before, After, Logical
<1>1. CASE ReadPointer
  <2>1. PICK c \in Cards : rcard' = c /\ rptr' = ptr[c] /\ floor' = Logical(c).n
    BY <1>1 DEF ReadPointer
  <2>2. CASE ptr[c].tx = NoTxn
    <3>1. Logical(c) = ptr[c].rev /\ ptr[c].rev.n \in Nat
      BY <2>2 DEF Logical, BaseInv, Types, Pointers, Rev
    <3> QED
      BY <1>a, <2>1, <2>2, <3>1, SMT DEF FloorOK
  <2>3. CASE ptr[c].tx # NoTxn
    <3>1. PICK t \in Txns : t = ptr[c].tx /\ Planned(t)
      BY <2>3, NamedTxn
    <3>2. /\ Before(t).n \in Nat
          /\ Logical(c).n = IF decision[t] = "committed" THEN Before(t).n + 1 ELSE Before(t).n
      BY <2>3, <3>1, BeforeType DEF Logical, BaseInv, Rev
    <3> QED
      BY <1>0, <1>a, <2>1, <2>3, <3>1, <3>2, SMT DEF FloorOK
  <2> QED
    BY <2>2, <2>3
<1>2. CASE ReadReceipt \/ (AskDecision /\ ~Ended) \/ (CheckEffects /\ ~Ended)
  <2>1. rpc # "idle" /\ rcard' = rcard /\ rptr' = rptr /\ floor' = floor
    BY <1>2 DEF ReadReceipt, AskDecision, CheckEffects
  <2> QED
    BY <1>0, <1>a, <2>1 DEF FloorOK
<1>3. CASE Ended
  BY <1>3 DEF Ended, FloorOK
<1> QED
  BY <1>1, <1>2, <1>3 DEF ReaderStep, LoadRevision

\* On a Card that no replay overran, a read is not older than the Card was when it
\* began, nor newer than the Card is when it ends.
THEOREM ReadsCurrent == ReadSpec => []ReadIsCurrent
<1>1. ReadInit => ReadOK /\ FloorOK
  BY DEF ReadInit, ReadOK, FloorOK
<1>2. BaseInv /\ BaseInv' /\ ContentInv /\ CardInv /\ ReadOK /\ FloorOK /\ [ReadNext]_readVars => ReadOK' /\ FloorOK'
  <2> SUFFICES ASSUME BaseInv, BaseInv', ContentInv, CardInv, ReadOK, FloorOK, [ReadNext]_readVars PROVE ReadOK' /\ FloorOK'
    OBVIOUS
  <2>1. CASE [Next]_vars /\ rvars' = rvars
    BY <2>1, Grow, ReadKept, FloorKept
  <2>2. CASE ReaderStep /\ vars' = vars
    BY <2>2, ReadGoes, FloorGoes
  <2> QED
    BY <2>1, <2>2 DEF ReadNext, readVars
<1>3. BaseInv /\ CardInv /\ ReadOK /\ FloorOK => ReadIsCurrent
  <2> SUFFICES ASSUME BaseInv, CardInv, ReadOK, FloorOK, rpc = "load", rcard \notin overrun
               PROVE  floor <= Named.n /\ Named.n <= Logical(rcard).n
    BY DEF ReadIsCurrent
  <2>0. floor \in Nat /\ floor <= Logical(rcard).n
    BY DEF FloorOK
  <2>1. CASE rptr.tx = NoTxn
    BY <2>0, <2>1, SMT DEF FloorOK, Named
  <2>2. CASE rptr.tx # NoTxn
    <3>1. PICK t \in Txns : t = rptr.tx
      BY <2>2 DEF ReadOK, Pointers
    <3>2. Planned(t) /\ rstate = decision[t] /\ Target[t] = rcard /\ rstate \in DECISIONS
      BY <2>2, <3>1 DEF ReadOK, BaseInv, TxnInv, StageOK
    <3>3. Before(t).n \in Nat /\ After(t).n = Before(t).n + 1
      BY <3>2, BeforeType DEF BaseInv, Rev
    <3>4. floor = Before(t).n \/ (decision[t] = "committed" /\ floor = Before(t).n + 1)
      BY <2>2, <3>1 DEF FloorOK
    <3>5. decision[t] = "committed" => Before(t).n + 1 <= Logical(rcard).n
      BY <3>2 DEF CardInv, OverOK
    <3>6. Named = IF rstate = "committed" THEN After(t) ELSE Before(t)
      BY <2>2, <3>1 DEF Named
    <3>7. CASE rstate = "committed"
      BY <3>2, <3>3, <3>4, <3>5, <3>6, <3>7, SMT
    <3>8. CASE rstate # "committed"
      BY <2>0, <3>2, <3>3, <3>4, <3>6, <3>8, SMT
    <3> QED
      BY <3>7, <3>8
  <2> QED
    BY <2>1, <2>2
<1> QED
  BY <1>1, <1>2, <1>3, ReadRefines, BaseInductive, ContentInductive, CardInductive, PTL DEF ReadSpec

\* The fourth layer.  Which steps write a read fence, and what a stage still has to fence.
LEMMA FenceSteps ==
    ASSUME Types, [Next]_vars
    PROVE  /\ \A d \in Cards : \/ fence'[d] = fence[d]
                               \/ \E u \in Txns : ReserveRead(u, d) /\ fence'[d] = u
                               \/ \E u \in Txns : ReleaseReads(u) /\ fence[d] = u
           /\ \A t \in Txns : \/ todo'[t] = todo[t]
                              \/ todo'[t] = {} /\ st'[t] = "idle"
                              \/ todo'[t] = Reads[t] /\ (StageFresh(t) \/ StageResume(t))
                              \/ \E d \in Cards : ReserveRead(t, d) /\ todo'[t] = todo[t] \ {d}
<1> USE DEF files, procs
<1>0. fence \in [Cards -> Txns \cup {NoTxn}] /\ todo \in [Txns -> SUBSET Cards]
  BY DEF Types
<1>1. CASE UNCHANGED vars
  BY <1>1 DEF vars
<1>2. ASSUME NEW c \in Cards, CardStep(c) PROVE fence' = fence /\ todo' = todo
  BY <1>2 DEF CardStep, MarkExpires, CommitEnter, CommitDurable, CommitCrash
<1>3. CASE \E u \in Txns : TxnStep(u)
  <2>1. PICK u \in Txns : TxnStep(u)
    BY <1>3
  <2>2. CASE Plan(u) \/ Decide(u) \/ StageReplay(u) \/ StageRefused(u) \/ FinishEnter(u) \/ FinishCrash(u)
    BY <2>2 DEF Plan, Decide, StageReplay, StageRefused, FinishEnter, FinishCrash
  <2>3. CASE StageFresh(u) \/ StageResume(u)
    <3>1. fence' = fence /\ todo' = [todo EXCEPT ![u] = Reads[u]]
      BY <2>3 DEF StageFresh, StageResume
    <3> QED
      BY <1>0, <2>3, <3>1
  <2>4. CASE StageCrash(u) \/ \E d \in Cards : ReserveRefused(u, d)
    <3>1. fence' = fence /\ todo' = [todo EXCEPT ![u] = {}] /\ st'[u] = "idle"
      BY <2>4, GotoEffect DEF StageCrash, ReserveRefused
    <3> QED
      BY <1>0, <3>1
  <2>5. ASSUME NEW d \in Cards, ReserveRead(u, d)
        PROVE  fence' = [fence EXCEPT ![d] = u] /\ todo' = [todo EXCEPT ![u] = @ \ {d}]
    BY <2>5 DEF ReserveRead
  <2>6. CASE \/ WriteActive(u) \/ WriteReceipt(u) \/ WriteMarker(u) \/ WriteRevMark(u) \/ WriteRevision(u) \/ WritePointer(u)
             \/ StageAnswer(u)
    BY <2>6 DEF WriteActive, WriteReceipt, WriteMarker, WriteRevMark, WriteRevision, WritePointer, StageAnswer
  <2>7. CASE ReleaseReads(u)
    BY <1>0, <2>7 DEF ReleaseReads
  <2>8. CASE \/ WriteTombstone(u) \/ WriteDecided(u) \/ RetirePointer(u) \/ DropRevMark(u) \/ ClearMarker(u) \/ DropActive(u)
             \/ FinishAnswer(u) \/ \E e \in Effects[u] : ApplyEffect(u, e) \/ RecordEffect(u, e)
    BY <2>8 DEF WriteTombstone, WriteDecided, RetirePointer, DropRevMark, ClearMarker, DropActive, FinishAnswer, ApplyEffect, RecordEffect
  <2>9. CASE \E d \in Cards : ReserveRead(u, d)
    BY <1>0, <2>5, <2>9
  <2> QED
    BY <2>1, <2>2, <2>3, <2>4, <2>6, <2>7, <2>8, <2>9 DEF TxnStep, StageStep, FinishStep
<1> QED
  BY <1>1, <1>2, <1>3, Steps

\* A reader is served what the Card really has.
LEMMA ServingLogical == ASSUME BaseInv, NEW c \in Cards, NEW r \in Serving(c) PROVE r = Logical(c)
BY ServingIs DEF Logical

\* A Card that no transaction holds moves only by an ordinary commit.
LEMMA UntouchedStays ==
    ASSUME BaseInv, [Next]_vars, NEW d \in Cards, Untouched(d), ~CommitDurable(d)
    PROVE  Logical(d)' = Logical(d)
<1>0. Types /\ TxnInv /\ (\A u \in Txns : Grows(u))
  BY Grow DEF BaseInv
<1>1. CASE ptr'[d] = ptr[d] /\ ptr[d].tx = NoTxn
  BY <1>1 DEF Logical
<1>2. CASE ptr'[d] = ptr[d] /\ ptr[d].tx # NoTxn
  <2>1. PICK u \in Txns : u = ptr[d].tx /\ Planned(u)
    BY <1>2, NamedTxn
  <2>2. rcpt[u] # "none" /\ rcpt[u] # "prepared"
    BY <1>2, <2>1 DEF BaseInv, PtrInv, PtrOK, Untouched, Holds
  <2>3. rcpt[u] \in DECISIONS
    BY <1>0, <2>2 DEF Types, States
  <2>4. decision'[u] = decision[u]
    BY <1>0, <2>3 DEF TxnInv, FinishOK, Grows, DECISIONS
  <2>5. Before(u)' = Before(u) /\ After(u)' = After(u)
    BY <1>0, <2>1, BeforeStays
  <2> QED
    BY <1>2, <2>1, <2>4, <2>5 DEF Logical
<1>3. ASSUME NEW u \in Txns, WritePointer(u), d = Target[u] PROVE FALSE
  BY <1>3 DEF WritePointer, Untouched, Holds
<1>4. ASSUME NEW u \in Txns, RetirePointer(u), ptr[d].tx = u,
             ptr'[d] = Plain(IF rcpt[u] = "committed" THEN After(u) ELSE Before(u))
      PROVE  Logical(d)' = Logical(d)
  <2>1. rcpt[u] = decision[u] /\ u # NoTxn
    BY <1>0, <1>4, TxnAssumption DEF RetirePointer, TxnInv, FinishOK, Retiring
  <2>2. Logical(d) = IF rcpt[u] = "committed" THEN After(u) ELSE Before(u)
    BY <1>4, <2>1 DEF Logical
  <2> QED
    BY <1>4, <2>2, PlainClean
<1> QED
  BY <1>0, <1>1, <1>2, <1>3, <1>4, PointerSteps

\* A Card that may be replaced is not read by a prepared transaction.
LEMMA ReplaceableUnread == ASSUME ReserveInv, NEW c \in Cards, Replaceable(c) PROVE Unread(c)
<1> SUFFICES ASSUME NEW u \in Txns, rcpt[u] = "prepared", c \in Reads[u] PROVE FALSE
  BY DEF Unread
<1>1. fence[c] = u
  BY DEF ReserveInv, Reserved
<1> QED
  BY <1>1, TxnAssumption DEF Replaceable, LiveFence

\* A stage that has no receipt yet reserves only Cards that no transaction holds.
LEMMA ReservableUntouched ==
    ASSUME BaseInv, ReserveInv, NEW t \in Txns, NEW d \in Cards, ReserveRead(t, d), st[t] = "fence"
    PROVE  Untouched(d) /\ Logical(d).n = Expected(t, d)
<1>0. Types /\ SectionInv /\ StageOK(t) /\ Reservable(t, d) /\ d \in todo[t]
  BY DEF BaseInv, TxnInv, ReserveRead
<1>1. rcpt[t] = "none" /\ d \in Reads[t] /\ d \in Sections(t) /\ d # Target[t]
  BY <1>0, Scope DEF StageOK, ReserveInv
<1>2. Replaceable(d)
  BY <1>0, <1>1 DEF Reservable, LiveFence
<1>3. ASSUME NEW u \in Txns, Target[u] = d PROVE ~Holds(u)
  <2>1. u # t
    BY <1>1, <1>3
  <2>2. st[u] = "idle"
    BY <1>0, <1>1, <1>3, <2>1, Exclusion, Scope
  <2> QED
    BY <1>0, <1>2, <1>3, <2>2, ReplaceableUnheld
<1>4. Logical(d).n = Expected(t, d)
  BY <1>0, ServingLogical DEF Reservable
<1> QED
  BY <1>3, <1>4 DEF Untouched

LEMMA InitReserve == Init => ReserveInv
BY DEF Init, ReserveInv

\* A reservation lasts from the fence to the decided receipt.
LEMMA ReservedStays ==
    ASSUME BaseInv, ReserveInv, [Next]_vars, NEW t \in Txns, NEW d \in Reads[t], Reserved(t, d),
           rcpt[t] = "prepared" \/ st[t] = "fence"
    PROVE  Reserved(t, d)'
<1>0. /\ Types /\ TxnInv /\ SectionInv /\ (\A u \in Txns : Grows(u))
      /\ d \in Cards /\ d \in Sections(t) /\ d # Target[t] /\ Planned(t)
  BY Grow, Scope DEF BaseInv, TxnInv, StageOK
<1>1. fence'[d] = t
  <2>1. ASSUME NEW u \in Txns, ReserveRead(u, d) PROVE u = t
    <3>1. st[u] # "idle" /\ d \in Sections(u) /\ (LiveFence(d) => fence[d] = u)
      BY <2>1, Scope DEF ReserveRead, Reservable, ReserveInv
    <3>2. CASE rcpt[t] = "prepared"
      BY <3>1, <3>2, TxnAssumption DEF Reserved, LiveFence
    <3>3. CASE st[t] = "fence"
      BY <1>0, <3>1, <3>3, Exclusion
    <3> QED
      BY <3>2, <3>3
  <2>2. ASSUME NEW u \in Txns, ReleaseReads(u), fence[d] = u PROVE FALSE
    <3>1. u = t /\ fin[t] = "release"
      BY <2>2 DEF ReleaseReads, Reserved
    <3>2. rcpt[t] \in DECISIONS
      BY <1>0, <3>1 DEF TxnInv, FinishOK, Retiring
    <3>3. st[t] = "idle"
      BY <1>0, <3>1, Exclusion, Scope
    <3> QED
      BY <3>2, <3>3 DEF DECISIONS
  <2> QED
    BY <1>0, <2>1, <2>2, FenceSteps DEF Reserved
<1>2. ~CommitDurable(d)
  <2>1. ASSUME wr[d] = "durable" PROVE FALSE
    <3>1. CASE rcpt[t] = "prepared"
      BY <1>0, <2>1, <3>1 DEF ReserveInv, Unread
    <3>2. CASE st[t] = "fence"
      BY <1>0, <2>1, <3>2, Exclusion
    <3> QED
      BY <3>1, <3>2
  <2> QED
    BY <2>1 DEF CommitDurable
<1>3. ASSUME d \notin overrun'
      PROVE  d \notin overrun /\ Untouched(d) /\ Logical(d)' = Logical(d) /\ Expected(t, d)' = Expected(t, d)
  BY <1>0, <1>2, <1>3, Overruns, UntouchedStays, BeforeStays DEF Reserved
<1>4. ASSUME d \notin overrun' PROVE Untouched(d)'
  <2> SUFFICES ASSUME NEW u \in Txns, Target[u] = d, Holds(u)' PROVE FALSE
    BY DEF Untouched
  <2>1. ~Holds(u)
    BY <1>3, <1>4 DEF Untouched
  <2>2. StageFresh(u) \/ StageResume(u)
    BY <2>1, HoldMoves
  <2>3. Replaceable(d)
    BY <1>4, <2>1, <2>2, Overruns DEF StageFresh, StageResume, Holds
  <2>4. section[d] = Free
    BY <2>2, Scope DEF StageFresh, StageResume, Enter
  <2>5. CASE rcpt[t] = "prepared"
    BY <2>3, <2>5, TxnAssumption DEF Replaceable, LiveFence, Reserved
  <2>6. CASE st[t] = "fence"
    BY <1>0, <2>4, <2>6, Holders DEF SectionInv
  <2> QED
    BY <2>5, <2>6
<1> QED
  BY <1>1, <1>3, <1>4 DEF Reserved

\* A Card whose section is held by an ordinary commit comes to be read by no one.
LEMMA UnreadStays ==
    ASSUME BaseInv, [Next]_vars, NEW c \in Cards, Unread(c), wr[c] = "durable" \/ CommitEnter(c)
    PROVE  Unread(c)'
<1>0. Types /\ TxnInv /\ SectionInv
  BY DEF BaseInv
<1> SUFFICES ASSUME NEW u \in Txns, rcpt'[u] = "prepared", c \in Reads[u] PROVE FALSE
  BY DEF Unread
<1>1. rcpt[u] # "prepared"
  BY DEF Unread
<1>2. ~WriteDecided(u)
  BY <1>0 DEF WriteDecided, TxnInv, FinishOK, DECISIONS, Types
<1>3. WriteReceipt(u)
  BY <1>0, <1>1, <1>2, Movers
<1>4. st[u] # "idle" /\ c \in Sections(u) /\ section' = section /\ section[c] = StageOf(u)
  BY <1>0, <1>3, Scope DEF WriteReceipt, SectionInv
<1>5. wr[c] = "idle"
  BY <1>0, <1>4, Exclusion
<1>6. ~CommitEnter(c)
  BY <1>4, Holders DEF CommitEnter, Enter
<1> QED
  BY <1>5, <1>6

\* The fourth layer is inductive.
LEMMA ReserveStep == ASSUME BaseInv, ReserveInv, [Next]_vars PROVE ReserveInv'
<1>0. Types /\ TxnInv /\ SectionInv
  BY DEF BaseInv
<1>1. ASSUME NEW t \in Txns PROVE todo'[t] \subseteq Reads[t]
  BY <1>0, FenceSteps DEF ReserveInv
<1>2. ASSUME NEW t \in Txns, st'[t] = "active" PROVE todo'[t] = Reads[t]
  <2>1. ~StageResume(t)
    BY <1>0, <1>2, Begins
  <2>2. ASSUME NEW d \in Cards, ReserveRead(t, d) PROVE FALSE
    BY <1>2, <2>2 DEF ReserveRead
  <2>3. CASE StageFresh(t)
    BY <1>0, <2>3 DEF StageFresh, Types
  <2>4. CASE st[t] = "active"
    BY <1>0, <1>2, <2>2, <2>3, <2>4, FenceSteps, SMT DEF ReserveInv
  <2>5. ~StageStep(t)
    BY <1>0, <1>2, StageMoves
  <2> QED
    BY <1>0, <1>2, <2>1, <2>3, <2>4, <2>5, Movers
<1>3. ASSUME NEW t \in Txns, st'[t] = "fence", NEW d \in Reads[t] \ todo'[t] PROVE Reserved(t, d)'
  <2>0. d \in Cards /\ ~StageFresh(t) /\ ~StageResume(t)
    BY <1>0, <1>3, Scope, Begins
  <2>1. st[t] \in {"active", "fence"}
    BY <1>0, <1>3, <2>0, Movers, StageMoves
  <2>2. st[t] = "fence"
    <3>1. CASE st[t] = "active"
      <4>1. todo[t] = Reads[t]
        BY <3>1 DEF ReserveInv
      <4>2. todo'[t] = todo[t]
        BY <1>0, <1>3, <2>0, <3>1, FenceSteps DEF ReserveRead
      <4> QED
        BY <1>3, <4>1, <4>2
    <3> QED
      BY <2>1, <3>1
  <2>3. CASE d \notin todo[t]
    <3>1. Reserved(t, d)
      BY <1>3, <2>2, <2>3 DEF ReserveInv
    <3> QED
      BY <1>3, <2>2, <3>1, ReservedStays
  <2>4. CASE d \in todo[t]
    <3>1. ReserveRead(t, d)
      BY <1>0, <1>3, <2>0, <2>4, FenceSteps
    <3>2. Untouched(d) /\ Logical(d).n = Expected(t, d)
      BY <2>0, <2>2, <3>1, ReservableUntouched
    <3>3. /\ fence'[d] = t /\ rcpt' = rcpt /\ ptr' = ptr /\ decision' = decision /\ plan' = plan
          /\ st' = st /\ marker' = marker
      BY <1>0, <2>0, <3>1 DEF ReserveRead, ledger, Types
    <3>4. Logical(d)' = Logical(d) /\ Expected(t, d)' = Expected(t, d)
      BY <3>3, SMT DEF Logical, Expected, Before, After
    <3>5. Untouched(d)'
      BY <3>2, <3>3 DEF Untouched, Holds
    <3> QED
      BY <3>2, <3>3, <3>4, <3>5 DEF Reserved
  <2> QED
    BY <2>3, <2>4
<1>4. ASSUME NEW t \in Txns, rcpt'[t] = "prepared", NEW d \in Reads[t] PROVE Reserved(t, d)'
  <2>1. ~WriteDecided(t)
    BY <1>0, <1>4 DEF WriteDecided, TxnInv, FinishOK, DECISIONS, Types
  <2>2. Reserved(t, d) /\ (rcpt[t] = "prepared" \/ st[t] = "fence")
    <3>1. CASE rcpt[t] = "prepared"
      BY <1>4, <3>1 DEF ReserveInv
    <3>2. CASE WriteReceipt(t)
      BY <1>4, <3>2 DEF WriteReceipt, ReserveInv
    <3> QED
      BY <1>0, <1>4, <2>1, <3>1, <3>2, Movers
  <2> QED
    BY <1>4, <2>2, ReservedStays
<1>5. ASSUME NEW c \in Cards, wr'[c] = "durable" PROVE Unread(c)'
  <2>1. CASE CommitEnter(c)
    <3>1. Unread(c)
      BY <2>1, ReplaceableUnread DEF CommitEnter
    <3> QED
      BY <2>1, <3>1, UnreadStays
  <2>2. CASE wr[c] = "durable"
    BY <2>2, UnreadStays DEF ReserveInv
  <2> QED
    BY <1>0, <1>5, <2>1, <2>2, WriterMoves
<1> QED
  BY <1>1, <1>2, <1>3, <1>4, <1>5 DEF ReserveInv

\* What a prepared transaction reads is fenced and, unless a replay overran it, at
\* the expected revision and held by no other transaction, wherever STAGE is cut.
THEOREM ReserveInductive == Spec => []ReserveInv
<1>1. BaseInv /\ ReserveInv /\ [Next]_vars => ReserveInv'
  BY ReserveStep
<1> QED
  BY <1>1, InitReserve, BaseInductive, PTL DEF Spec

\* A commit is recorded only while the Card is the planned original and every
\* reserved dependency is at its expected revision, if no replay overran any of them.
THEOREM CommitsOnPlan == Spec => CommitOnPlannedState
<1>1. ASSUME BaseInv, CardInv, ReserveInv, [Next]_vars, NEW t \in Txns, decision[t] # "committed", decision'[t] = "committed",
             Sections(t) \cap overrun = {}
      PROVE  Logical(Target[t]) = Before(t) /\ \A d \in Reads[t] : Logical(d).n = Expected(t, d)
  <2>0. Types /\ StageOK(t) /\ FinishOK(t) /\ Target[t] \notin overrun /\ \A d \in Reads[t] : d \notin overrun
    BY <1>1, Scope DEF BaseInv, TxnInv
  <2>1. Decide(t)
    BY <1>1, <2>0, Movers
  <2>2. decision[t] = "undecided" /\ t \in acked
    BY <1>1, <2>0, <2>1 DEF Decide, Types
  <2>3. rcpt[t] = "prepared"
    BY <2>0, <2>2 DEF StageOK, FinishOK, DECISIONS, Types, States
  <2>4. ptr[Target[t]] = Staged(t)
    BY <1>1, <2>0, <2>2, <2>3 DEF CardInv, OverOK, IsStaged
  <2>5. Logical(Target[t]) = Before(t)
    BY <1>1, <2>4, TxnAssumption, SMT DEF Logical, Staged
  <2>6. \A d \in Reads[t] : Logical(d).n = Expected(t, d)
    BY <1>1, <2>0, <2>3 DEF ReserveInv, Reserved
  <2> QED
    BY <2>5, <2>6
<1>2. BaseInv /\ CardInv /\ ReserveInv /\ [Next]_vars =>
        [\A t \in Txns : (decision[t] # "committed" /\ decision'[t] = "committed" /\ Sections(t) \cap overrun = {}) =>
            /\ Logical(Target[t]) = Before(t)
            /\ \A d \in Reads[t] : Logical(d).n = Expected(t, d)]_vars
  BY <1>1
<1> QED
  BY <1>2, BaseInductive, CardInductive, ReserveInductive, PTL DEF Spec, CommitOnPlannedState
=============================================================================
