------------------------------ MODULE CardRows ------------------------------
(***************************************************************************)
(* One mutable Card object (a Card's current pointer, or the marker of a   *)
(* Card-version transaction) as a fenced database row with a file hint     *)
(* beside it, written under leased Redis locks.                            *)
(*                                                                         *)
(* A lease can end while its holder still runs, so the lock alone does not *)
(* keep a stalled holder's write out.  Every claim and write draws the     *)
(* operation's fence token, then checks that the leases are still its own, *)
(* then runs ONE statement; the three are separate steps, and the holder   *)
(* may stall, lose its leases or die between any two of them.              *)
(***************************************************************************)
EXTENDS Naturals, FiniteSets

CONSTANTS Ops,      \* processes that run Card operations, one at a time each
          NoOp,
          Keys, Takes,  \* lock keys, numbered in the order they are taken; Takes[o]: the ones o takes
          RowKey,   \* the key of the Card whose pointer the row is
          MaxToken, \* bound on the fence tokens drawn
          MaxDoc    \* bound on the documents written

ASSUME RowsAssumption == /\ NoOp \notin Ops
                         /\ Keys \subseteq Nat /\ IsFiniteSet(Keys)
                         /\ RowKey \in Keys /\ Takes \in [Ops -> SUBSET Keys]
                         /\ MaxToken \in Nat /\ MaxDoc \in Nat

VARIABLES
    kind,   \* "pointer" or "marker": which object this row is
    redis,  \* redis[k]: the operation whose value the lock key holds
    seq,    \* the fence sequence: the last token drawn
    row,    \* the row; rev 0 is no row
    hint,   \* current.json or the marker file, and whether it is tagged; doc 0 is no file
    incs, docs,  \* the last incarnation and the last document handed out
    dead,   \* (history) documents of deleted rows
    at, call,  \* an operation's next step and its store call
    keys,   \* keys[o]: the sections o is in
    token, claim, obs,  \* CardRowOperation: fence_token, claims, observed
    read,   \* whether o observed the row, and whether since it last took RowKey
    seen,   \* the document o last read or wrote
    doc,    \* the document o is adopting, or writing to the file (0: removing)
    free    \* what the object has been since a reader without a lock found no row; {} when there is none

lease == <<redis, keys>>
stored == <<row, hint, incs, dead>>
context == <<token, claim, obs, read, seen>>
vars == <<kind, redis, seq, row, hint, incs, docs, dead, at, call, keys, token, claim, obs, read,
          seen, doc, free>>

NoDoc == 0
CUTOVER == 1  \* the document of a file written before the rows were turned on
NoRow == [rev |-> 0, inc |-> 0, doc |-> NoDoc, fence |-> 0]
Unseen == [rev |-> 0, inc |-> 0]
NoHint == [doc |-> NoDoc, era |-> "files"]
Holder(o) == IF kind = "pointer" THEN RowKey \in keys[o] ELSE keys[o] # {}
Owns(o) == \A k \in keys[o] : redis[k] = o
Last(S) == CHOOSE k \in S : \A j \in S : j <= k

Init == /\ kind \in {"pointer", "marker"}
        /\ redis = [k \in Keys |-> NoOp]
        /\ seq = 0 /\ row = NoRow /\ incs = 0 /\ docs = CUTOVER /\ dead = {}
        /\ hint \in {NoHint, [doc |-> CUTOVER, era |-> "files"]}
        /\ at = [o \in Ops |-> "out"]
        /\ call = [o \in Ops |-> "none"] /\ keys = [o \in Ops |-> {}]
        /\ token = [o \in Ops |-> 0] /\ claim = [o \in Ops |-> 0]
        /\ obs = [o \in Ops |-> Unseen] /\ read = [o \in Ops |-> "never"]
        /\ seen = [o \in Ops |-> NoDoc] /\ doc = [o \in Ops |-> NoDoc]
        /\ free = {}
----------------------------------------------------------------------------
(* The locks: the Redis key, then the container-local lock file.  The file *)
(* excludes operations of one container only; these run on different ones. *)

\* Sections nest in the order of their keys.
NextKey(o, k) == k \in Takes[o] \ keys[o] /\ \A j \in Takes[o] : j \in keys[o] <=> j < k

\* SET NX, keys in order; a new section forgets the token drawn before it.
Acquire(o, k) == /\ at[o] \in {"out", "in"} /\ NextKey(o, k)
                 /\ redis[k] = NoOp
                 /\ redis' = [redis EXCEPT ![k] = o]
                 /\ keys' = [keys EXCEPT ![o] = @ \cup {k}]
                 /\ token' = [token EXCEPT ![o] = 0]
                 /\ at' = [at EXCEPT ![o] = "in"]
                 /\ UNCHANGED <<seq, stored, docs, call, claim, obs, read, seen, doc>>

\* The time limit passed with no renewal in between.
Expire(k) == /\ redis[k] # NoOp
             /\ redis' = [redis EXCEPT ![k] = NoOp]
             /\ UNCHANGED <<keys, seq, stored, docs, at, call, context, doc>>

\* The outermost section ends and the operation's context with it.
Closed(o) == /\ keys' = [keys EXCEPT ![o] = {}]
             /\ token' = [token EXCEPT ![o] = 0] /\ claim' = [claim EXCEPT ![o] = 0]
             /\ obs' = [obs EXCEPT ![o] = Unseen] /\ read' = [read EXCEPT ![o] = "never"]
             /\ seen' = [seen EXCEPT ![o] = NoDoc] /\ doc' = [doc EXCEPT ![o] = NoDoc]
             /\ call' = [call EXCEPT ![o] = "none"] /\ at' = [at EXCEPT ![o] = "out"]

\* Owner-checked deletes of the keys.
Released(o) == redis' = [k \in Keys |-> IF k \in keys[o] /\ redis[k] = o THEN NoOp ELSE redis[k]]

\* An operation ends, or an error leaves its sections.
Leave(o) == Closed(o) /\ Released(o)

Exit(o) == /\ at[o] = "in" /\ Leave(o)
           /\ UNCHANGED <<seq, stored, docs>>

\* An inner section ends: the context lives on.
ExitInner(o) == /\ at[o] = "in"
                /\ LET k == Last(keys[o])
                   IN  /\ keys[o] # {k}
                       /\ redis' = IF redis[k] = o THEN [redis EXCEPT ![k] = NoOp] ELSE redis
                       /\ keys' = [keys EXCEPT ![o] = @ \ {k}]
                       /\ read' = [read EXCEPT ![o] = IF k = RowKey /\ @ = "now" THEN "past" ELSE @]
                /\ UNCHANGED <<seq, stored, docs, at, call, token, claim, obs, seen, doc>>

\* The process dies, or Redis does not answer the release: the keys wait for their time limit.
Crash(o) == /\ at[o] # "out"
            /\ Closed(o)
            /\ UNCHANGED <<redis, seq, stored, docs>>
----------------------------------------------------------------------------
(* The three steps of every claim and write: draw, guard, statement.       *)

Draw(o) == IF token[o] > 0 THEN UNCHANGED <<seq, token>>
           ELSE /\ seq < MaxToken
                /\ seq' = seq + 1 /\ token' = [token EXCEPT ![o] = seq + 1]

StartRead(o) == /\ at[o] = "in" /\ Holder(o) /\ Draw(o)
                /\ call' = [call EXCEPT ![o] = "read"]
                /\ at' = [at EXCEPT ![o] = "guard"]
                /\ UNCHANGED <<lease, stored, docs, claim, obs, read, seen, doc>>

\* A pointer read inside some section but not this Card's: observes, claims nothing.
Peek(o) == /\ at[o] = "in" /\ ~Holder(o)
           /\ obs' = [obs EXCEPT ![o] = [rev |-> row.rev, inc |-> row.inc]]
           /\ seen' = [seen EXCEPT ![o] = row.doc]
           /\ read' = [read EXCEPT ![o] = "past"]
           /\ UNCHANGED <<lease, stored, docs, seq, at, call, token, claim, doc>>

\* Both need an earlier read (card_row_unobserved).
StartWrite(o) == /\ at[o] = "in" /\ Holder(o) /\ read[o] # "never" /\ Draw(o)
                 /\ \/ call' = [call EXCEPT ![o] = "write"]
                    \/ /\ kind = "marker" \/ seen[o] # NoDoc
                       /\ call' = [call EXCEPT ![o] = "remove"]
                 /\ at' = [at EXCEPT ![o] = "guard"]
                 /\ UNCHANGED <<lease, stored, docs, claim, obs, read, seen, doc>>

\* assert_card_lock_owned: every key still holds this operation's value.
Guard(o) == /\ at[o] \in {"guard", "hintguard"} /\ Owns(o)
            /\ at' = [at EXCEPT ![o] = IF @ = "guard" THEN "row" ELSE "hint"]
            /\ UNCHANGED <<lease, stored, docs, seq, call, context, doc>>

Idle(o, next) == /\ at' = [at EXCEPT ![o] = next]
                 /\ call' = [call EXCEPT ![o] = "none"] /\ doc' = [doc EXCEPT ![o] = NoDoc]

\* card_lock_lost: a key is another's, a renewal failed since (_renew), or Redis did not answer.
GuardRefuses(o) == /\ at[o] \in {"guard", "hintguard"}
                   /\ Leave(o)
                   /\ UNCHANGED <<stored, docs, seq>>
----------------------------------------------------------------------------
(* The row statements.                                                     *)

\* Mutant: a claim always takes the fence.
ClaimAlways(t) == [row EXCEPT !.fence = t]

\* A claim takes the fence unless a newer token holds it.
Claimed(t) == [row EXCEPT !.fence = IF row.fence <= t THEN t ELSE row.fence]

\* read_pointer, read_marker with a claim, in one statement.
ReadRow(o) == /\ at[o] = "row" /\ call[o] \in {"read", "reread"} /\ row.rev > 0
              /\ row' = Claimed(token[o])
              /\ claim' = [claim EXCEPT ![o] = IF row.fence <= token[o] THEN token[o] ELSE 0]
              /\ obs' = [obs EXCEPT ![o] = [rev |-> row.rev, inc |-> row.inc]]
              /\ seen' = [seen EXCEPT ![o] = row.doc]
              /\ read' = [read EXCEPT ![o] = "now"]
              /\ Idle(o, "in")
              /\ UNCHANGED <<lease, hint, incs, dead, docs, seq, token>>

ReadNoRow(o) == /\ at[o] = "row" /\ call[o] = "read" /\ row.rev = 0
                /\ obs' = [obs EXCEPT ![o] = Unseen]
                /\ read' = [read EXCEPT ![o] = "now"]
                /\ Idle(o, "hintread")
                /\ UNCHANGED <<lease, stored, docs, seq, token, claim, seen>>

\* card_version_marker_adoption_failed: the adopted row is gone again.
AdoptionFails(o) == /\ at[o] = "row" /\ call[o] = "reread" /\ row.rev = 0
                    /\ Leave(o)
                    /\ UNCHANGED <<stored, docs, seq>>

\* No row: an untagged file is adopted, a tagged one is an orphan and is removed.
ReadHint(o) ==
    /\ at[o] = "hintread"
    /\ seen' = [seen EXCEPT ![o] = NoDoc]
    /\ \/ hint.doc = NoDoc /\ Idle(o, "in")
       \/ hint.doc # NoDoc /\ hint.era = "rows" /\ Idle(o, "hintguard")
       \/ /\ hint.doc # NoDoc /\ hint.era = "files"
          /\ doc' = [doc EXCEPT ![o] = hint.doc]
          /\ call' = [call EXCEPT ![o] = "adopt"]
          /\ at' = [at EXCEPT ![o] = "guard"]
    /\ UNCHANGED <<lease, stored, docs, seq, token, claim, obs, read>>

\* INSERT ... ON CONFLICT DO NOTHING; the row is read again with a claim.
AdoptRow(o) == /\ at[o] = "row" /\ call[o] = "adopt"
               /\ row' = IF row.rev > 0 THEN row
                         ELSE [rev |-> 1, inc |-> incs + 1, doc |-> doc[o], fence |-> token[o]]
               /\ incs' = IF row.rev > 0 THEN incs ELSE incs + 1
               /\ call' = [call EXCEPT ![o] = "reread"] /\ doc' = [doc EXCEPT ![o] = NoDoc]
               /\ UNCHANGED <<lease, hint, dead, docs, seq, at, context>>

\* Mutant: the CAS names the revision only.
MatchesByRevision(o) == row.rev = obs[o].rev

\* The row this operation read, still claimed by it.
Matches(o) == /\ row.rev = obs[o].rev /\ row.inc = obs[o].inc
              /\ row.fence = claim[o] /\ claim[o] > 0

\* write_pointer, write_marker: a new document, or the mark of a removed pointer, whose row stays.
Writing(o) == at[o] = "row" /\ (call[o] = "write" \/ (call[o] = "remove" /\ kind = "pointer"))
Written(o) == IF call[o] = "write" THEN docs + 1 ELSE NoDoc
Wrote(o) == /\ docs' = (IF call[o] = "write" THEN docs + 1 ELSE docs) /\ docs' <= MaxDoc
            /\ doc' = [doc EXCEPT ![o] = Written(o)]
            /\ seen' = [seen EXCEPT ![o] = Written(o)]
            /\ at' = [at EXCEPT ![o] = "hintguard"] /\ call' = [call EXCEPT ![o] = "none"]
            /\ UNCHANGED <<lease, hint, dead, seq, token, read>>

\* INSERT ... ON CONFLICT DO NOTHING, when the operation saw no row.
CreateRow(o) == /\ Writing(o) /\ obs[o].rev = 0 /\ row.rev = 0
                /\ row' = [rev |-> 1, inc |-> incs + 1, doc |-> Written(o), fence |-> token[o]]
                /\ incs' = incs + 1
                /\ claim' = [claim EXCEPT ![o] = token[o]]
                /\ obs' = [obs EXCEPT ![o] = [rev |-> 1, inc |-> incs + 1]]
                /\ Wrote(o)

\* The CAS.
UpdateRow(o) == /\ Writing(o) /\ obs[o].rev > 0 /\ Matches(o)
                /\ row' = [row EXCEPT !.rev = @ + 1, !.doc = Written(o)]
                /\ obs' = [obs EXCEPT ![o] = [rev |-> row.rev + 1, inc |-> row.inc]]
                /\ UNCHANGED <<incs, claim>>
                /\ Wrote(o)

\* delete_marker
DeleteRow(o) == /\ at[o] = "row" /\ call[o] = "remove" /\ kind = "marker"
                /\ obs[o].rev > 0 => Matches(o)
                /\ row' = IF obs[o].rev > 0 THEN NoRow ELSE row
                /\ dead' = IF obs[o].rev > 0 THEN dead \cup {row.doc} ELSE dead
                /\ obs' = [obs EXCEPT ![o] = Unseen]
                /\ seen' = [seen EXCEPT ![o] = NoDoc]
                /\ Idle(o, "hintguard")
                /\ UNCHANGED <<lease, hint, incs, docs, seq, token, claim, read>>

\* card_pointer_moved, card_version_marker_moved: the statement matched no row.
Moved(o) == /\ at[o] = "row" /\ call[o] \in {"write", "remove"}
            /\ \/ obs[o].rev > 0 /\ ~Matches(o)
               \/ obs[o].rev = 0 /\ row.rev > 0 /\ call[o] = "write"
            /\ Leave(o)
            /\ UNCHANGED <<stored, docs, seq>>

\* Mutant: the hint carries no era.
WriteHintUntagged(o) == /\ at[o] = "hint"
                        /\ hint' = [doc |-> doc[o], era |-> "files"]
                        /\ Idle(o, "in")
                        /\ UNCHANGED <<lease, row, incs, dead, docs, seq, context>>

\* The file after the row: written (a marker's is tagged) or removed.
WriteHint(o) == /\ at[o] = "hint"
                /\ hint' = [doc |-> doc[o], era |-> IF kind = "marker" /\ doc[o] # NoDoc THEN "rows" ELSE "files"]
                /\ Idle(o, "in")
                /\ UNCHANGED <<lease, row, incs, dead, docs, seq, context>>
----------------------------------------------------------------------------
(* A reader without a lock: the row, and the file when there is no row.    *)

Visible == IF row.rev > 0 THEN row.doc ELSE IF hint.era = "rows" THEN NoDoc ELSE hint.doc

\* With a row the read is one statement; without one the file is read next.
FreeRead == /\ free = {} /\ row.rev = 0
            /\ free' = {Visible}
            /\ UNCHANGED <<kind, lease, stored, docs, seq, at, call, context, doc>>

Answer == IF hint.era = "rows" THEN NoDoc ELSE hint.doc
FreeHint == /\ free # {}
            /\ free' = {}
            /\ UNCHANGED <<kind, lease, stored, docs, seq, at, call, context, doc>>

Watched == free' = IF free = {} THEN {} ELSE free \cup {Visible'}

OpStep(o) == \/ \E k \in Keys : Acquire(o, k)
             \/ Exit(o) \/ ExitInner(o) \/ Crash(o)
             \/ StartRead(o) \/ Peek(o) \/ StartWrite(o)
             \/ Guard(o) \/ GuardRefuses(o)
             \/ ReadRow(o) \/ ReadNoRow(o) \/ ReadHint(o) \/ AdoptRow(o) \/ AdoptionFails(o)
             \/ CreateRow(o) \/ UpdateRow(o) \/ DeleteRow(o) \/ Moved(o) \/ WriteHint(o)

Next == /\ (\E o \in Ops : OpStep(o)) \/ (\E k \in Keys : Expire(k))
        /\ Watched /\ UNCHANGED kind

Spec == Init /\ [][Next]_vars
\* With readers that hold no lock.
ReaderSpec == Init /\ [][Next \/ FreeRead \/ FreeHint]_vars
----------------------------------------------------------------------------
Tokens == 0..MaxToken

OpTypes ==
    /\ kind \in {"pointer", "marker"}
    /\ redis \in [Keys -> Ops \cup {NoOp}]
    /\ seq \in Tokens /\ incs \in Nat /\ docs \in Nat
    /\ row \in [rev : Nat, inc : Nat, doc : Nat, fence : Tokens]
    /\ hint \in [doc : Nat, era : {"files", "rows"}]
    /\ dead \subseteq Nat
    /\ at \in [Ops -> {"out", "in", "guard", "row", "hintread", "hintguard", "hint"}]
    /\ call \in [Ops -> {"none", "read", "reread", "adopt", "write", "remove"}]
    /\ keys \in [Ops -> SUBSET Keys]
    /\ token \in [Ops -> Tokens] /\ claim \in [Ops -> Tokens]
    /\ obs \in [Ops -> [rev : Nat, inc : Nat]]
    /\ read \in [Ops -> {"never", "past", "now"}]
    /\ seen \in [Ops -> Nat] /\ doc \in [Ops -> Nat]

\* Every variable has its type.
TypeOK == OpTypes /\ free \subseteq Nat

\* The operation that holds the Card's lease and has read the pointer in it.
Live(o) == RowKey \in keys[o] /\ redis[RowKey] = o /\ read[o] = "now"

\* The pointer row stays exactly as the lease's present holder read it, and stays claimed by it, whatever
\* operations that lost the lease still have in flight: its own write is never refused (locks.py, the ordered fence).
OwnerKeepsTheRow ==
    kind = "pointer" => \A o \in Ops : Live(o) /\ obs[o].rev > 0 => Matches(o) /\ row.doc = seen[o]

\* No write or delete lands over a document its operation did not read, with or without the lease: no update is
\* lost and no re-created row is mistaken for the one read (write_pointer, write_marker, delete_marker).
WriteOverWhatWasRead ==
    [][\A o \in Ops : /\ at[o] = "row" /\ call[o] \in {"write", "remove"}
                      /\ (row'.doc # row.doc \/ row'.rev # row.rev)
                      /\ at'[o] = "hintguard"
                      => row.rev = obs[o].rev /\ (row.rev > 0 => row.doc = seen[o])]_vars

\* A document written to a row never comes back once its row is deleted: the only document a later read may
\* adopt is the file's from before the rows were turned on (read_marker_document, the tagged hint).
DeletedStaysDeleted == row.rev > 0 /\ row.doc \in dead => row.doc <= CUTOVER

\* A read of a marker without a lock answers what the marker was while the read ran: a tagged file with no row
\* "is a hint of a row that was DELETED" (store.py), so the marker was absent.
MarkerReadIsCurrent == [][kind = "marker" /\ free # {} /\ free' = {} => Answer \in free]_vars
=============================================================================
