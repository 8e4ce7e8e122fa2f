---------------------------- MODULE CardServing ----------------------------
(***************************************************************************)
(* The Redis projection of one Card and what keeps it behind no revision   *)
(* that was acknowledged.                                                  *)
(*                                                                         *)
(* A key holds a projection, an updating marker or a revoked tombstone.    *)
(* Mutations, read-throughs and sweeps change it by scripts that compare    *)
(* and set.  Markers and tombstones expire; Redis may restart from an older *)
(* snapshot, and nothing is served until the new run has been swept.        *)
(*                                                                         *)
(* A mutation holds the Card's section, so there is one at a time; it may   *)
(* die after each step.                                                    *)
(***************************************************************************)
EXTENDS Naturals

CONSTANTS Sweepers,
          MaxRev,    \* bound on revision numbers, and on mutations
          MaxRun     \* bound on Redis runs

ASSUME ServingAssumption == MaxRev \in Nat \ {0} /\ MaxRun \in Nat \ {0}

VARIABLES
    dur,       \* the durable current revision: its number and state
    acked,     \* (history) the last revision whose mutation returned to its caller
    key,       \* the Card's key in Redis
    run,       \* the live run_id
    epoch,     \* the run recorded as swept; 0 when there is none
    lock,      \* the sweep lock: the run and the sweeper in its token
    snap,      \* what the last snapshot saved of key, epoch and lock
    mut,       \* the mutation in the section: next step, its id, the state it commits
    reader,    \* a read-through: next step, the run it was proven in, the revision it read
    sweep,     \* sweep[s]: next step, its run, the entry it read, the durable read
    late,      \* (history) an entry newer than what the read-through holds was removed
    revived    \* (history) a write that came too late has changed the key

redis == <<key, epoch, lock>>
hist == <<late, revived>>
vars == <<dur, acked, key, run, epoch, lock, snap, mut, reader, sweep, late, revived>>

Absent == [kind |-> "absent", rev |-> 0, id |-> 0]
Card(n) == [kind |-> "card", rev |-> n, id |-> 0]
Revoked(n) == [kind |-> "revoked", rev |-> n, id |-> 0]
Updating(n, m) == [kind |-> "updating", rev |-> n, id |-> m]
NoLock == [run |-> 0, by |-> {}]
Empty == [key |-> Absent, epoch |-> 0, lock |-> NoLock]
Idle == [at |-> "idle", run |-> 0, entry |-> Absent, dur |-> [rev |-> 0, st |-> "active"]]
NoRead == [at |-> "idle", run |-> 0, rev |-> 0]

Init == /\ dur = [rev |-> 1, st |-> "active"]
        /\ acked = 1
        /\ key \in {Absent, Card(1)}
        /\ run = 1 /\ epoch = 1 /\ lock = NoLock
        /\ snap = Empty
        /\ mut = [at |-> "idle", id |-> 0, st |-> "active"]
        /\ reader = NoRead
        /\ sweep = [s \in Sweepers |-> Idle]
        /\ late = FALSE /\ revived = FALSE
----------------------------------------------------------------------------
\* Nothing in the scripts bounds how long a read-through or a repair is on its way, so
\* the model bounds neither; it notes when one was overtaken. The entry in the key is
\* about to be removed although the read-through holds an older revision:
Overtakes == reader.at = "restore" /\ reader.rev < key.rev

\* A sweep has looked at the key in the live run.
Scanned == \/ epoch = run
           \/ \E s \in Sweepers : sweep[s].run = run /\ sweep[s].at \in {"durable", "repair", "record"}

\* _INSTALL_MARKER_LUA: another mutation's marker and another revision refuse.
Claimable(k) == k.kind \in {"card", "revoked"} => k.rev = dur.rev

\* _RESTORE_LUA: only over an absent key or a strictly older projection.
Restored(k, n) == IF k = Absent \/ (k.kind = "card" /\ k.rev < n) THEN Card(n) ELSE k

\* _RECONCILE_LUA: an older projection or tombstone is replaced by the durable
\* projection d, or removed when that is not usable.
Reconciled(k, d) == IF k.kind \in {"card", "revoked"} /\ k.rev < d.rev
                      THEN IF d.st = "active" THEN Card(d.rev) ELSE Absent
                      ELSE k

\* Mutant: only the mutation's own marker is replaced.
FinalizedOwn(k, v, m) == IF k = Absent \/ (k.kind = "updating" /\ k.id = m) THEN v ELSE k

\* _FINALIZE_LUA with the value v of mutation m: over its own marker, an absent
\* key, or a projection it strictly supersedes.
Finalized(k, v, m) == IF \/ k = Absent
                         \/ k.kind = "updating" /\ k.id = m
                         \/ k.kind = "card" /\ k.rev < v.rev
                        THEN v ELSE k
----------------------------------------------------------------------------
MutGoto(s) == mut' = [mut EXCEPT !.at = s]
MutEnds == mut' = [mut EXCEPT !.at = "idle", !.st = "active"]

\* commit and revoke: inside the section, with the current revision expected.
Begin(st) == /\ mut.at = "idle" /\ mut.id < MaxRev /\ dur.rev < MaxRev
             /\ mut' = [at |-> "reconcile", id |-> mut.id + 1, st |-> st]
             /\ UNCHANGED <<dur, acked, redis, run, snap, reader, sweep, hist>>

\* DelegatedCardService._reconcile
Reconcile == /\ mut.at = "reconcile"
             /\ key' = Reconciled(key, dur)
             /\ MutGoto("claim")
             /\ UNCHANGED <<dur, acked, run, epoch, lock, snap, reader, sweep, hist>>

\* _mark_updating, or its refusal with card_transition_not_claimed.
MarkUpdating == /\ mut.at = "claim"
                /\ \/ /\ key.kind # "updating" /\ Claimable(key)
                      /\ key' = Updating(dur.rev, mut.id)
                      /\ MutGoto("commit")
                   \/ /\ key.kind = "updating" \/ ~Claimable(key)
                      /\ MutEnds
                      /\ UNCHANGED key
                /\ UNCHANGED <<dur, acked, run, epoch, lock, snap, reader, sweep, hist>>

\* _commit_durable: the revision becomes current, or the marker is released.
CommitDurable == /\ mut.at = "commit"
                 /\ \/ /\ dur' = [rev |-> dur.rev + 1, st |-> mut.st]
                       /\ MutGoto("install")
                    \/ MutGoto("release") /\ UNCHANGED dur
                 /\ UNCHANGED <<acked, redis, run, snap, reader, sweep, hist>>

\* finalize_removal passes no revision: only the own marker is dropped.
Release == /\ mut.at = "release"
           /\ key' = IF key.kind = "updating" /\ key.id = mut.id THEN Absent ELSE key
           /\ late' = (late \/ (key' = Absent /\ Overtakes))
           /\ MutEnds
           /\ UNCHANGED <<dur, acked, run, epoch, lock, snap, reader, sweep, revived>>

\* commit_projection or commit_tombstone; the mutation returns although the
\* script may have refused.
Install == /\ mut.at = "install"
           /\ key' = Finalized(key, IF dur.st = "active" THEN Card(dur.rev) ELSE Revoked(dur.rev), mut.id)
           /\ acked' = dur.rev
           /\ MutEnds
           /\ UNCHANGED <<dur, run, epoch, lock, snap, reader, sweep, hist>>

MutationDies == /\ mut.at # "idle" /\ MutEnds
                /\ UNCHANGED <<dur, acked, redis, run, snap, reader, sweep, hist>>
----------------------------------------------------------------------------
\* resolve on an absent key in a swept run. (A present entry is answered from
\* the same Redis transaction; an unswept run is refused or swept first.)
ReadMiss == /\ reader.at = "idle" /\ epoch = run /\ key = Absent
            /\ reader' = [at |-> "durable", run |-> run, rev |-> 0]
            /\ UNCHANGED <<dur, acked, redis, run, snap, mut, sweep, hist>>

\* _restore reads the durable revision; a revoked one denies.
ReadDurable == /\ reader.at = "durable"
               /\ reader' = IF dur.st = "active" THEN [reader EXCEPT !.at = "restore", !.rev = dur.rev]
                                                 ELSE NoRead
               /\ UNCHANGED <<dur, acked, redis, run, snap, mut, sweep, hist>>

Restore == /\ reader.at = "restore"
           /\ key' = Restored(key, reader.rev)
           /\ revived' = (revived \/ (key' # key /\ (late \/ (reader.run # run /\ Scanned))))
           /\ reader' = NoRead /\ late' = FALSE
           /\ UNCHANGED <<dur, acked, run, epoch, lock, snap, mut, sweep>>

ReaderDies == /\ reader.at # "idle" /\ reader' = NoRead /\ late' = FALSE
              /\ UNCHANGED <<dur, acked, redis, run, snap, mut, sweep, revived>>
----------------------------------------------------------------------------
\* An updating marker is not assumed to outlive its mutation.
MarkerExpires == /\ key.kind = "updating"
                 /\ key' = Absent
                 /\ late' = (late \/ Overtakes)
                 /\ UNCHANGED <<dur, acked, run, epoch, lock, snap, mut, reader, sweep, revived>>

TombstoneExpires == /\ key.kind = "revoked"
                    /\ key' = Absent
                    /\ late' = (late \/ Overtakes)
                    /\ UNCHANGED <<dur, acked, run, epoch, lock, snap, mut, reader, sweep, revived>>

LockExpires == /\ lock # NoLock /\ lock' = NoLock
               /\ UNCHANGED <<dur, acked, key, run, epoch, snap, mut, reader, sweep, hist>>

\* Redis saves a snapshot, and restarts from it as a new run. (The last run's
\* snapshots are not kept: no restart reads them.)
Snapshot == /\ run < MaxRun
            /\ snap' = [key |-> key, epoch |-> epoch, lock |-> lock]
            /\ UNCHANGED <<dur, acked, redis, run, mut, reader, sweep, hist>>

Restart == /\ run < MaxRun /\ run' = run + 1
           /\ key' = snap.key /\ epoch' = snap.epoch /\ lock' = snap.lock
           /\ snap' = IF run' < MaxRun THEN snap ELSE Empty
           /\ UNCHANGED <<dur, acked, mut, reader, sweep, hist>>
----------------------------------------------------------------------------
SweepGoto(s, at) == sweep' = [sweep EXCEPT ![s].at = at]

\* CardProjectionReconciler.reconcile reads the run and then the epoch, and is
\* done when they agree.
ReadRun(s) == /\ sweep[s].at = "idle"
              /\ sweep' = [sweep EXCEPT ![s] = [Idle EXCEPT !.at = "epoch", !.run = run]]
              /\ UNCHANGED <<dur, acked, redis, run, snap, mut, reader, hist>>

ReadEpoch(s) == /\ sweep[s].at = "epoch"
                /\ IF epoch = sweep[s].run THEN sweep' = [sweep EXCEPT ![s] = Idle]
                                           ELSE SweepGoto(s, "acquire")
                /\ UNCHANGED <<dur, acked, redis, run, snap, mut, reader, hist>>

\* _ACQUIRE_LUA: a lock is taken over unless it names the sweeper's own run.
Acquire(s) == /\ sweep[s].at = "acquire"
              /\ \/ /\ lock.run # sweep[s].run
                    /\ lock' = [run |-> sweep[s].run, by |-> {s}]
                    /\ SweepGoto(s, "scan")
                 \/ /\ lock.run = sweep[s].run
                    /\ sweep' = [sweep EXCEPT ![s] = Idle]
                    /\ UNCHANGED lock
              /\ UNCHANGED <<dur, acked, key, run, epoch, snap, mut, reader, hist>>

\* _sweep reads the entry; a missing one and a marker are passed over.
Scan(s) == /\ sweep[s].at = "scan"
           /\ IF key.kind \in {"absent", "updating"} THEN SweepGoto(s, "record")
              ELSE sweep' = [sweep EXCEPT ![s].at = IF key.kind = "card" THEN "durable" ELSE "repair",
                                          ![s].entry = key]
           /\ UNCHANGED <<dur, acked, redis, run, snap, mut, reader, hist>>

\* _repair reads the durable revision.
ReadForRepair(s) == /\ sweep[s].at = "durable"
                    /\ sweep' = [sweep EXCEPT ![s].at = "repair", ![s].dur = dur]
                    /\ UNCHANGED <<dur, acked, redis, run, snap, mut, reader, hist>>

\* A tombstone is removed, whatever the Card's durable state; a projection is
\* brought to the durable revision if that is newer than the one scanned.
Repair(s) == LET e == sweep[s].entry
                 d == IF e.kind = "revoked" THEN [rev |-> e.rev + 1, st |-> "revoked"]
                                            ELSE sweep[s].dur
             IN /\ sweep[s].at = "repair"
                /\ key' = IF d.rev <= e.rev THEN key ELSE Reconciled(key, d)
                /\ late' = (late \/ (key' = Absent /\ Overtakes))
                /\ revived' = (revived \/ (sweep[s].run # run /\ Scanned /\ key.kind = "revoked" /\ key'.kind = "card"))
                /\ sweep' = [sweep EXCEPT ![s] = [Idle EXCEPT !.at = "record", !.run = sweep[s].run]]
                /\ UNCHANGED <<dur, acked, run, epoch, lock, snap, mut, reader>>

Holds(s) == lock = [run |-> sweep[s].run, by |-> {s}]

\* _RECORD_EPOCH_LUA, with the own token only.
RecordEpoch(s) == /\ sweep[s].at = "record"
                  /\ epoch' = IF Holds(s) THEN sweep[s].run ELSE epoch
                  /\ SweepGoto(s, "release")
                  /\ UNCHANGED <<dur, acked, key, lock, run, snap, mut, reader, hist>>

\* A Card, a lifecycle intent or Redis fails the sweep: nothing is recorded, and what it read is forgotten.
SweepFails(s) == /\ sweep[s].at \in {"scan", "durable", "repair", "record"}
                 /\ sweep' = [sweep EXCEPT ![s] = [Idle EXCEPT !.at = "release", !.run = sweep[s].run]]
                 /\ UNCHANGED <<dur, acked, redis, run, snap, mut, reader, hist>>

\* _RELEASE_LUA, with the own token only.
ReleaseLock(s) == /\ sweep[s].at = "release"
                  /\ lock' = IF Holds(s) THEN NoLock ELSE lock
                  /\ sweep' = [sweep EXCEPT ![s] = Idle]
                  /\ UNCHANGED <<dur, acked, key, epoch, run, snap, mut, reader, hist>>

\* The worker of a sweep stops: the lock stays until it expires.
SweepDies(s) == /\ sweep[s].at # "idle"
                /\ sweep' = [sweep EXCEPT ![s] = Idle]
                /\ UNCHANGED <<dur, acked, redis, run, snap, mut, reader, hist>>
----------------------------------------------------------------------------
SweepStep(s) == \/ ReadRun(s) \/ ReadEpoch(s) \/ Acquire(s) \/ Scan(s)
                \/ ReadForRepair(s) \/ Repair(s) \/ RecordEpoch(s) \/ ReleaseLock(s)
MutationStep == \/ \E st \in {"active", "revoked"} : Begin(st)
                \/ Reconcile \/ MarkUpdating \/ CommitDurable \/ Release \/ Install
ReaderStep == ReadMiss \/ ReadDurable \/ Restore
Expire == MarkerExpires \/ TombstoneExpires \/ LockExpires

Next == \/ MutationStep \/ MutationDies
        \/ ReaderStep \/ ReaderDies
        \/ Expire \/ Snapshot \/ Restart
        \/ \E s \in Sweepers : SweepStep(s) \/ SweepFails(s) \/ SweepDies(s)

Spec == Init /\ [][Next]_vars
----------------------------------------------------------------------------
States == {"active", "revoked"}
Entries == {Absent} \cup {Card(n) : n \in 1..MaxRev} \cup {Revoked(n) : n \in 1..MaxRev}
                    \cup {Updating(n, m) : n \in 1..MaxRev, m \in 1..MaxRev}
Locks == [run : 0..MaxRun, by : SUBSET Sweepers]

TypeOK == /\ dur \in [rev : 1..MaxRev, st : States]
          /\ acked \in 1..MaxRev
          /\ key \in Entries
          /\ run \in 1..MaxRun /\ epoch \in 0..MaxRun /\ lock \in Locks
          /\ snap \in [key : Entries, epoch : 0..MaxRun, lock : Locks]
          /\ mut \in [at : {"idle", "reconcile", "claim", "commit", "release", "install"},
                      id : 0..MaxRev, st : States]
          /\ reader \in [at : {"idle", "durable", "restore"}, run : 0..MaxRun, rev : 0..MaxRev]
          /\ sweep \in [Sweepers -> [at : {"idle", "epoch", "acquire", "scan", "durable",
                                           "repair", "record", "release"},
                                     run : 0..MaxRun, entry : Entries, dur : [rev : 0..MaxRev, st : States]]]
          /\ late \in BOOLEAN /\ revived \in BOOLEAN

\* In a run that is recorded as swept neither a projection nor a tombstone is
\* older than a revision whose mutation has returned: a revoked Card is not
\* served, a renewed one is not denied, although Redis may have lost writes.
NoOldAuthority == epoch = run /\ key.kind \in {"card", "revoked"} => key.rev >= acked

\* That is so until a write that was overtaken changes the key: a restoration whose
\* newer marker or tombstone is gone, a restoration begun in an older run that lands
\* behind the sweep of the live one, or a repair of an older run that puts a projection
\* over a tombstone which the sweep of the live run has seen.
EntryIsAcknowledged == ~revived => NoOldAuthority
=============================================================================
