----------------------------- MODULE Coordinate -----------------------------
(***************************************************************************)
(* One governed mutation key: the calls of "pb coordinate" that use it,    *)
(* the ledger that remembers it, the file queue, the relay that drains the *)
(* queue and the board behind the Data Bus.                                *)
(*                                                                         *)
(* A call publishes at most one request, so a request id is its call.      *)
(* Ledger and queue have a lock each; taking a response holds neither.     *)
(* Every claim starts a dispatch of its own, which goes on although its    *)
(* lease has expired and the request was claimed again.  No step is        *)
(* fair: a call or a relay that dies is one that takes no further step.    *)
(***************************************************************************)
EXTENDS Naturals

CONSTANTS Calls,
          Wants,      \* the exact request a call sends under the key
          MaxLeases   \* bound on the claims, over all requests

ASSUME CoordinateAssumption == DOMAIN Wants = Calls /\ MaxLeases \in Nat \ {0}

VARIABLES
    rec,    \* the ledger's record of the key
    pc, seen, again, got,  \* a call: its step, the request ids it has to look up, whether it has
            \* reserved the key and an outcome was unknown then, the answer it took
    queue,  \* a request's row: its folder, claimed_once, last_transport_error, lease_id
    resp,   \* its response file
    at,     \* at[l]: the dispatch of lease l, its request and its step
    leases, \* the lease ids drawn
    net,    \* its Data Bus message
    board,  \* the board's record of the key
    over    \* (history) an answer that frees the key was given without proof, or its row was left in the queue

call == <<pc, seen, again, got>>
relay == <<queue, resp, at, leases>>
remote == <<net, board, over>>
vars == <<rec, pc, seen, again, got, queue, resp, at, leases, net, board, over>>

Leases == 1..MaxLeases
NoRecord == [req |-> "none", publishing |-> {}, out |-> [c \in Calls |-> "none"], applied |-> FALSE]
NoRow == [in |-> "none", claimed |-> FALSE, unknown |-> FALSE, lease |-> 0]
NoDispatch == [id |-> "none", step |-> "none"]
NoAnswer == [id |-> "none", ans |-> "none", bad |-> FALSE]
Ids == {i \in Calls : rec.out[i] # "none"}

Init == /\ rec = NoRecord
        /\ pc = [c \in Calls |-> "idle"] /\ seen = [c \in Calls |-> {}]
        /\ again = [c \in Calls |-> "new"] /\ got = [c \in Calls |-> NoAnswer]
        /\ queue = [c \in Calls |-> NoRow] /\ resp = [c \in Calls |-> "none"]
        /\ at = [l \in Leases |-> NoDispatch] /\ leases = 0
        /\ net = [c \in Calls |-> "none"] /\ board = [req |-> "none", st |-> "none"]
        /\ over = FALSE
----------------------------------------------------------------------------
(* The ledger: CoordinateRecovery.                                         *)

NoEffect == {"refused", "not_sent"}

\* Mutant: the key is freed although an attempt is being published.
FreesPublishing(tried) == \A i \in Calls : tried[i] \in NoEffect \cup {"none"}

\* Every attempt is proved to have had no effect, and none is being published.
Frees(tried) == rec.publishing = {} /\ \A i \in Calls : tried[i] \in NoEffect \cup {"none"}

\* Mutant: a later outcome decides although a receipt is recorded.
SettledAnew(i, outcome) ==
    LET tried == [rec.out EXCEPT ![i] = outcome]
        kept == IF i \in Ids THEN tried ELSE rec.out
    IN  CASE rec = NoRecord -> rec
          [] rec # NoRecord /\ outcome = "applied" -> [rec EXCEPT !.out = kept, !.applied = TRUE]
          [] rec # NoRecord /\ outcome # "applied" -> IF Frees(tried) THEN NoRecord
                                                    ELSE [rec EXCEPT !.out = kept, !.applied = FALSE]

\* settle_attempt. The outcome of an id that is no attempt of the record takes part in this decision and is not kept.
Settled(i, outcome) ==
    LET tried == [rec.out EXCEPT ![i] = outcome]
        kept == IF i \in Ids THEN tried ELSE rec.out
    IN  IF rec = NoRecord THEN rec
        ELSE CASE rec.applied -> [rec EXCEPT !.out = kept]
               [] ~rec.applied /\ outcome = "applied" -> [rec EXCEPT !.out = kept, !.applied = TRUE]
               [] ~rec.applied /\ outcome # "applied" -> IF Frees(tried) THEN NoRecord ELSE [rec EXCEPT !.out = kept]

\* record_submission
Submitted(c) == [rec EXCEPT !.publishing = @ \ {c}, !.out[c] = IF @ = "none" THEN "unknown" ELSE @]

\* abandon_attempt
Abandoned(c) == IF Ids = {} /\ rec.publishing \ {c} = {} THEN NoRecord
                ELSE [rec EXCEPT !.publishing = @ \ {c}]

\* The exact request is the one the key is held for.
Same(c) == rec.req = Wants[c]
Other(c) == rec # NoRecord /\ ~Same(c)
----------------------------------------------------------------------------
(* A call: _coordinate_command.                                            *)

Goto(c, step) == pc' = [pc EXCEPT ![c] = step]
\* It returns or raises.
End(c) == /\ Goto(c, "done") /\ seen' = [seen EXCEPT ![c] = {}]
          /\ again' = [again EXCEPT ![c] = "new"] /\ got' = [got EXCEPT ![c] = NoAnswer]

\* lookup_existing: nothing, another request's key, a receipt, or attempts whose late responses are looked up.
Lookup(c) == /\ pc[c] = "idle"
             /\ \/ rec = NoRecord /\ Goto(c, "reserve") /\ UNCHANGED <<seen, again, got>>
                \/ (Other(c) \/ rec.applied) /\ End(c)
                \/ /\ Same(c) /\ ~rec.applied
                   /\ Goto(c, "late") /\ seen' = [seen EXCEPT ![c] = Ids]
                   /\ UNCHANGED <<again, got>>
             /\ UNCHANGED <<rec, relay, remote>>

\* take_response of an earlier attempt: the file is read, and then removed.
NoLate(c, i) == /\ pc[c] = "late" /\ i \in seen[c] /\ resp[i] = "none"
                /\ seen' = [seen EXCEPT ![c] = @ \ {i}]
                /\ UNCHANGED <<rec, pc, again, got, relay, remote>>

TakeLate(c, i) == /\ pc[c] = "late" /\ i \in seen[c] /\ resp[i] # "none"
                  /\ Goto(c, "unlink") /\ seen' = [seen EXCEPT ![c] = @ \ {i}]
                  /\ got' = [got EXCEPT ![c].id = i, ![c].ans = resp[i]]
                  /\ UNCHANGED <<rec, again, relay, remote>>

Unlink(c) == /\ pc[c] = "unlink" /\ Goto(c, "settle")
             /\ resp' = [resp EXCEPT ![got[c].id] = "none"]
             /\ UNCHANGED <<rec, seen, again, got, queue, at, leases, remote>>

\* settle_attempt with the original hash: the key's record is gone, or it is still this request's attempt.
StillAttempt(c, i) == rec = NoRecord \/ (Same(c) /\ i \in Ids)

SettleLate(c) == LET i == got[c].id
                     o == got[c].ans
                 IN  /\ pc[c] = "settle" /\ Goto(c, "late")
                     /\ rec' = IF StillAttempt(c, i) THEN Settled(i, o) ELSE rec
                     /\ got' = [got EXCEPT ![c] = [NoAnswer EXCEPT !.bad = got[c].bad \/ o # "applied" \/ ~StillAttempt(c, i)]]
                     /\ UNCHANGED <<seen, again, relay, remote>>

\* The end of _recover_prior_mutation: the receipt, the refusal that freed the key, or on to the next step.
EndLate(c) == /\ pc[c] = "late" /\ seen[c] = {}
              /\ IF rec.applied \/ Other(c) \/ (rec = NoRecord /\ got[c].bad) THEN End(c)
                 ELSE /\ Goto(c, CASE again[c] = "new" -> "reserve" [] again[c] = "ask" -> "ask"
                                   [] again[c] = "send" -> "begin")
                      /\ got' = [got EXCEPT ![c] = NoAnswer]
                      /\ UNCHANGED <<seen, again>>
              /\ UNCHANGED <<rec, relay, remote>>

\* reserve: the key is held for this request; attempts that are there already are looked up once more.
Reserve(c) == /\ pc[c] = "reserve"
              /\ \/ /\ rec = NoRecord /\ rec' = [NoRecord EXCEPT !.req = Wants[c]]
                    /\ Goto(c, "begin") /\ UNCHANGED <<seen, again, got>>
                 \/ (Other(c) \/ rec.applied) /\ End(c) /\ UNCHANGED rec
                 \/ /\ Same(c) /\ ~rec.applied
                    /\ Goto(c, "late") /\ seen' = [seen EXCEPT ![c] = Ids]
                    /\ again' = [again EXCEPT ![c] = IF \E i \in Ids : rec.out[i] = "unknown" THEN "ask" ELSE "send"]
                    /\ UNCHANGED <<rec, got>>
              /\ UNCHANGED <<relay, remote>>

\* The board's receipt of the request: no record may also be a record of another request.
Receipt(r) == IF board.req = r THEN board.st ELSE "none"

\* _settle_by_remote_receipt: an applied receipt is recorded; no record, and a board that cannot answer, let the
\* caller send again; a refused or unsettled one, and a failed read, end the call and leave the ledger alone.
Ask(c) == /\ pc[c] = "ask"
          /\ \/ /\ Receipt(Wants[c]) = "applied" /\ End(c)
                /\ rec' \in {rec} \cup {Settled(i, "applied") : i \in {j \in Ids : Same(c)}}
             \/ Receipt(Wants[c]) \in {"in_progress", "refused"} /\ End(c) /\ UNCHANGED rec
             \/ Goto(c, "begin") /\ UNCHANGED <<rec, seen, again, got>>
          /\ UNCHANGED <<relay, remote>>

\* begin_attempt: the attempt is registered before the queue can expose it, and the key reserved again if it was freed.
Begin(c) == /\ pc[c] = "begin"
            /\ IF Other(c) THEN End(c) /\ UNCHANGED rec
               ELSE /\ Goto(c, "submit") /\ UNCHANGED <<seen, again, got>>
                    /\ rec' = [rec EXCEPT !.req = Wants[c], !.publishing = @ \cup {c}]
            /\ UNCHANGED <<relay, remote>>

\* queue.submit returns, or raises after it published the request or before.
Submit(c) == /\ pc[c] = "submit"
             /\ \/ queue' = [queue EXCEPT ![c].in = "pending"] /\ \E step \in {"record", "holds"} : Goto(c, step)
                \/ UNCHANGED queue /\ Goto(c, "holds")
             /\ UNCHANGED <<rec, seen, again, got, resp, at, leases, remote>>

\* record_submission
Record(c) == /\ pc[c] = "record"
             /\ IF Same(c) THEN rec' = Submitted(c) /\ Goto(c, "wait") /\ UNCHANGED <<seen, again, got>>
                ELSE End(c) /\ UNCHANGED rec
             /\ UNCHANGED <<relay, remote>>

\* _settle_interrupted_publication: the queue itself says whether the request was published.
Interrupted(c) == /\ pc[c] = "holds" /\ End(c)
                  /\ rec' = IF queue[c].in # "none" \/ resp[c] # "none"
                            THEN IF Same(c) THEN Submitted(c) ELSE rec
                            ELSE Abandoned(c)
                  /\ UNCHANGED <<relay, remote>>

\* _await_coordinate_response: the response; or a pending request is withdrawn, by a reconnecting channel only
\* when no relay ever claimed it; or the deadline passes. (A second reader of the file is a TakeLate before this.)
Receive(c) == /\ pc[c] = "wait" /\ resp[c] # "none" /\ resp' = [resp EXCEPT ![c] = "none"]
              /\ Goto(c, "settleown") /\ got' = [got EXCEPT ![c].id = c, ![c].ans = resp[c]]
              /\ UNCHANGED <<rec, seen, again, queue, at, leases, remote>>

\* Mutant: a withdrawn request was not sent.
WithdrawnIsNotSent(c) == "not_sent"
\* What a withdrawn request proves.
Withdrawn(c) == IF queue[c].claimed THEN "unknown" ELSE "not_sent"

Withdraw(c) == /\ pc[c] = "wait" /\ queue[c].in = "pending"
               /\ queue' = [queue EXCEPT ![c] = NoRow]
               /\ Goto(c, "settleown") /\ got' = [got EXCEPT ![c].id = c, ![c].ans = Withdrawn(c)]
               /\ UNCHANGED <<rec, seen, again, resp, at, leases, remote>>

TimeOut(c) == /\ pc[c] = "wait" /\ queue[c].in # "pending" /\ resp[c] = "none"
              /\ Goto(c, "settleown") /\ got' = [got EXCEPT ![c].id = c, ![c].ans = "unknown"]
              /\ UNCHANGED <<rec, seen, again, relay, remote>>

\* settle_attempt of the call's own attempt, with no hash to compare.
SettleOwn(c) == /\ pc[c] = "settleown" /\ End(c)
                /\ rec' = Settled(c, got[c].ans)
                /\ UNCHANGED <<relay, remote>>
----------------------------------------------------------------------------
(* The queue and the relay.                                                *)

Step(l, step) == at' = [at EXCEPT ![l].step = step]
Stop(l) == at' = [at EXCEPT ![l] = NoDispatch]
\* _require_current_lease_unlocked
Current(c, l) == queue[c].in = "leased" /\ queue[c].lease = l

\* The request was sent and not refused: an answer that frees the key claims more than it proves.
Sent(c) == net[c] \in {"flying", "in"}

\* _complete_unlocked: the response, then the row is removed, unless the relay dies between the two. (A row left
\* behind an answer that frees nothing is what a call that timed out leaves.)
Respond(c, ans, wrong) ==
    /\ resp' = [resp EXCEPT ![c] = ans]
    /\ \/ queue' = [queue EXCEPT ![c] = NoRow] /\ over' = (over \/ wrong)
       \/ ans \in NoEffect /\ queue' = [queue EXCEPT ![c].in = "leased"] /\ over' = TRUE

\* A request that expired: its row tells whether a relay claimed it.
Expired(c) == IF queue[c].claimed THEN "unknown" ELSE "not_sent"

\* _claim_unlocked of one request: it expired, or it is leased; or the relay dies with the row moved and not rewritten.
Claim(c) == /\ queue[c].in = "pending"
            /\ \/ Respond(c, Expired(c), FALSE) /\ UNCHANGED <<at, leases>>
               \/ /\ leases < MaxLeases /\ leases' = leases + 1
                  /\ queue' = [queue EXCEPT ![c].in = "leased", ![c].claimed = TRUE, ![c].lease = leases']
                  /\ at' = [at EXCEPT ![leases'] = [id |-> c, step |-> "claimed"]] /\ UNCHANGED <<resp, over>>
               \/ queue' = [queue EXCEPT ![c].in = "leased"] /\ UNCHANGED <<resp, at, leases, over>>
            /\ UNCHANGED <<rec, call, net, board>>

\* _recover_expired_leases_unlocked: an answered row is removed, an expired one answered, any other is pending again.
RecoverLease(c) == /\ queue[c].in = "leased"
                   /\ \/ resp[c] # "none" /\ queue' = [queue EXCEPT ![c] = NoRow] /\ UNCHANGED <<resp, over>>
                      \/ resp[c] = "none" /\ Respond(c, Expired(c), FALSE)
                      \/ resp[c] = "none" /\ queue' = [queue EXCEPT ![c].in = "pending"] /\ UNCHANGED <<resp, over>>
                   /\ UNCHANGED <<rec, call, at, leases, net, board>>

\* complete and defer_after_unknown of dispatch l, if it still has the lease.
Answer(c, l, ans, wrong) == /\ IF Current(c, l) THEN Respond(c, ans, wrong) ELSE UNCHANGED <<queue, resp, over>>
                            /\ Stop(l)
Defer(c, l, unknown) == /\ queue' = IF Current(c, l) THEN [queue EXCEPT ![c].in = "pending", ![c].unknown = unknown]
                                    ELSE queue
                        /\ Stop(l) /\ UNCHANGED <<resp, over>>

\* The claimed request belongs to another session of the worker: it is answered as never sent.
Mismatch(c, l) == /\ at[l].step = "claimed" /\ Answer(c, l, "not_sent", Sent(c))
                  /\ UNCHANGED <<rec, call, leases, net, board>>

\* mark_attempt: the lease is checked and the send follows at once, with the channel's session checked between.
Marked(c, l) == at[l].step = "claimed" /\ Current(c, l)
LostLease(c, l) == /\ at[l].step = "claimed" /\ ~Current(c, l) /\ Stop(l)
                   /\ UNCHANGED <<rec, call, queue, resp, leases, remote>>

\* _dispatch_fence_failure: a changed session defers the request, with an error of its own.
Fenced(c, l) == /\ Marked(c, l) /\ Defer(c, l, FALSE)
                /\ UNCHANGED <<rec, call, leases, net, board>>

\* A message replayed under its Data Bus identity is not delivered a second time.
Send(c, l) == /\ Marked(c, l) /\ ~queue[c].unknown
              /\ Step(l, "sent")
              /\ net' = [net EXCEPT ![c] = IF @ = "none" THEN "flying" ELSE @]
              /\ UNCHANGED <<rec, call, queue, resp, leases, board, over>>

\* DataBusIngressRejected: this send of the request was not accepted; an earlier one may have been.
Reject(c, l) == /\ Marked(c, l) /\ ~queue[c].unknown
                /\ Step(l, "refused") /\ over' = (over \/ Sent(c))
                /\ UNCHANGED <<rec, call, queue, resp, leases, net, board>>

\* The board's answer, or none that proves anything.
Reply(c, l) == /\ at[l].step = "sent"
               /\ \/ net[c] = "refused" /\ Step(l, "refused")
                  \/ net[c] = "in" /\ board.st = "applied" /\ Step(l, "applied")
                  \/ Step(l, "unknown")
               /\ UNCHANGED <<rec, call, queue, resp, leases, remote>>

\* Mutant: what the board has no record of was refused.
LookNoRecord(c, l) == /\ Marked(c, l) /\ queue[c].unknown
                      /\ Step(l, CASE Receipt(Wants[c]) = "applied" -> "applied"
                                      [] Receipt(Wants[c]) \in {"none", "refused"} -> "refused"
                                      [] Receipt(Wants[c]) = "in_progress" -> "unknown")
                      /\ UNCHANGED <<rec, call, queue, resp, leases, remote>>

\* _settle_unknown_by_receipt: a request whose last send ended unknown is looked up. A settled receipt answers it;
\* an unsettled, a missing and an unread one leave it unknown.
Look(c, l) == /\ Marked(c, l) /\ queue[c].unknown
              /\ \/ Receipt(Wants[c]) \in {"applied", "refused"} /\ Step(l, Receipt(Wants[c]))
                 \/ Step(l, "unknown")
              /\ UNCHANGED <<rec, call, queue, resp, leases, remote>>

\* complete or fail: a result too large for the queue is answered as unknown.
Complete(c, l) == /\ \/ at[l].step = "applied" /\ \E ans \in {"applied", "unknown"} : Answer(c, l, ans, FALSE)
                     \/ at[l].step = "refused" /\ Answer(c, l, "refused", FALSE)
                  /\ UNCHANGED <<rec, call, leases, net, board>>

\* data_bus_outcome_unknown is deferred; it is answered when the request has expired or the error is another one
\* that proves nothing.
Unknown(c, l) == /\ at[l].step = "unknown"
                 /\ Defer(c, l, TRUE) \/ Answer(c, l, "unknown", FALSE)
                 /\ UNCHANGED <<rec, call, leases, net, board>>

\* defer_after_unknown: the evidence of a receipt read takes the row over the queue's limit.
TooLarge(c, l) == /\ at[l].step = "unknown" /\ queue[c].unknown /\ Answer(c, l, "not_sent", Sent(c))
                  /\ UNCHANGED <<rec, call, leases, net, board>>
----------------------------------------------------------------------------
(* The board, behind the Data Bus: admission deduplicates on the key.      *)

Deliver(c) == /\ net[c] = "flying"
              /\ \/ /\ board.st = "none"
                    /\ board' = [req |-> Wants[c], st |-> "in_progress"] /\ net' = [net EXCEPT ![c] = "in"]
                 \/ /\ board.st # "none" /\ UNCHANGED board
                    /\ net' = [net EXCEPT ![c] = IF board.req = Wants[c] /\ board.st # "refused" THEN "in" ELSE "refused"]
              /\ UNCHANGED <<rec, call, relay, over>>

Decide == /\ board.st = "in_progress"
          /\ \E st \in {"applied", "refused"} :
               /\ board' = [board EXCEPT !.st = st]
               /\ net' = [c \in Calls |-> IF net[c] = "in" /\ st = "refused" THEN "refused" ELSE net[c]]
          /\ UNCHANGED <<rec, call, relay, over>>

CallStep(c) == \/ Lookup(c) \/ Unlink(c) \/ SettleLate(c) \/ EndLate(c) \/ Reserve(c) \/ Ask(c) \/ Begin(c) \/ Submit(c)
               \/ Record(c) \/ Interrupted(c) \/ Receive(c) \/ Withdraw(c) \/ TimeOut(c) \/ SettleOwn(c)
               \/ \E i \in Calls : NoLate(c, i) \/ TakeLate(c, i)
Dispatch(c, l) == \/ LostLease(c, l) \/ Fenced(c, l) \/ Send(c, l) \/ Reject(c, l) \/ Reply(c, l) \/ Look(c, l)
                  \/ Complete(c, l) \/ Unknown(c, l) \/ Mismatch(c, l) \/ TooLarge(c, l)

Next == \/ \E c \in Calls : CallStep(c) \/ Claim(c) \/ RecoverLease(c) \/ Deliver(c)
        \/ \E l \in Leases : at[l] # NoDispatch /\ Dispatch(at[l].id, l)
        \/ Decide

Spec == Init /\ [][Next]_vars
----------------------------------------------------------------------------
Requests == {Wants[c] : c \in Calls}
Outcomes == {"none", "unknown", "applied"} \cup NoEffect

TypeOK == /\ rec \in [req : Requests \cup {"none"}, publishing : SUBSET Calls, out : [Calls -> Outcomes], applied : BOOLEAN]
          /\ pc \in [Calls -> {"idle", "late", "unlink", "settle", "reserve", "ask", "begin", "submit", "record", "holds",
                               "wait", "settleown", "done"}]
          /\ seen \in [Calls -> SUBSET Calls] /\ again \in [Calls -> {"new", "ask", "send"}]
          /\ got \in [Calls -> [id : Calls \cup {"none"}, ans : Outcomes, bad : BOOLEAN]]
          /\ queue \in [Calls -> [in : {"none", "pending", "leased"}, claimed : BOOLEAN, unknown : BOOLEAN, lease : 0..MaxLeases]]
          /\ resp \in [Calls -> Outcomes]
          /\ at \in [Leases -> [id : Calls \cup {"none"}, step : {"none", "claimed", "sent", "unknown", "applied", "refused"}]]
          /\ leases \in 0..MaxLeases
          /\ net \in [Calls -> {"none", "flying", "in", "refused"}]
          /\ board \in [req : Requests \cup {"none"}, st : {"none", "in_progress", "applied", "refused"}]
          /\ over \in BOOLEAN

Held(r) == rec.req = r

\* What the relay may still send is an attempt the key is held for: the attempt is registered before the queue
\* exposes it, and two calls with different requests are never both in the queue (begin_attempt, record_submission).
\* This and what follows is claimed up to the first freeing answer that was not proved (over).
QueuedIsRegistered == ~over => \A c \in Calls : queue[c].in # "none" => Held(Wants[c]) /\ c \in Ids \cup rec.publishing

\* The key is not freed, and not taken by another request, while a request that was sent under it may still be
\* admitted, is in progress or was applied: "Only proof frees a key" (settle_attempt, error_outcome).
OnlyProofFrees == /\ \A c \in Calls : net[c] = "flying" /\ board.st # "refused" => Held(Wants[c])
                  /\ board.st \in {"in_progress", "applied"} => Held(board.req)

\* So it is as long as every answer that frees the key was proved and took its row out of the queue.
HeldWhileItMayApply == ~over => OnlyProofFrees

\* What the ledger records of an attempt is what happened to that attempt, whichever call took the answer and
\* whenever it did; a receipt is one of the request the key is held for.  Claimed up to the first freeing answer
\* that was not proved (over): after it a refusal may be recorded of a request that is applied later.
OutcomesAreTrue ==
    ~over => /\ rec.applied => board.st = "applied" /\ Held(board.req)
             /\ \A i \in Calls : rec.out[i] \in NoEffect => net[i] # "in" /\ (net[i] = "flying" => board.st = "refused")

\* An applied receipt is final for the key: no later submission, uncertainty or refusal downgrades or deletes it.
\* So it is as long as every answer that frees the key was proved: abandon_attempt deletes a record without looking
\* at its outcome, and only what is registered for a sent request keeps it from that.
AppliedIsFinal == [][~over /\ rec.applied => rec'.applied /\ rec'.req = rec.req]_vars
=============================================================================
