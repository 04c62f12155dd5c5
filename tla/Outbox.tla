------------------------------- MODULE Outbox -------------------------------
(***************************************************************************)
(* The domain-event outbox: events.Bus.Publish and events.Poller           *)
(* (packages/core/events).  Every API process runs one Poller.Run loop;    *)
(* POST /e2e/outbox/poll starts further PollOnce calls on the same tables. *)
(*                                                                         *)
(* One PollOnce holds one database transaction over a whole batch, but the *)
(* handlers write through the connection pool, outside that transaction.   *)
(* What a handler did therefore survives when the batch is rolled back.    *)
(*                                                                         *)
(* An event is identified with its created_at stamp.  Publish takes the    *)
(* stamp before the INSERT, so rows may appear in any order of stamps.     *)
(***************************************************************************)
EXTENDS Integers, FiniteSets

CONSTANTS
  Events,      \* stamps of the rows domain_events may come to hold
  Pollers,     \* concurrent PollOnce callers
  Batch,       \* Poller.batch, the LIMIT of a claim
  FaultKinds,  \* which of "crash", "lost_session", "requeue" may happen
  MaxFaults    \* bound on how many of them happen

NoEvent == 0

ASSUME EventsAssumption == Events \subseteq Nat \ {NoEvent}
ASSUME BatchAssumption == Batch \in Nat \ {0}
ASSUME FaultsAssumption ==
  /\ FaultKinds \subseteq {"crash", "lost_session", "requeue"}
  /\ MaxFaults \in Nat

VARIABLES
  status,     \* committed domain_events.status; "none": no such row
  recorded,   \* committed processed_events rows of the one consumer name
  open,       \* the PollOnce of this poller has its transaction open
  todo,       \* claimed events of the batch not yet through processEvent
  ok,         \* events this transaction records and marks processed
  bad,        \* events this transaction marks failed
  busy,       \* the event whose handler this poller is running
  delivered,  \* history: events some handler call returned nil for
  faults      \* number of faults so far, for the bound

tables == <<status, recorded>>
txvars == <<open, todo, ok, bad>>
vars == <<status, recorded, open, todo, ok, bad, busy, delivered, faults>>

Statuses == {"none", "pending", "processed", "failed"}

Init ==
  /\ status = [e \in Events |-> "none"]
  /\ recorded = {}
  /\ open = [p \in Pollers |-> FALSE]
  /\ todo = [p \in Pollers |-> {}]
  /\ ok = [p \in Pollers |-> {}]
  /\ bad = [p \in Pollers |-> {}]
  /\ busy = [p \in Pollers |-> NoEvent]
  /\ delivered = {}
  /\ faults = 0

-----------------------------------------------------------------------------
(* Rows a poller has locked: FOR UPDATE locks the batch until the           *)
(* transaction ends.                                                        *)
Held(p) == todo[p] \cup ok[p] \cup bad[p]

Claimable_NoRowLocks == {e \in Events : status[e] = "pending"}

(* WHERE status = 'pending' ... FOR UPDATE SKIP LOCKED                      *)
Claimable ==
  {e \in Events : status[e] = "pending" /\ \A p \in Pollers : e \notin Held(p)}

(* ORDER BY created_at LIMIT batch: the first Batch rows, or all there are. *)
IsBatch(B, free) ==
  /\ B # {}
  /\ B \subseteq free
  /\ \A e \in B, f \in free \ B : e < f
  /\ Cardinality(B) <= Batch
  /\ Cardinality(B) = Batch \/ B = free

(* The loop of PollOnce walks the batch in the order of the query.          *)
IsNext(p, e) == e \in todo[p] /\ \A f \in todo[p] : e <= f

(* Rollback, or loss of the session: the locks and the writes are gone.     *)
CloseTx(p) ==
  /\ open' = [open EXCEPT ![p] = FALSE]
  /\ todo' = [todo EXCEPT ![p] = {}]
  /\ ok' = [ok EXCEPT ![p] = {}]
  /\ bad' = [bad EXCEPT ![p] = {}]

Fault(kind) ==
  /\ kind \in FaultKinds
  /\ faults < MaxFaults
  /\ faults' = faults + 1

-----------------------------------------------------------------------------
(* Bus.Publish: one INSERT of its own, in no transaction of the caller.     *)
Publish(e) ==
  /\ status[e] = "none"
  /\ status' = [status EXCEPT ![e] = "pending"]
  /\ UNCHANGED <<recorded, txvars, busy, delivered, faults>>

(* PollOnce up to the loop.  A claim of no rows changes nothing.            *)
Claim(p) ==
  /\ ~open[p] /\ busy[p] = NoEvent
  /\ \E B \in SUBSET Claimable :
       /\ IsBatch(B, Claimable)
       /\ todo' = [todo EXCEPT ![p] = B]
  /\ open' = [open EXCEPT ![p] = TRUE]
  /\ UNCHANGED <<tables, ok, bad, busy, delivered, faults>>

(* processEvent on an event that is already in processed_events.            *)
SkipDuplicate(p) ==
  /\ open[p] /\ busy[p] = NoEvent
  /\ \E e \in recorded :
       /\ IsNext(p, e)
       /\ todo' = [todo EXCEPT ![p] = @ \ {e}]
       /\ ok' = [ok EXCEPT ![p] = @ \cup {e}]
  /\ UNCHANGED <<tables, open, bad, busy, delivered, faults>>

Dispatch_NoDedup(p) ==
  /\ open[p] /\ busy[p] = NoEvent
  /\ \E e \in Events : IsNext(p, e) /\ busy' = [busy EXCEPT ![p] = e]
  /\ UNCHANGED <<tables, txvars, delivered, faults>>

(* processEvent calls dispatch: the handler starts.                         *)
Dispatch(p) ==
  /\ open[p] /\ busy[p] = NoEvent
  /\ \E e \in Events \ recorded :
       IsNext(p, e) /\ busy' = [busy EXCEPT ![p] = e]
  /\ UNCHANGED <<tables, txvars, delivered, faults>>

(* The handler returned nil.  With the session still there the event is     *)
(* recorded and marked processed in the transaction; without it the INSERT  *)
(* fails, and so does everything PollOnce tries for the rest of the batch.  *)
HandlerReturnsNil(p) ==
  /\ busy[p] # NoEvent
  /\ delivered' = delivered \cup {busy[p]}
  /\ IF open[p]
     THEN /\ todo' = [todo EXCEPT ![p] = @ \ {busy[p]}]
          /\ ok' = [ok EXCEPT ![p] = @ \cup {busy[p]}]
     ELSE UNCHANGED <<todo, ok>>
  /\ busy' = [busy EXCEPT ![p] = NoEvent]
  /\ UNCHANGED <<tables, open, bad, faults>>

HandlerReturnsError_Swallowed(p) ==
  /\ busy[p] # NoEvent
  /\ IF open[p]
     THEN /\ todo' = [todo EXCEPT ![p] = @ \ {busy[p]}]
          /\ ok' = [ok EXCEPT ![p] = @ \cup {busy[p]}]
     ELSE UNCHANGED <<todo, ok>>
  /\ busy' = [busy EXCEPT ![p] = NoEvent]
  /\ UNCHANGED <<tables, open, bad, delivered, faults>>

HandlerReturnsError_NotMarked(p) ==
  /\ busy[p] # NoEvent
  /\ todo' = [todo EXCEPT ![p] = @ \ {busy[p]}]
  /\ busy' = [busy EXCEPT ![p] = NoEvent]
  /\ UNCHANGED <<tables, open, ok, bad, delivered, faults>>

(* The handler returned an error: PollOnce marks the event failed in the    *)
(* transaction and goes on with the batch.                                  *)
HandlerReturnsError(p) ==
  /\ busy[p] # NoEvent
  /\ IF open[p]
     THEN /\ todo' = [todo EXCEPT ![p] = @ \ {busy[p]}]
          /\ bad' = [bad EXCEPT ![p] = @ \cup {busy[p]}]
     ELSE UNCHANGED <<todo, bad>>
  /\ busy' = [busy EXCEPT ![p] = NoEvent]
  /\ UNCHANGED <<tables, open, ok, delivered, faults>>

Commit_UnknownStatus(p) ==
  /\ open[p] /\ busy[p] = NoEvent
  /\ todo[p] = {}
  /\ status' = [e \in Events |-> IF e \in bad[p] THEN "error"
                                 ELSE IF e \in ok[p] THEN "processed"
                                 ELSE status[e]]
  /\ recorded' = recorded \cup ok[p]
  /\ CloseTx(p)
  /\ UNCHANGED <<busy, delivered, faults>>

(* The commit at the end of PollOnce settles the whole batch at once.       *)
Commit(p) ==
  /\ open[p] /\ busy[p] = NoEvent
  /\ todo[p] = {}
  /\ status' = [e \in Events |-> IF e \in bad[p] THEN "failed"
                                 ELSE IF e \in ok[p] THEN "processed"
                                 ELSE status[e]]
  /\ recorded' = recorded \cup ok[p]
  /\ CloseTx(p)
  /\ UNCHANGED <<busy, delivered, faults>>

(* The transaction is gone but PollOnce is not: PostgreSQL dropped the      *)
(* session, a statement or the commit failed, or pollCancel cancelled the   *)
(* context the transaction runs under.  A running handler is no part of the *)
(* transaction and may still finish.                                        *)
LoseSession(p) ==
  /\ open[p]
  /\ Fault("lost_session")
  /\ CloseTx(p)
  /\ UNCHANGED <<tables, busy, delivered>>

(* The process dies; whatever its handler had written stays written.        *)
Crash(p) ==
  /\ open[p] \/ busy[p] # NoEvent
  /\ Fault("crash")
  /\ CloseTx(p)
  /\ busy' = [busy EXCEPT ![p] = NoEvent]
  /\ UNCHANGED <<tables, delivered>>

(* A processed event is put back to pending by hand, the redelivery of      *)
(* TestPoller_SkipsDuplicateDelivery_Integration.                           *)
Requeue(e) ==
  /\ status[e] = "processed"
  /\ Fault("requeue")
  /\ status' = [status EXCEPT ![e] = "pending"]
  /\ UNCHANGED <<recorded, txvars, busy, delivered>>

-----------------------------------------------------------------------------
PollerStep(p) ==
  \/ SkipDuplicate(p)
  \/ Dispatch(p)
  \/ HandlerReturnsNil(p)
  \/ HandlerReturnsError(p)
  \/ Commit(p)

Next ==
  \/ \E e \in Events : Publish(e) \/ Requeue(e)
  \/ \E p \in Pollers : Claim(p) \/ PollerStep(p) \/ LoseSession(p) \/ Crash(p)

(* Poller.Run polls on a ticker for ever, and a handler's queries and HTTP  *)
(* calls end.  Nobody is obliged to publish, to fail or to requeue.         *)
Fairness == \A p \in Pollers : WF_vars(Claim(p)) /\ WF_vars(PollerStep(p))

Spec == Init /\ [][Next]_vars

FairSpec == Spec /\ Fairness

-----------------------------------------------------------------------------
(* The types of the variables.                                              *)
TypeOK ==
  /\ status \in [Events -> Statuses]
  /\ recorded \subseteq Events
  /\ open \in [Pollers -> BOOLEAN]
  /\ todo \in [Pollers -> SUBSET Events]
  /\ ok \in [Pollers -> SUBSET Events]
  /\ bad \in [Pollers -> SUBSET Events]
  /\ busy \in [Pollers -> Events \cup {NoEvent}]
  /\ delivered \subseteq Events
  /\ faults \in 0 .. MaxFaults

(* Row locks do their job: a handler whose transaction is still open works  *)
(* on an event that is pending and unrecorded for everyone, and that no     *)
(* other open transaction has claimed.                                      *)
OpenHandlerOwnsEvent ==
  \A p \in Pollers : open[p] /\ busy[p] # NoEvent =>
    /\ status[busy[p]] = "pending"
    /\ busy[p] \notin recorded
    /\ \A q \in Pollers \ {p} : busy[p] \notin Held(q)

(* An event counts as processed only if it is in processed_events and some  *)
(* handler call for it returned nil, through crashes, lost sessions and     *)
(* redeliveries: nothing is marked done that was not done.                  *)
ProcessedWasDelivered ==
  \A e \in Events : status[e] = "processed" => e \in recorded \cap delivered

(* The two ends of an event exclude each other: an event recorded as        *)
(* processed is never turned into a failed one, not even when it is         *)
(* redelivered or when a handler that lost its session fails late.          *)
FailedWasNeverRecorded ==
  \A e \in recorded : status[e] # "failed"

(* The poller implements what the outbox promises.                          *)
Promise == INSTANCE EventDelivery WITH
  Events <- Events, status <- status, delivered <- delivered
KeepsPromise == Promise!Spec

(* Every published event is eventually processed or failed, provided only   *)
(* finitely many sessions are lost: no event is stuck behind a lock or      *)
(* starved by other batches.                                                *)
EveryEventSettles ==
  \A e \in Events : status[e] = "pending" ~> status[e] \in {"processed", "failed"}
=============================================================================
