---------------------------- MODULE OfflineQueue ----------------------------
(***************************************************************************)
(* The offline queue of the field app (apps/web/lib/mobile) and what the   *)
(* server makes of the requests it replays.                                *)
(*                                                                         *)
(* The queue lives in local storage and survives a restart of the app; the *)
(* passes that send it do not.  Code between two awaits runs undisturbed,  *)
(* but several passes overlap: every mounted useOfflineQueue hook starts   *)
(* one when the device comes online, and "Force sync" starts another.      *)
(***************************************************************************)
EXTENDS Integers, Sequences, FiniteSets, SequencesExt

CONSTANTS
  Items,       \* entries the user makes
  Passes,      \* passes of syncOfflineQueue that may run at the same time
  None,
  MaxFaults    \* bound on lost answers and restarts

Form == "form"     \* the online attempt of postOrEnqueue, before any queueing
Senders == Passes \cup {Form}

ASSUME SendersAssumption == Form \notin Passes /\ None \notin Items
ASSUME MaxFaultsAssumption == MaxFaults \in Nat

VARIABLES
  queue,      \* ids in ff_offline_queue, in its order
  status,     \* of a queued item; of the others, where they are
  waits,      \* items whose nextRetryAt is still to come
  at,         \* item whose request a sender awaits
  answer,     \* what the server answered that request
  orphans,    \* requests nobody awaits that may still reach the server
  applied,    \* history: times the server carried out the item
  unanswered, \* history: requests for the item that ended without an answer
  stranded,   \* history: items a pass was sending when the app was closed
  faults      \* number of faults so far, for the bound

local == <<queue, status, waits>>
remote == <<orphans, applied>>
vars == <<local, at, answer, remote, unanswered, stranded, faults>>

Init ==
  /\ queue = <<>>
  /\ status = [i \in Items |-> "new"]
  /\ waits = {}
  /\ at = [s \in Senders |-> None]
  /\ answer = [s \in Senders |-> "none"]
  /\ orphans = [i \in Items |-> 0]
  /\ applied = [i \in Items |-> 0]
  /\ unanswered = [i \in Items |-> 0]
  /\ stranded = {}
  /\ faults = 0

-----------------------------------------------------------------------------
(* Without connection the entry goes straight into the queue.               *)
EnqueueOffline(i) ==
  /\ status[i] = "new"
  /\ queue' = Append(queue, i)
  /\ status' = [status EXCEPT ![i] = "pending"]
  /\ UNCHANGED <<waits, at, answer, remote, unanswered, stranded, faults>>

(* postOrEnqueue online: it is sent first.                                  *)
PostOnline(i) ==
  /\ status[i] = "new" /\ at[Form] = None
  /\ status' = [status EXCEPT ![i] = "posting"]
  /\ at' = [at EXCEPT ![Form] = i]
  /\ UNCHANGED <<queue, waits, answer, remote, unanswered, stranded, faults>>

-----------------------------------------------------------------------------
(* One turn of the loop of syncOfflineQueue, on the queue q with statuses   *)
(* st: the first item that is pending or failed, and due, is sent.          *)
IsDue(i, st) == st[i] \in {"pending", "failed"} /\ i \notin waits

FirstDue(i, q, st) ==
  /\ IsDue(i, st)
  /\ \E n \in DOMAIN q :
       /\ q[n] = i
       /\ \A m \in 1 .. n - 1 : ~IsDue(q[m], st)

SendNext_NotMarked(p, q, st) ==
  /\ queue' = q
  /\ answer' = [answer EXCEPT ![p] = "none"]
  /\ status' = st
  /\ IF \E i \in Items : IsDue(i, st)
     THEN \E i \in Items : FirstDue(i, q, st) /\ at' = [at EXCEPT ![p] = i]
     ELSE at' = [at EXCEPT ![p] = None]

SendNext(p, q, st) ==
  /\ queue' = q
  /\ answer' = [answer EXCEPT ![p] = "none"]
  /\ IF \E i \in Items : IsDue(i, st)
     THEN \E i \in Items :
            /\ FirstDue(i, q, st)
            /\ status' = [st EXCEPT ![i] = "syncing"]
            /\ at' = [at EXCEPT ![p] = i]
     ELSE status' = st /\ at' = [at EXCEPT ![p] = None]

PendingCount == Cardinality({i \in Items : status[i] \in {"pending", "failed"}})

(* The device comes online, or the user presses "Force sync".               *)
StartSync(p) ==
  /\ at[p] = None
  /\ PendingCount > 0
  /\ SendNext(p, queue, status)
  /\ UNCHANGED <<waits, remote, unanswered, stranded, faults>>

\* The filter by id takes out one entry: no entry is in the queue twice (TypeOK).
Dequeued(i) == RemoveFirst(queue, i)

(* The request succeeded: the entry is done, and a pass goes on.            *)
Finish(s) ==
  LET i == at[s] IN
  IF s = Form
  THEN /\ status' = [status EXCEPT ![i] = "sent"]
       /\ at' = [at EXCEPT ![s] = None]
       /\ answer' = [answer EXCEPT ![s] = "none"]
       /\ UNCHANGED queue
  ELSE SendNext(s, Dequeued(i), [status EXCEPT ![i] = "sent"])

Succeed_NotOkIsOk(s) ==
  /\ at[s] # None /\ answer[s] # "none"
  /\ Finish(s)
  /\ UNCHANGED <<waits, remote, unanswered, stranded, faults>>

Succeed(s) ==
  /\ at[s] # None /\ answer[s] = "ok"
  /\ Finish(s)
  /\ UNCHANGED <<waits, remote, unanswered, stranded, faults>>

GiveUp_Requeues(s) ==
  /\ status' = [status EXCEPT ![at[s]] = "failed"]
  /\ at' = [at EXCEPT ![s] = None]
  /\ answer' = [answer EXCEPT ![s] = "none"]
  /\ queue' = Append(queue, at[s])
  /\ waits' = IF s = Form THEN waits ELSE waits \cup {at[s]}

GiveUp_StaysSyncing(s) ==
  /\ at' = [at EXCEPT ![s] = None]
  /\ answer' = [answer EXCEPT ![s] = "none"]
  /\ IF s = Form
     THEN /\ queue' = Append(queue, at[s])
          /\ status' = [status EXCEPT ![at[s]] = "failed"]
          /\ UNCHANGED waits
     ELSE waits' = waits \cup {at[s]} /\ UNCHANGED <<queue, status>>

(* It failed.  A pass schedules the next try of the item and ends; the form *)
(* queues the entry as failed and due at once.                              *)
GiveUp(s) ==
  /\ status' = [status EXCEPT ![at[s]] = "failed"]
  /\ at' = [at EXCEPT ![s] = None]
  /\ answer' = [answer EXCEPT ![s] = "none"]
  /\ IF s = Form
     THEN queue' = Append(queue, at[s]) /\ UNCHANGED waits
     ELSE waits' = waits \cup {at[s]} /\ UNCHANGED queue

FailRefused(s) ==
  /\ at[s] # None /\ answer[s] = "error"
  /\ GiveUp(s)
  /\ UNCHANGED <<remote, unanswered, stranded, faults>>

Fault == faults < MaxFaults /\ faults' = faults + 1

(* Requests that nobody awaits any more are lost, or still arrive.          *)
Orphaned(S) ==
  \E kept \in SUBSET {s \in S : at[s] # None /\ answer[s] = "none"} :
    orphans' = [i \in Items |->
                  orphans[i] + Cardinality({s \in kept : at[s] = i})]

(* The connection breaks, before the request arrived or before its answer   *)
(* did, or the server fails after it carried out the request.               *)
FailUnanswered(s) ==
  /\ at[s] # None
  /\ Fault
  /\ GiveUp(s)
  /\ Orphaned({s})
  /\ unanswered' = [unanswered EXCEPT ![at[s]] = @ + 1]
  /\ UNCHANGED <<applied, stranded>>

(* More than the delay of scheduleBackoff later.                            *)
BackoffOver(i) ==
  /\ i \in waits
  /\ waits' = waits \ {i}
  /\ UNCHANGED <<queue, status, at, answer, remote, unanswered, stranded, faults>>

RemoveQueueItem_AnyStatus(i) ==
  /\ status[i] \in {"pending", "syncing", "failed"}
  /\ queue' = Dequeued(i)
  /\ status' = [status EXCEPT ![i] = "removed"]
  /\ waits' = waits \ {i}
  /\ UNCHANGED <<at, answer, remote, unanswered, stranded, faults>>

(* removeQueueItem: the Sync page offers it for failed items.               *)
RemoveQueueItem(i) ==
  /\ status[i] = "failed"
  /\ queue' = Dequeued(i)
  /\ status' = [status EXCEPT ![i] = "removed"]
  /\ waits' = waits \ {i}
  /\ UNCHANGED <<at, answer, remote, unanswered, stranded, faults>>

(* The app is closed, or the page reloaded.  Only the queue remains.        *)
Restart ==
  /\ Fault
  /\ at' = [s \in Senders |-> None]
  /\ answer' = [s \in Senders |-> "none"]
  /\ status' = [i \in Items |-> IF i = at[Form] THEN "abandoned" ELSE status[i]]
  /\ stranded' = stranded \cup {at[p] : p \in {r \in Passes : at[r] # None}}
  /\ Orphaned(Senders)
  /\ unanswered' = [i \in Items |->
                      unanswered[i] + Cardinality({s \in Senders : at[s] = i})]
  /\ UNCHANGED <<queue, waits, applied>>

-----------------------------------------------------------------------------
(* The server carries a request out, or refuses it.                         *)
Serve(s) ==
  /\ at[s] # None /\ answer[s] = "none"
  /\ \/ /\ answer' = [answer EXCEPT ![s] = "ok"]
        /\ applied' = [applied EXCEPT ![at[s]] = @ + 1]
     \/ /\ answer' = [answer EXCEPT ![s] = "error"]
        /\ UNCHANGED applied
  /\ UNCHANGED <<local, at, orphans, unanswered, stranded, faults>>

ServeOrphan(i) ==
  /\ orphans[i] > 0
  /\ orphans' = [orphans EXCEPT ![i] = @ - 1]
  /\ \/ applied' = [applied EXCEPT ![i] = @ + 1]
     \/ UNCHANGED applied
  /\ UNCHANGED <<local, at, answer, unanswered, stranded, faults>>

-----------------------------------------------------------------------------
Return(s) == Succeed(s) \/ FailRefused(s) \/ FailUnanswered(s)

Next ==
  \/ \E i \in Items : EnqueueOffline(i) \/ PostOnline(i) \/ BackoffOver(i) \/ RemoveQueueItem(i)
  \/ \E p \in Passes : StartSync(p)
  \/ \E s \in Senders : Return(s) \/ Serve(s)
  \/ \E i \in Items : ServeOrphan(i)
  \/ Restart

(* Requests are answered or break off.  The user is not obliged to anything.*)
Fairness == \A s \in Senders : WF_vars(Return(s)) /\ WF_vars(Serve(s))

Spec == Init /\ [][Next]_vars
FairSpec == Spec /\ Fairness

-----------------------------------------------------------------------------
Queued == {"pending", "syncing", "failed"}

(* The types of the variables; the queue has each queued item once.         *)
TypeOK ==
  /\ queue \in Seq(Items)
  /\ \A i \in Items :
       Cardinality({n \in DOMAIN queue : queue[n] = i}) = IF status[i] \in Queued THEN 1 ELSE 0
  /\ status \in [Items -> Queued \cup {"new", "posting", "sent", "removed", "abandoned"}]
  /\ waits \subseteq Items
  /\ at \in [Senders -> Items \cup {None}]
  /\ answer \in [Senders -> {"none", "ok", "error"}]
  /\ orphans \in [Items -> Nat]
  /\ applied \in [Items -> Nat]
  /\ unanswered \in [Items -> Nat]
  /\ stranded \subseteq Items
  /\ faults \in 0 .. MaxFaults

(* Overlapping passes never send one item at the same time, although they   *)
(* share nothing but the stored queue.                                      *)
OneSenderPerItem ==
  \A s, t \in Senders : s # t /\ at[s] # None => at[s] # at[t]

(* No entry leaves the queue silently: one that is taken out as sent was    *)
(* carried out by the server.                                               *)
SentWasApplied ==
  \A i \in Items : status[i] = "sent" => applied[i] > 0

(* What the queue can do against double effects, without an idempotency     *)
(* key: the server carries an item out once, and once more at most for each *)
(* of its requests that ended without an answer.                            *)
EffectsAreAccountedFor ==
  \A i \in Items : applied[i] <= 1 + unanswered[i]

(* The queue keeps the promise of EventDelivery too, with the server as the *)
(* handler: an entry is settled as sent only after its effect, and one that *)
(* was sent, removed or abandoned never comes back to be sent, whichever    *)
(* passes still run.                                                        *)
Fate(i) ==
  CASE status[i] = "new" -> "none"
    [] status[i] = "sent" -> "processed"
    [] status[i] \in {"removed", "abandoned"} -> "failed"
    [] OTHER -> "pending"

Promise == INSTANCE EventDelivery WITH
  Events <- Items,
  status <- [i \in Items |-> Fate(i)],
  delivered <- {i \in Items : applied[i] > 0}
KeepsPromise == Promise!Spec

(* An item that is being sent comes to an end, whatever the other passes    *)
(* do, unless the app was closed meanwhile.                                 *)
SyncingEnds ==
  \A i \in Items : status[i] = "syncing" ~> status[i] # "syncing" \/ i \in stranded

(* The same without the exception.  The code does not keep it: after a      *)
(* restart no pass picks up an item left as syncing, nor does the badge     *)
(* count it or the Sync page offer to remove it.                            *)
SyncingAlwaysEnds ==
  \A i \in Items : status[i] = "syncing" ~> status[i] # "syncing"
=============================================================================
