------------------------ MODULE OfflineQueue_proofs ------------------------
(***************************************************************************)
(* Proofs about the offline queue, for any number of items, overlapping    *)
(* passes, lost answers and restarts.                                      *)
(*                                                                         *)
(* The status stored with an item is the lock that keeps the passes apart: *)
(* an item some sender works on is neither pending nor failed.             *)
(***************************************************************************)
EXTENDS OfflineQueue, FiniteSetTheorems, TLAPS

\* The types, and an idle sender has no answer left over.
Types ==
  /\ status \in [Items -> Queued \cup {"new", "posting", "sent", "removed", "abandoned"}]
  /\ at \in [Senders -> Items \cup {None}]
  /\ answer \in [Senders -> {"none", "ok", "error"}]
  /\ orphans \in [Items -> Nat]
  /\ applied \in [Items -> Nat]
  /\ unanswered \in [Items -> Nat]
  /\ \A s \in Senders : at[s] = None => answer[s] = "none"

\* A sender works on an item of its own, whose status says so.
SenderInv ==
  /\ \A p \in Passes : at[p] # None => status[at[p]] = "syncing"
  /\ at[Form] # None => status[at[Form]] = "posting"
  /\ OneSenderPerItem

\* Some sender has the server's consent to item i.
Granted(i) == \E s \in Senders : at[s] = i /\ answer[s] = "ok"

\* Every effect of an item, present or still possible through an orphan, has
\* an unanswered request, or the one answer that finishes the item.
EffectInv ==
  /\ \A i \in Items :
       applied[i] + orphans[i] <= unanswered[i] + (IF Granted(i) \/ status[i] = "sent" THEN 1 ELSE 0)
  /\ \A i \in Items : Granted(i) \/ status[i] = "sent" => applied[i] > 0

IInv == Types /\ SenderInv /\ EffectInv

-----------------------------------------------------------------------------
\* What SendNext does: it turns to one due item, or to none.
LEMMA SendNextEffect ==
  ASSUME NEW p, NEW q, NEW st \in [Items -> Queued \cup {"new", "posting", "sent", "removed", "abandoned"}],
         SendNext(p, q, st)
  PROVE  /\ answer' = [answer EXCEPT ![p] = "none"]
         /\ \/ /\ at' = [at EXCEPT ![p] = None]
               /\ status' = st
            \/ \E i \in Items : /\ st[i] \in {"pending", "failed"}
                                /\ status' = [st EXCEPT ![i] = "syncing"]
                                /\ at' = [at EXCEPT ![p] = i]
BY DEF SendNext, FirstDue, IsDue

\* How many of the senders of S work on item i: one at most.
LEMMA SenderCount ==
  ASSUME OneSenderPerItem, NEW S \in SUBSET Senders, NEW i \in Items
  PROVE  Cardinality({s \in S : at[s] = i}) = IF \E s \in S : at[s] = i THEN 1 ELSE 0
<1> DEFINE T == {s \in S : at[s] = i}
<1>1. CASE T = {}
  BY <1>1, FS_EmptySet
<1>2. ASSUME NEW s \in T PROVE Cardinality(T) = 1
  <2>1. T = {s}
    BY SendersAssumption DEF OneSenderPerItem
  <2> QED
    BY <2>1, FS_Singleton
<1> QED
  BY <1>1, <1>2

\* An item gains an orphan only from a sender that has no answer yet.
LEMMA OrphanCount ==
  ASSUME Types, OneSenderPerItem, NEW S \in SUBSET Senders, Orphaned(S)
  PROVE  /\ orphans' \in [Items -> Nat]
         /\ \A i \in Items :
              orphans'[i] <= orphans[i]
                + IF \E s \in S : at[s] = i /\ answer[s] = "none" THEN 1 ELSE 0
<1>1. PICK kept \in SUBSET {s \in S : at[s] # None /\ answer[s] = "none"} :
        orphans' = [i \in Items |-> orphans[i] + Cardinality({s \in kept : at[s] = i})]
  BY DEF Orphaned
<1>2. \A i \in Items : Cardinality({s \in kept : at[s] = i}) = IF \E s \in kept : at[s] = i THEN 1 ELSE 0
  BY SenderCount
<1> QED
  BY <1>1, <1>2 DEF Types

LEMMA TypesStep == Types /\ SenderInv /\ [Next]_vars => Types'
<1> SUFFICES ASSUME Types, SenderInv, [Next]_vars PROVE Types'
  OBVIOUS
<1> USE DEF Types, Queued, local, remote
<1>0. Form \in Senders /\ Passes \subseteq Senders
  BY DEF Senders
<1>1. ASSUME NEW i \in Items, EnqueueOffline(i) \/ RemoveQueueItem(i) \/ BackoffOver(i) PROVE Types'
  BY <1>1 DEF EnqueueOffline, RemoveQueueItem, BackoffOver
<1>2. ASSUME NEW i \in Items, PostOnline(i) PROVE Types'
  BY <1>2, <1>0 DEF PostOnline
<1>3. ASSUME NEW p \in Passes, StartSync(p) PROVE Types'
  BY <1>0, <1>3, SendNextEffect DEF StartSync
<1>4. ASSUME NEW s \in Senders, Succeed(s) PROVE Types'
  <2>1. CASE s = Form
    BY <1>4, <2>1 DEF Succeed, Finish
  <2>2. CASE s # Form
    <3> DEFINE st == [status EXCEPT ![at[s]] = "sent"]
               q == Dequeued(at[s])
    <3>1. SendNext(s, q, st) /\ UNCHANGED <<orphans, applied, unanswered>>
      BY <1>4, <2>2 DEF Succeed, Finish
    <3>2. st \in [Items -> Queued \cup {"new", "posting", "sent", "removed", "abandoned"}]
      OBVIOUS
    <3> HIDE DEF st, q
    <3> QED
      BY <3>1, <3>2, SendNextEffect
  <2> QED
    BY <2>1, <2>2
<1>5. ASSUME NEW s \in Senders, FailRefused(s) PROVE Types'
  BY <1>5 DEF FailRefused, GiveUp
<1>6. ASSUME NEW s \in Senders, FailUnanswered(s) PROVE Types'
  <2>1. orphans' \in [Items -> Nat]
    BY <1>6, OrphanCount DEF FailUnanswered, SenderInv
  <2>2. unanswered' \in [Items -> Nat] /\ applied' = applied
    BY <1>6 DEF FailUnanswered
  <2>3. /\ status' = [status EXCEPT ![at[s]] = "failed"]
        /\ at' = [at EXCEPT ![s] = None]
        /\ answer' = [answer EXCEPT ![s] = "none"]
    BY <1>6 DEF FailUnanswered, GiveUp
  <2> QED
    BY <2>1, <2>2, <2>3
<1>7. CASE Restart
  <2>1. orphans' \in [Items -> Nat]
    BY <1>7, OrphanCount DEF Restart, SenderInv
  <2>2. unanswered' \in [Items -> Nat]
    BY <1>7, SenderCount DEF Restart, SenderInv
  <2> QED
    BY <1>7, <2>1, <2>2 DEF Restart
<1>8. ASSUME NEW s \in Senders, Serve(s) PROVE Types'
  BY <1>8 DEF Serve
<1>9. ASSUME NEW i \in Items, ServeOrphan(i) PROVE Types'
  BY <1>9 DEF ServeOrphan
<1>10. CASE UNCHANGED vars
  BY <1>10 DEF vars
<1> QED
  BY <1>1, <1>2, <1>3, <1>4, <1>5, <1>6, <1>7, <1>8, <1>9, <1>10 DEF Next, Return

LEMMA SenderStep == Types /\ SenderInv /\ [Next]_vars => SenderInv'
<1> SUFFICES ASSUME Types, SenderInv, [Next]_vars PROVE SenderInv'
  OBVIOUS
<1> USE SendersAssumption DEF Types, SenderInv, OneSenderPerItem, Senders, local, remote
\* A pass turns to an item that is due, hence nobody's.
<1>0. ASSUME NEW p \in Passes, NEW q, NEW st, SendNext(p, q, st),
             st \in [Items -> Queued \cup {"new", "posting", "sent", "removed", "abandoned"}],
             \A s \in Senders \ {p} : at[s] # None => st[at[s]] = status[at[s]]
      PROVE  SenderInv'
  <2>1. CASE at' = [at EXCEPT ![p] = None] /\ status' = st
    BY <1>0, <2>1
  <2>2. ASSUME NEW i \in Items, st[i] \in {"pending", "failed"},
               status' = [st EXCEPT ![i] = "syncing"], at' = [at EXCEPT ![p] = i]
        PROVE  SenderInv'
    <3>1. \A s \in Senders \ {p} : at[s] # None => at[s] # i /\ status'[at[s]] = status[at[s]]
      BY <1>0, <2>2
    <3> QED
      BY <1>0, <2>2, <3>1
  <2> QED
    BY <1>0, <2>1, <2>2, SendNextEffect
<1>1. ASSUME NEW i \in Items, EnqueueOffline(i) \/ RemoveQueueItem(i) \/ BackoffOver(i)
      PROVE  SenderInv'
  <2>1. UNCHANGED at /\ (status' = status \/ (status[i] \in {"new", "failed"}
        /\ \A j \in Items \ {i} : status'[j] = status[j]))
    BY <1>1 DEF EnqueueOffline, RemoveQueueItem, BackoffOver
  <2> QED
    BY <2>1
<1>2. ASSUME NEW i \in Items, PostOnline(i) PROVE SenderInv'
  BY <1>2 DEF PostOnline
<1>3. ASSUME NEW p \in Passes, StartSync(p) PROVE SenderInv'
  BY <1>0, <1>3 DEF StartSync
<1>4. ASSUME NEW s \in Senders, Succeed(s) PROVE SenderInv'
  <2>1. CASE s = Form
    BY <1>4, <2>1 DEF Succeed, Finish
  <2>2. CASE s # Form
    <3> DEFINE st == [status EXCEPT ![at[s]] = "sent"]
               q == Dequeued(at[s])
    <3>1. SendNext(s, q, st) /\ s \in Passes /\ at[s] # None
      BY <1>4, <2>2 DEF Succeed, Finish
    <3>2. st \in [Items -> Queued \cup {"new", "posting", "sent", "removed", "abandoned"}]
      BY DEF Queued
    <3>3. \A r \in Senders \ {s} : at[r] # None => st[at[r]] = status[at[r]]
      BY <3>1
    <3> HIDE DEF st, q
    <3> QED
      BY <1>0, <3>1, <3>2, <3>3
  <2> QED
    BY <2>1, <2>2
<1>5. ASSUME NEW s \in Senders, at[s] # None, GiveUp(s) PROVE SenderInv'
  BY <1>5 DEF GiveUp
<1>6. CASE Restart
  BY <1>6 DEF Restart
<1>7. CASE UNCHANGED <<at, status>>
  BY <1>7
<1> QED
  BY <1>1, <1>2, <1>3, <1>4, <1>5, <1>6, <1>7
  DEF Next, Return, FailRefused, FailUnanswered, Serve, ServeOrphan, vars

-----------------------------------------------------------------------------
\* One item with its tallies: the step from one to the other keeps them even.
Even(i) ==
  /\ applied[i] + orphans[i] <= unanswered[i] + (IF Granted(i) \/ status[i] = "sent" THEN 1 ELSE 0)
  /\ Granted(i) \/ status[i] = "sent" => applied[i] > 0

LEMMA EffectStep == IInv /\ [Next]_vars => EffectInv'
<1> SUFFICES ASSUME IInv, [Next]_vars, NEW i \in Items PROVE Even(i)'
  BY DEF EffectInv, Even
<1> USE SendersAssumption DEF local, remote
<1>0. /\ applied[i] \in Nat /\ orphans[i] \in Nat /\ unanswered[i] \in Nat
      /\ Even(i) /\ Types /\ SenderInv /\ OneSenderPerItem
  BY DEF IInv, Types, EffectInv, Even, SenderInv
<1> DEFINE Backed == Granted(i) \/ status[i] = "sent"
\* A step that changes no tally of item i, nor what it may count on.
<1>s. ASSUME UNCHANGED <<applied[i], orphans[i], unanswered[i]>>, Backed <=> Backed'
      PROVE  Even(i)'
  BY <1>0, <1>s DEF Even
\* The sender that works on item i decides alone what the item counts on.
<1>w. ASSUME NEW s \in Senders, at[s] = i PROVE status[i] # "sent" /\ (Granted(i) <=> answer[s] = "ok")
  BY <1>0, <1>w DEF SenderInv, OneSenderPerItem, Granted, Senders
\* Nothing changes for an item none of whose senders moves.
<1>o. ASSUME NEW s \in Senders, at[s] # i, at'[s] # i \/ answer'[s] # "ok",
             \A r \in Senders \ {s} : at'[r] = at[r] /\ answer'[r] = answer[r]
      PROVE  Granted(i) <=> Granted(i)'
  BY <1>o DEF Granted
<1>1. ASSUME NEW j \in Items, EnqueueOffline(j) \/ RemoveQueueItem(j) \/ BackoffOver(j) PROVE Even(i)'
  <2>1. UNCHANGED <<at, answer, applied, orphans, unanswered>>
    BY <1>1 DEF EnqueueOffline, RemoveQueueItem, BackoffOver
  <2>2. status[i] = "sent" <=> status'[i] = "sent"
    BY <1>1, <1>0 DEF EnqueueOffline, RemoveQueueItem, BackoffOver, Types
  <2> QED
    BY <2>1, <2>2, <1>s DEF Granted
<1>2. ASSUME NEW j \in Items, PostOnline(j) PROVE Even(i)'
  <2>1. /\ UNCHANGED <<answer, applied, orphans, unanswered>>
        /\ at[Form] = None /\ Form \in Senders /\ answer[Form] = "none"
        /\ status[i] = "sent" <=> status'[i] = "sent"
    BY <1>2, <1>0 DEF PostOnline, Types, Senders
  <2>2. \A r \in Senders \ {Form} : at'[r] = at[r]
    BY <1>2, <1>0 DEF PostOnline, Types
  <2>3. Granted(i) <=> Granted(i)'
    BY <1>o, <2>1, <2>2
  <2> QED
    BY <2>1, <2>3, <1>s
\* A pass turns to its next item, after a start or a success.
<1>n. ASSUME NEW p \in Passes, NEW q, NEW st, SendNext(p, q, st),
             st \in [Items -> Queued \cup {"new", "posting", "sent", "removed", "abandoned"}]
      PROVE  /\ answer'[p] = "none"
             /\ \A r \in Senders \ {p} : at'[r] = at[r] /\ answer'[r] = answer[r]
             /\ status'[i] = "sent" <=> st[i] = "sent"
  BY <1>n, <1>0, SendNextEffect DEF Types, Senders
<1>3. ASSUME NEW p \in Passes, StartSync(p) PROVE Even(i)'
  <2>1. SendNext(p, queue, status) /\ at[p] = None /\ p \in Senders
        /\ UNCHANGED <<applied, orphans, unanswered>>
    BY <1>3 DEF StartSync, Senders
  <2>2. /\ answer'[p] = "none"
        /\ \A r \in Senders \ {p} : at'[r] = at[r] /\ answer'[r] = answer[r]
        /\ status'[i] = "sent" <=> status[i] = "sent"
    BY <1>n, <1>0, <2>1 DEF Types
  <2>3. Granted(i) <=> Granted(i)'
    BY <1>o, <2>1, <2>2
  <2> QED
    BY <2>1, <2>2, <2>3, <1>s
<1>4. ASSUME NEW s \in Senders, Succeed(s) PROVE Even(i)'
  <2>1. at[s] \in Items /\ answer[s] = "ok" /\ UNCHANGED <<applied, orphans, unanswered>>
    BY <1>4, <1>0 DEF Succeed, Types
  <2>2. /\ answer'[s] = "none"
        /\ \A r \in Senders \ {s} : at'[r] = at[r] /\ answer'[r] = answer[r]
        /\ status'[i] = "sent" <=> status[i] = "sent" \/ at[s] = i
    <3>1. CASE s = Form
      BY <1>4, <1>0, <2>1, <3>1 DEF Succeed, Finish, Types
    <3>2. CASE s # Form
      <4> DEFINE st == [status EXCEPT ![at[s]] = "sent"]
                 q == Dequeued(at[s])
      <4>1. SendNext(s, q, st) /\ s \in Passes
        BY <1>4, <3>2 DEF Succeed, Finish, Senders
      <4>2. st \in [Items -> Queued \cup {"new", "posting", "sent", "removed", "abandoned"}]
        BY <1>0 DEF Types
      <4>3. st[i] = "sent" <=> status[i] = "sent" \/ at[s] = i
        BY <1>0 DEF Types
      <4> HIDE DEF st, q
      <4> QED
        BY <1>n, <4>1, <4>2, <4>3
    <3> QED
      BY <3>1, <3>2
  <2>3. CASE at[s] = i
    BY <2>1, <2>2, <2>3, <1>s, <1>w
  <2>4. CASE at[s] # i
    BY <2>1, <2>2, <2>4, <1>s, <1>o
  <2> QED
    BY <2>3, <2>4
\* What a sender that gives up leaves behind.
<1>g. ASSUME NEW s \in Senders, at[s] # None, GiveUp(s)
      PROVE  /\ at'[s] = None
             /\ \A r \in Senders \ {s} : at'[r] = at[r] /\ answer'[r] = answer[r]
             /\ at[s] = i => status'[i] = "failed"
             /\ at[s] # i => status'[i] = status[i]
  BY <1>g, <1>0 DEF GiveUp, Types
<1>h. ASSUME NEW s \in Senders, at[s] # None, GiveUp(s)
      PROVE  /\ at[s] = i => ~Backed'
             /\ at[s] # i => (Backed <=> Backed')
  <2>1. CASE at[s] = i
    BY <1>g, <1>h, <1>0, <2>1 DEF Granted, OneSenderPerItem
  <2>2. CASE at[s] # i
    BY <1>g, <1>h, <1>o, <2>2
  <2> QED
    BY <2>1, <2>2
<1>5. ASSUME NEW s \in Senders, FailRefused(s) PROVE Even(i)'
  <2>1. at[s] # None /\ answer[s] = "error" /\ GiveUp(s) /\ UNCHANGED <<applied, orphans, unanswered>>
    BY <1>5 DEF FailRefused
  <2>2. Backed <=> Backed'
    BY <2>1, <1>h, <1>w
  <2> QED
    BY <2>1, <2>2, <1>s
<1>6. ASSUME NEW s \in Senders, FailUnanswered(s) PROVE Even(i)'
  <2>1. at[s] # None /\ GiveUp(s) /\ UNCHANGED applied /\ Orphaned({s})
    BY <1>6 DEF FailUnanswered
  <2>2. /\ orphans'[i] \in Nat
        /\ orphans'[i] <= orphans[i] + IF at[s] = i /\ answer[s] = "none" THEN 1 ELSE 0
    BY <2>1, <1>0, OrphanCount
  <2>3. unanswered'[i] = IF at[s] = i THEN unanswered[i] + 1 ELSE unanswered[i]
    BY <1>6, <1>0 DEF FailUnanswered, Types
  <2>4. CASE at[s] = i
    <3>1. ~Backed' /\ (Backed <=> answer[s] = "ok")
      BY <2>1, <2>4, <1>h, <1>w
    <3> QED
      BY <3>1, <2>1, <2>2, <2>3, <2>4, <1>0 DEF Even
  <2>5. CASE at[s] # i
    <3>1. Backed <=> Backed'
      BY <2>1, <2>5, <1>h
    <3> QED
      BY <3>1, <2>1, <2>2, <2>3, <2>5, <1>0 DEF Even
  <2> QED
    BY <2>4, <2>5
<1>7. CASE Restart
  <2>1. /\ UNCHANGED applied /\ Orphaned(Senders)
        /\ \A s \in Senders : at'[s] = None
        /\ status'[i] = IF i = at[Form] THEN "abandoned" ELSE status[i]
    BY <1>7, <1>0 DEF Restart, Types
  <2>2. /\ orphans'[i] \in Nat
        /\ orphans'[i] <= orphans[i]
             + IF \E s \in Senders : at[s] = i /\ answer[s] = "none" THEN 1 ELSE 0
    BY <2>1, <1>0, OrphanCount
  <2>3. unanswered'[i] = unanswered[i] + IF \E s \in Senders : at[s] = i THEN 1 ELSE 0
    BY <1>7, <1>0, SenderCount DEF Restart
  <2>4. ~Granted(i)' /\ Form \in Senders
    BY <2>1 DEF Granted, Senders
  <2>5. CASE \E s \in Senders : at[s] = i
    <3>1. PICK s \in Senders : at[s] = i
      BY <2>5
    <3>2. status[i] # "sent" /\ (Granted(i) <=> answer[s] = "ok")
      BY <3>1, <1>w
    <3>3. (\E r \in Senders : at[r] = i /\ answer[r] = "none") => answer[s] = "none"
      BY <3>1, <1>0 DEF OneSenderPerItem
    <3>4. status'[i] # "sent"
      BY <2>1, <3>2
    <3> QED
      BY <3>1, <3>2, <3>3, <3>4, <2>1, <2>2, <2>3, <2>4, <1>0 DEF Even
  <2>6. CASE ~\E s \in Senders : at[s] = i
    <3>1. ~Granted(i) /\ status'[i] = status[i]
      BY <2>6, <2>1, <2>4 DEF Granted
    <3> QED
      BY <3>1, <2>6, <2>1, <2>2, <2>3, <2>4, <1>0 DEF Even
  <2> QED
    BY <2>5, <2>6
<1>8. ASSUME NEW s \in Senders, Serve(s) PROVE Even(i)'
  <2>1. /\ at[s] # None /\ answer[s] = "none" /\ UNCHANGED <<status, at, orphans, unanswered>>
        /\ \A r \in Senders \ {s} : answer'[r] = answer[r]
    BY <1>8, <1>0 DEF Serve, Types
  <2>2. \/ answer'[s] = "ok" /\ applied'[i] = IF at[s] = i THEN applied[i] + 1 ELSE applied[i]
        \/ answer'[s] = "error" /\ applied'[i] = applied[i]
    BY <1>8, <1>0 DEF Serve, Types
  <2>3. CASE at[s] = i
    <3>1. ~Backed
      BY <2>1, <2>3, <1>w
    <3>2. Granted(i)' <=> answer'[s] = "ok"
      BY <2>1, <2>3, <1>0 DEF Granted, OneSenderPerItem
    <3> QED
      BY <3>1, <3>2, <2>1, <2>2, <2>3, <1>0 DEF Even
  <2>4. CASE at[s] # i
    BY <2>1, <2>2, <2>4, <1>o, <1>s
  <2> QED
    BY <2>3, <2>4
<1>9. ASSUME NEW j \in Items, ServeOrphan(j) PROVE Even(i)'
  <2>1. UNCHANGED <<at, answer, status, unanswered>>
    BY <1>9 DEF ServeOrphan
  <2>2. /\ applied'[i] + orphans'[i] <= applied[i] + orphans[i]
        /\ applied'[i] >= applied[i]
        /\ applied'[i] \in Nat /\ orphans'[i] \in Nat
    BY <1>9, <1>0 DEF ServeOrphan, Types
  <2>3. Granted(i) <=> Granted(i)'
    BY <2>1 DEF Granted
  <2> QED
    BY <2>1, <2>2, <2>3, <1>0 DEF Even
<1>10. CASE UNCHANGED vars
  BY <1>10, <1>s DEF vars, Granted
<1> QED
  BY <1>1, <1>2, <1>3, <1>4, <1>5, <1>6, <1>7, <1>8, <1>9, <1>10 DEF Next, Return

LEMMA Inductive == Spec => []IInv
<1>1. Init => IInv
  BY SendersAssumption DEF Init, IInv, Types, SenderInv, OneSenderPerItem, EffectInv, Granted, Queued, Senders
<1>2. IInv /\ [Next]_vars => IInv'
  BY TypesStep, SenderStep, EffectStep DEF IInv
<1> QED
  BY <1>1, <1>2, PTL DEF Spec

-----------------------------------------------------------------------------
\* Any number of passes, started whenever: none sends an item another one is
\* sending, nor one the form has not queued yet.
THEOREM OneSender == Spec => []OneSenderPerItem
<1>1. IInv => OneSenderPerItem
  BY DEF IInv, SenderInv
<1> QED
  BY <1>1, Inductive, PTL

\* Nothing is dropped: an entry leaves the queue as sent only after the server
\* carried it out.
THEOREM NothingDropped == Spec => []SentWasApplied
<1>1. IInv => SentWasApplied
  BY DEF IInv, EffectInv, SentWasApplied
<1> QED
  BY <1>1, Inductive, PTL

\* However many retries, passes and restarts there are, an entry takes effect
\* once, and again at most once for each request that got no answer.
THEOREM DuplicatesNeedLostAnswers == Spec => []EffectsAreAccountedFor
<1>1. IInv => EffectsAreAccountedFor
  BY DEF IInv, Types, EffectInv, EffectsAreAccountedFor
<1> QED
  BY <1>1, Inductive, PTL

-----------------------------------------------------------------------------
(* The queue itself.                                                        *)

\* The queue has each queued item at one position, and no other item.
QueueInv ==
  /\ queue \in Seq(Items)
  /\ \A m, n \in 1 .. Len(queue) : queue[m] = queue[n] => m = n
  /\ \A i \in Items : status[i] \in Queued <=> \E n \in 1 .. Len(queue) : queue[n] = i

BookInv ==
  /\ QueueInv
  /\ waits \subseteq Items
  /\ stranded \subseteq Items
  /\ faults \in 0 .. MaxFaults

\* What is left when item i, at position n, is taken out.
LEMMA DequeuedFacts ==
  ASSUME QueueInv, NEW n \in 1 .. Len(queue)
  PROVE  LET q == Dequeued(queue[n]) IN
         /\ q \in Seq(Items)
         /\ Len(q) = Len(queue) - 1
         /\ \A m \in 1 .. Len(q) : q[m] = IF m < n THEN queue[m] ELSE queue[m + 1]
<1> DEFINE i == queue[n]
           front == SubSeq(queue, 1, n - 1)
           back == SubSeq(queue, n + 1, Len(queue))
<1>1. queue \in Seq(Items) /\ Len(queue) \in Nat
  BY DEF QueueInv
<1>2. {m \in 1 .. Len(queue) : queue[m] = i} = {n}
  BY DEF QueueInv
<1>3. Min({n}) = n
  BY DEF Min
<1>4. SelectInSeq(queue, LAMBDA j : j = i) = n
  BY <1>2, <1>3 DEF SelectInSeq
<1>5. Dequeued(i) = front \o back
  BY <1>4 DEF Dequeued, RemoveFirst, RemoveAt
<1>6. /\ front \in Seq(Items) /\ Len(front) = n - 1
      /\ \A m \in 1 .. n - 1 : front[m] = queue[m]
  BY <1>1
<1>7. /\ back \in Seq(Items) /\ Len(back) = Len(queue) - n
      /\ \A m \in 1 .. Len(queue) - n : back[m] = queue[n + m]
  BY <1>1
<1> HIDE DEF front, back
<1>8. /\ front \o back \in Seq(Items) /\ Len(front \o back) = Len(queue) - 1
      /\ \A m \in 1 .. Len(queue) - 1 :
           (front \o back)[m] = IF m <= n - 1 THEN front[m] ELSE back[m - (n - 1)]
  <2>1. \A s, t \in Seq(Items) :
          /\ s \o t \in Seq(Items) /\ Len(s \o t) = Len(s) + Len(t)
          /\ \A m \in 1 .. Len(s) + Len(t) : (s \o t)[m] = IF m <= Len(s) THEN s[m] ELSE t[m - Len(s)]
    OBVIOUS
  <2>2. Len(front) + Len(back) = Len(queue) - 1 /\ Len(front) = n - 1
    BY <1>1, <1>6, <1>7
  <2>3. front \in Seq(Items) /\ back \in Seq(Items)
    BY <1>6, <1>7
  <2>4. /\ front \o back \in Seq(Items) /\ Len(front \o back) = Len(queue) - 1
        /\ \A m \in 1 .. Len(queue) - 1 :
             (front \o back)[m] = IF m <= Len(front) THEN front[m] ELSE back[m - Len(front)]
    BY ONLY <2>1, <2>2, <2>3
  <2> QED
    BY ONLY <2>2, <2>4
<1>9. ASSUME NEW m \in 1 .. Len(queue) - 1
      PROVE  (front \o back)[m] = IF m < n THEN queue[m] ELSE queue[m + 1]
  <2>1. CASE m < n
    BY <1>1, <1>6, <1>8, <2>1
  <2>2. CASE ~(m < n)
    <3>1. m - (n - 1) \in 1 .. Len(queue) - n /\ n + (m - (n - 1)) = m + 1
      BY <1>1, <2>2
    <3> QED
      BY <1>7, <1>8, <1>9, <2>2, <3>1
  <2> QED
    BY <2>1, <2>2
<1> QED
  BY <1>5, <1>8, <1>9

LEMMA QueueStays ==
  ASSUME QueueInv, queue' = queue,
         \A i \in Items : status'[i] \in Queued <=> status[i] \in Queued
  PROVE  QueueInv'
BY DEF QueueInv

\* An item that was not in the queue joins it at its end.
LEMMA QueueGains ==
  ASSUME QueueInv, NEW i \in Items, status[i] \notin Queued,
         queue' = Append(queue, i), status'[i] \in Queued,
         \A j \in Items \ {i} : status'[j] \in Queued <=> status[j] \in Queued
  PROVE  QueueInv'
<1>1. queue \in Seq(Items) /\ Len(queue) \in Nat /\ ~\E n \in 1 .. Len(queue) : queue[n] = i
  BY DEF QueueInv
<1>2. /\ queue' \in Seq(Items) /\ Len(queue') = Len(queue) + 1
      /\ queue'[Len(queue) + 1] = i
      /\ \A n \in 1 .. Len(queue) : queue'[n] = queue[n]
  BY <1>1
<1>3. 1 .. Len(queue') = (1 .. Len(queue)) \cup {Len(queue) + 1}
  BY <1>1, <1>2
<1>4. ASSUME NEW m \in 1 .. Len(queue'), NEW n \in 1 .. Len(queue'), queue'[m] = queue'[n]
      PROVE  m = n
  BY <1>1, <1>2, <1>3, <1>4 DEF QueueInv
<1>5. ASSUME NEW j \in Items
      PROVE  status'[j] \in Queued <=> \E n \in 1 .. Len(queue') : queue'[n] = j
  BY <1>1, <1>2, <1>3 DEF QueueInv
<1> QED
  BY <1>2, <1>4, <1>5 DEF QueueInv

\* An item of the queue leaves it.
LEMMA QueueLoses ==
  ASSUME QueueInv, NEW i \in Items, status[i] \in Queued,
         queue' = Dequeued(i), status'[i] \notin Queued,
         \A j \in Items \ {i} : status'[j] \in Queued <=> status[j] \in Queued
  PROVE  QueueInv'
<1>1. PICK n \in 1 .. Len(queue) : queue[n] = i
  BY DEF QueueInv
<1>2. /\ queue' \in Seq(Items) /\ Len(queue') = Len(queue) - 1
      /\ \A m \in 1 .. Len(queue') : queue'[m] = IF m < n THEN queue[m] ELSE queue[m + 1]
  BY <1>1, DequeuedFacts
<1>3. Len(queue) \in Nat /\ \A k, m \in 1 .. Len(queue) : queue[k] = queue[m] => k = m
  BY DEF QueueInv
<1>4. ASSUME NEW k \in 1 .. Len(queue'), NEW m \in 1 .. Len(queue'), queue'[k] = queue'[m]
      PROVE  k = m
  BY <1>2, <1>3, <1>4
<1>5. ASSUME NEW j \in Items
      PROVE  status'[j] \in Queued <=> \E m \in 1 .. Len(queue') : queue'[m] = j
  <2>1. CASE j = i
    BY <1>1, <1>2, <1>3, <2>1
  <2>2. CASE j # i
    <3>1. ASSUME NEW k \in 1 .. Len(queue), queue[k] = j PROVE \E m \in 1 .. Len(queue') : queue'[m] = j
      <4>1. k # n
        BY <1>1, <2>2, <3>1
      <4>2. CASE k < n
        <5>1. k \in 1 .. Len(queue') /\ queue'[k] = j
          BY <1>2, <1>3, <3>1, <4>2
        <5> QED
          BY <5>1
      <4>3. CASE k > n
        <5>1. k - 1 \in 1 .. Len(queue') /\ queue'[k - 1] = j
          BY <1>2, <1>3, <3>1, <4>3
        <5> QED
          BY <5>1
      <4> QED
        BY <1>3, <4>1, <4>2, <4>3
    <3>2. ASSUME NEW m \in 1 .. Len(queue'), queue'[m] = j PROVE \E k \in 1 .. Len(queue) : queue[k] = j
      BY <1>2, <1>3, <3>2
    <3> QED
      BY <2>2, <3>1, <3>2 DEF QueueInv
  <2> QED
    BY <2>1, <2>2
<1> QED
  BY <1>2, <1>4, <1>5 DEF QueueInv

LEMMA BookStep == IInv /\ BookInv /\ [Next]_vars => BookInv'
<1> SUFFICES ASSUME IInv, BookInv, [Next]_vars PROVE BookInv'
  OBVIOUS
<1> USE MaxFaultsAssumption, SendersAssumption DEF Queued, local, remote, Fault
<1>0. /\ Types /\ SenderInv /\ Form \in Senders /\ Passes \subseteq Senders /\ QueueInv
      /\ \A s \in Senders : at[s] # None => at[s] \in Items
      /\ \A s \in Senders : s # Form => s \in Passes
  BY DEF IInv, Types, Senders, BookInv
\* A pass turns to its next item: that was queued, and stays so.
<1>n. ASSUME NEW p, NEW q, NEW st, SendNext(p, q, st),
             st \in [Items -> Queued \cup {"new", "posting", "sent", "removed", "abandoned"}]
      PROVE  queue' = q /\ \A i \in Items : status'[i] \in Queued <=> st[i] \in Queued
  <2>1. queue' = q
    BY <1>n DEF SendNext
  <2>2. \A i \in Items : status'[i] \in Queued <=> st[i] \in Queued
    BY <1>n, SendNextEffect
  <2> QED
    BY <2>1, <2>2
<1>1. ASSUME NEW i \in Items, EnqueueOffline(i) PROVE BookInv'
  BY <1>0, <1>1, QueueGains DEF EnqueueOffline, BookInv, Types
<1>2. ASSUME NEW i \in Items, PostOnline(i) PROVE BookInv'
  BY <1>0, <1>2, QueueStays DEF PostOnline, BookInv, Types
<1>3. ASSUME NEW i \in Items, BackoffOver(i) PROVE BookInv'
  BY <1>0, <1>3, QueueStays DEF BackoffOver, BookInv
<1>4. ASSUME NEW i \in Items, RemoveQueueItem(i) PROVE BookInv'
  BY <1>0, <1>4, QueueLoses DEF RemoveQueueItem, BookInv, Types
<1>5. ASSUME NEW p \in Passes, StartSync(p) PROVE BookInv'
  <2>1. SendNext(p, queue, status) /\ UNCHANGED <<waits, stranded, faults>>
    BY <1>5 DEF StartSync
  <2>2. queue' = queue /\ \A i \in Items : status'[i] \in Queued <=> status[i] \in Queued
    BY <1>0, <1>n, <2>1 DEF Types
  <2> QED
    BY <1>0, <2>1, <2>2, QueueStays DEF BookInv
<1>6. ASSUME NEW s \in Senders, Succeed(s) PROVE BookInv'
  <2>1. at[s] \in Items /\ UNCHANGED <<waits, stranded, faults>>
    BY <1>0, <1>6 DEF Succeed
  <2>2. CASE s = Form
    <3>1. status[at[s]] = "posting" /\ queue' = queue /\ status' = [status EXCEPT ![at[s]] = "sent"]
      BY <1>0, <1>6, <2>1, <2>2 DEF Succeed, Finish, SenderInv
    <3> QED
      BY <1>0, <2>1, <3>1, QueueStays DEF BookInv, Types
  <2>3. CASE s # Form
    <3> DEFINE st == [status EXCEPT ![at[s]] = "sent"]
    <3>1. SendNext(s, Dequeued(at[s]), st) /\ status[at[s]] = "syncing"
      BY <1>0, <1>6, <2>1, <2>3 DEF Succeed, Finish, SenderInv
    <3>2. /\ st \in [Items -> Queued \cup {"new", "posting", "sent", "removed", "abandoned"}]
          /\ st[at[s]] = "sent" /\ \A j \in Items \ {at[s]} : st[j] = status[j]
      BY <1>0, <2>1 DEF Types
    <3> HIDE DEF st
    <3>3. /\ queue' = Dequeued(at[s]) /\ status'[at[s]] \notin Queued
          /\ \A j \in Items \ {at[s]} : status'[j] \in Queued <=> status[j] \in Queued
      BY <1>n, <2>1, <3>1, <3>2
    <3> QED
      BY <1>0, <2>1, <3>1, <3>3, QueueLoses DEF BookInv
  <2> QED
    BY <2>2, <2>3
<1>7. ASSUME NEW s \in Senders, at[s] # None, GiveUp(s), UNCHANGED stranded, faults' \in 0 .. MaxFaults
      PROVE  BookInv'
  <2>1. /\ at[s] \in Items /\ status'[at[s]] = "failed"
        /\ \A j \in Items \ {at[s]} : status'[j] = status[j]
    BY <1>0, <1>7 DEF GiveUp, Types
  <2>2. CASE s = Form
    <3>1. status[at[s]] = "posting" /\ queue' = Append(queue, at[s]) /\ waits' = waits
      BY <1>0, <1>7, <2>2 DEF GiveUp, SenderInv
    <3> QED
      BY <1>0, <1>7, <2>1, <3>1, QueueGains DEF BookInv
  <2>3. CASE s # Form
    <3>1. status[at[s]] = "syncing" /\ queue' = queue /\ waits' = waits \cup {at[s]}
      BY <1>0, <1>7, <2>3 DEF GiveUp, SenderInv
    <3>2. QueueInv'
      BY <1>0, <2>1, <3>1, QueueStays
    <3> QED
      BY <1>7, <2>1, <3>1, <3>2 DEF BookInv
  <2> QED
    BY <2>2, <2>3
<1>8. ASSUME NEW s \in Senders, FailRefused(s) \/ FailUnanswered(s) PROVE BookInv'
  BY <1>7, <1>8 DEF FailRefused, FailUnanswered, BookInv
<1>9. CASE Restart
  <2>1. /\ UNCHANGED <<queue, waits>> /\ faults' \in 0 .. MaxFaults
        /\ status' = [i \in Items |-> IF i = at[Form] THEN "abandoned" ELSE status[i]]
        /\ stranded' = stranded \cup {at[p] : p \in {r \in Passes : at[r] # None}}
    BY <1>9 DEF Restart, BookInv
  <2>2. \A i \in Items : i = at[Form] => status[i] = "posting"
    BY <1>0 DEF SenderInv
  <2>3. QueueInv'
    BY <1>0, <2>1, <2>2, QueueStays
  <2> QED
    BY <1>0, <2>1, <2>3 DEF BookInv
<1>10. CASE (\E s \in Senders : Serve(s)) \/ (\E i \in Items : ServeOrphan(i)) \/ UNCHANGED vars
  BY <1>0, <1>10, QueueStays DEF Serve, ServeOrphan, vars, BookInv
<1> QED
  BY <1>1, <1>2, <1>3, <1>4, <1>5, <1>6, <1>8, <1>9, <1>10 DEF Next, Return

\* The variables have their types, and the queue has each queued item once,
\* whichever passes filter and update it, and however often the app restarts.
THEOREM TypesHold == Spec => []TypeOK
<1>1. Init => BookInv
  BY MaxFaultsAssumption DEF Init, BookInv, QueueInv, Queued
<1>2. IInv /\ BookInv => TypeOK
  <2> SUFFICES ASSUME IInv, BookInv PROVE TypeOK
    OBVIOUS
  <2>1. ASSUME NEW i \in Items
        PROVE  Cardinality({n \in DOMAIN queue : queue[n] = i}) = IF status[i] \in Queued THEN 1 ELSE 0
    <3>1. DOMAIN queue = 1 .. Len(queue)
      BY DEF BookInv, QueueInv
    <3>2. CASE status[i] \in Queued
      <4>1. PICK n \in 1 .. Len(queue) : queue[n] = i
        BY <3>2 DEF BookInv, QueueInv
      <4>2. {m \in DOMAIN queue : queue[m] = i} = {n}
        BY <3>1, <4>1 DEF BookInv, QueueInv
      <4> QED
        BY <3>2, <4>2, FS_Singleton
    <3>3. CASE status[i] \notin Queued
      <4>1. {m \in DOMAIN queue : queue[m] = i} = {}
        BY <3>1, <3>3 DEF BookInv, QueueInv
      <4> QED
        BY <3>3, <4>1, FS_EmptySet
    <3> QED
      BY <3>2, <3>3
  <2> QED
    BY <2>1 DEF IInv, Types, BookInv, QueueInv, TypeOK
<1> QED
  BY <1>1, <1>2, Inductive, BookStep, PTL DEF Spec

-----------------------------------------------------------------------------
\* Only an entry that was sent can have a request under way.
Fresh == \A i \in Items : orphans[i] > 0 => status[i] # "new"

LEMMA FreshStep == IInv /\ Fresh /\ [Next]_vars => Fresh'
<1> SUFFICES ASSUME IInv, Fresh, [Next]_vars PROVE Fresh'
  OBVIOUS
<1> USE DEF Fresh, Types
<1>0. Types /\ SenderInv /\ Form \in Senders /\ Passes \subseteq Senders
  BY DEF IInv, Senders
<1>1. ASSUME NEW i \in Items, EnqueueOffline(i) \/ PostOnline(i) \/ RemoveQueueItem(i) \/ BackoffOver(i)
      PROVE Fresh'
  BY <1>0, <1>1 DEF EnqueueOffline, PostOnline, RemoveQueueItem, BackoffOver, remote
<1>2. ASSUME NEW p \in Passes, StartSync(p) PROVE Fresh'
  BY <1>0, <1>2, SendNextEffect DEF StartSync, remote
<1>3. ASSUME NEW s \in Senders, Succeed(s) PROVE Fresh'
  <2>1. CASE s = Form
    BY <1>0, <1>3, <2>1 DEF Succeed, Finish, remote
  <2>2. CASE s # Form
    <3> DEFINE st == [status EXCEPT ![at[s]] = "sent"]
               q == Dequeued(at[s])
    <3>1. SendNext(s, q, st) /\ UNCHANGED orphans
      BY <1>3, <2>2 DEF Succeed, Finish, remote
    <3>2. st \in [Items -> Queued \cup {"new", "posting", "sent", "removed", "abandoned"}]
      BY <1>0
    <3>3. \A i \in Items : st[i] = "new" => status[i] = "new"
      BY <1>0
    <3> HIDE DEF st, q
    <3> QED
      BY <1>0, <3>1, <3>2, <3>3, SendNextEffect
  <2> QED
    BY <2>1, <2>2
<1>4. ASSUME NEW s \in Senders, FailRefused(s) PROVE Fresh'
  BY <1>0, <1>4 DEF FailRefused, GiveUp, remote
<1>5. ASSUME NEW S \in SUBSET Senders, Orphaned(S),
             \A i \in Items : status'[i] = "new" => status[i] = "new" /\ \A s \in S : at[s] # i
      PROVE Fresh'
  <2>1. \A i \in Items : orphans'[i] <= orphans[i]
               + IF \E s \in S : at[s] = i /\ answer[s] = "none" THEN 1 ELSE 0
    BY <1>0, <1>5, OrphanCount DEF SenderInv
  <2>2. ASSUME NEW i \in Items, status'[i] = "new" PROVE ~(orphans'[i] > 0)
    <3>1. ~(orphans[i] > 0) /\ orphans[i] \in Nat /\ orphans'[i] <= orphans[i]
      BY <1>0, <1>5, <2>1, <2>2
    <3>2. orphans'[i] \in Nat
      BY <1>0, <1>5, OrphanCount DEF SenderInv
    <3> QED
      BY <3>1, <3>2
  <2> QED
    BY <2>2
<1>6. ASSUME NEW s \in Senders, FailUnanswered(s) PROVE Fresh'
  <2>1. Orphaned({s}) /\ status' = [status EXCEPT ![at[s]] = "failed"]
    BY <1>6 DEF FailUnanswered, GiveUp
  <2> QED
    BY <1>0, <1>5, <2>1
<1>7. CASE Restart
  <2>1. /\ Orphaned(Senders)
        /\ status' = [i \in Items |-> IF i = at[Form] THEN "abandoned" ELSE status[i]]
    BY <1>7 DEF Restart
  <2>2. \A s \in Senders : at[s] \in Items => status[at[s]] # "new"
    BY <1>0, SendersAssumption DEF SenderInv, Senders
  <2>3. \A i \in Items : status'[i] = "new" => status[i] = "new"
    BY <2>1
  <2> QED
    BY <1>5, <2>1, <2>2, <2>3
<1>8. ASSUME NEW s \in Senders, Serve(s) PROVE Fresh'
  BY <1>8 DEF Serve, local
<1>9. ASSUME NEW i \in Items, ServeOrphan(i) PROVE Fresh'
  BY <1>0, <1>9 DEF ServeOrphan, local
<1>10. CASE UNCHANGED vars
  BY <1>10 DEF vars, local, remote
<1> QED
  BY <1>1, <1>2, <1>3, <1>4, <1>6, <1>7, <1>8, <1>9, <1>10 DEF Next, Return

LEMMA AlwaysFresh == Spec => []Fresh
<1>1. Init => Fresh
  BY DEF Init, Fresh
<1> QED
  BY <1>1, Inductive, FreshStep, PTL DEF Spec

\* Seen through Fate, a step makes an entry known, takes effect of one, or
\* settles one; the status stored with a queued entry does not show.
LEMMA PromiseStep == IInv /\ Fresh /\ [Next]_vars => [Promise!Next]_(Promise!vars)
<1> SUFFICES ASSUME IInv, Fresh, [Next]_vars PROVE [Promise!Next]_(Promise!vars)
  OBVIOUS
<1> DEFINE S == [i \in Items |-> Fate(i)]
           D == {i \in Items : applied[i] > 0}
<1> USE DEF Types
<1>0. Types /\ SenderInv /\ Form \in Senders /\ Passes \subseteq Senders
  BY DEF IInv, Senders
<1>1. ASSUME NEW i \in Items, EnqueueOffline(i) \/ PostOnline(i) PROVE Promise!Next
  <2>1. Fate(i) = "none" /\ D' = D
    BY <1>1 DEF EnqueueOffline, PostOnline, remote, Fate
  <2>2. \A j \in Items : Fate(j)' = IF j = i THEN "pending" ELSE Fate(j)
    BY <1>0, <1>1 DEF EnqueueOffline, PostOnline, Fate
  <2>3. Promise!Publish(i)
    BY <2>1, <2>2 DEF Promise!Publish
  <2> QED
    BY <2>3 DEF Promise!Next
<1>2. ASSUME NEW i \in Items, RemoveQueueItem(i) PROVE Promise!Next
  <2>1. Promise!Settle({}, {i})
    BY <1>0, <1>2 DEF RemoveQueueItem, remote, Promise!Settle, Fate
  <2> QED
    BY <2>1 DEF Promise!Next
<1>3. ASSUME NEW s \in Senders, Succeed(s) PROVE Promise!Next
  <2> DEFINE i == at[s]
  <2>1. i \in Items /\ status[i] \in {"syncing", "posting"} /\ applied[i] > 0
    BY <1>0, <1>3 DEF Succeed, SenderInv, IInv, EffectInv, Granted, Senders
  <2>2. \A j \in Items : Fate(j)' = IF j = i THEN "processed" ELSE Fate(j)
    <3>1. CASE s = Form
      BY <1>0, <1>3, <2>1, <3>1 DEF Succeed, Finish, Fate
    <3>2. CASE s # Form
      <4> DEFINE st == [status EXCEPT ![i] = "sent"]
                 q == Dequeued(i)
      <4>1. SendNext(s, q, st)
        BY <1>3, <3>2 DEF Succeed, Finish
      <4>2. st \in [Items -> Queued \cup {"new", "posting", "sent", "removed", "abandoned"}]
        BY <1>0
      <4>3. /\ st[i] = "sent"
            /\ \A j \in Items : j # i => st[j] = status[j]
        BY <1>0, <2>1
      <4> HIDE DEF st, q
      <4> QED
        BY <4>1, <4>2, <4>3, SendNextEffect DEF Fate
    <3> QED
      BY <3>1, <3>2
  <2>3. D' = D
    BY <1>3 DEF Succeed, remote
  <2>4. Promise!Settle({i}, {})
    BY <2>1, <2>2, <2>3 DEF Promise!Settle, Fate
  <2> QED
    BY <2>1, <2>4 DEF Promise!Next
<1>4. ASSUME NEW p \in Passes, StartSync(p) PROVE UNCHANGED Promise!vars
  BY <1>0, <1>4, SendNextEffect DEF StartSync, remote, Promise!vars, Fate
<1>5. ASSUME NEW s \in Senders, FailRefused(s) \/ FailUnanswered(s) PROVE UNCHANGED Promise!vars
  BY <1>0, <1>5 DEF FailRefused, FailUnanswered, GiveUp, remote, SenderInv, Senders, Promise!vars, Fate
<1>6. ASSUME NEW i \in Items, BackoffOver(i) PROVE UNCHANGED Promise!vars
  BY <1>6 DEF BackoffOver, remote, Promise!vars, Fate
<1>7. CASE Restart
  <2>1. CASE at[Form] = None
    BY <1>0, <1>7, <2>1, SendersAssumption DEF Restart, Promise!vars, Fate
  <2>2. CASE at[Form] # None
    <3>1. at[Form] \in Items /\ Fate(at[Form]) = "pending"
      BY <1>0, <2>2 DEF SenderInv, Fate
    <3>2. Promise!Settle({}, {at[Form]})
      BY <1>0, <1>7, <3>1 DEF Restart, Promise!Settle, Fate
    <3> QED
      BY <3>1, <3>2 DEF Promise!Next
  <2> QED
    BY <2>1, <2>2
<1>8. ASSUME NEW s \in Senders, Serve(s) PROVE Promise!Next \/ UNCHANGED Promise!vars
  <2>1. PICK i \in Items : i = at[s] /\ Fate(i) # "none"
    BY <1>0, <1>8 DEF Serve, SenderInv, Fate, Senders
  <2>2. CASE applied' = applied
    BY <1>8, <2>2 DEF Serve, local, Promise!vars, Fate
  <2>3. CASE applied' = [applied EXCEPT ![i] = @ + 1]
    <3>1. D' = D \cup {i} /\ S' = S
      BY <1>0, <1>8, <2>1, <2>3 DEF Serve, local, Fate
    <3>2. Promise!Deliver(i)
      BY <2>1, <3>1 DEF Promise!Deliver
    <3> QED
      BY <3>2 DEF Promise!Next
  <2> QED
    BY <1>8, <2>1, <2>2, <2>3 DEF Serve
<1>9. ASSUME NEW i \in Items, ServeOrphan(i) PROVE Promise!Next \/ UNCHANGED Promise!vars
  <2>1. CASE applied' = applied
    BY <1>9, <2>1 DEF ServeOrphan, local, Promise!vars, Fate
  <2>2. CASE applied' = [applied EXCEPT ![i] = @ + 1]
    <3>1. Promise!Deliver(i)
      BY <1>0, <1>9, <2>2 DEF ServeOrphan, local, Promise!Deliver, Fate, Fresh
    <3> QED
      BY <3>1 DEF Promise!Next
  <2> QED
    BY <1>9, <2>1, <2>2 DEF ServeOrphan
<1>10. CASE UNCHANGED vars
  BY <1>10 DEF vars, local, remote, Promise!vars, Fate
<1> QED
  BY <1>1, <1>2, <1>3, <1>4, <1>5, <1>6, <1>7, <1>8, <1>9, <1>10 DEF Next, Return

\* The queue implements the promise of EventDelivery: settled as sent means
\* carried out, and what is settled stays so, for any number of passes.
THEOREM PromiseKept == Spec => KeepsPromise
<1>1. Init => Promise!Init
  BY DEF Init, Promise!Init, Fate
<1> QED
  BY <1>1, Inductive, AlwaysFresh, PromiseStep, PTL DEF Spec, KeepsPromise, Promise!Spec
=============================================================================
