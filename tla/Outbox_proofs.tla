---------------------------- MODULE Outbox_proofs ----------------------------
(***************************************************************************)
(* Proofs about the outbox, for every set of events and pollers and every  *)
(* batch size and fault bound.                                             *)
(*                                                                         *)
(* The safety properties are not inductive: they speak of committed state, *)
(* while what a commit will write is decided earlier, in the transaction.  *)
(* IInv adds what is known about open transactions.                        *)
(***************************************************************************)
EXTENDS Outbox, TLAPS

\* A closed transaction holds no rows; an open one holds pending rows, each in
\* one of its three sets.
TxShape ==
  \A p \in Pollers :
    /\ ~open[p] => Held(p) = {}
    /\ \A e \in Held(p) : status[e] = "pending"
    /\ todo[p] \cap ok[p] = {}
    /\ todo[p] \cap bad[p] = {}
    /\ ok[p] \cap bad[p] = {}

\* A row is locked by one transaction at a time.
LocksExclude ==
  \A p, q \in Pollers : p # q => Held(p) \cap Held(q) = {}

\* With its transaction open, a handler works on a claimed row that has not
\* been recorded.
HandlerInTx ==
  \A p \in Pollers : open[p] /\ busy[p] # NoEvent =>
    busy[p] \in todo[p] /\ busy[p] \notin recorded

\* A handler works on an event that exists, even when its claim is long gone.
HandlerHasEvent ==
  \A p \in Pollers : busy[p] # NoEvent => status[busy[p]] # "none"

\* What a transaction will record was delivered; what it will mark failed is
\* not recorded.
TxContent ==
  \A p \in Pollers : ok[p] \subseteq delivered /\ bad[p] \cap recorded = {}

\* The committed tables.
TableContent ==
  /\ recorded \subseteq delivered
  /\ \A e \in Events : status[e] = "processed" => e \in recorded
  /\ \A e \in recorded : status[e] # "failed"

IInv ==
  /\ TypeOK
  /\ TxShape /\ LocksExclude /\ HandlerInTx /\ HandlerHasEvent
  /\ TxContent /\ TableContent

-----------------------------------------------------------------------------
\* Every variable keeps its type in every step of the poller.
LEMMA TypeStep == TypeOK /\ [Next]_vars => TypeOK'
<1> SUFFICES ASSUME TypeOK, [Next]_vars PROVE TypeOK'
  OBVIOUS
<1> USE DEF TypeOK, Statuses, NoEvent
<1>1. ASSUME NEW e \in Events, Publish(e) PROVE TypeOK'
  BY <1>1 DEF Publish, txvars
<1>2. ASSUME NEW e \in Events, Requeue(e) PROVE TypeOK'
  BY <1>2, FaultsAssumption DEF Requeue, txvars, Fault
<1>3. ASSUME NEW p \in Pollers, Claim(p) PROVE TypeOK'
  BY <1>3 DEF Claim, tables, Claimable
<1>4. ASSUME NEW p \in Pollers, SkipDuplicate(p) PROVE TypeOK'
  BY <1>4 DEF SkipDuplicate, tables
<1>5. ASSUME NEW p \in Pollers, Dispatch(p) PROVE TypeOK'
  BY <1>5 DEF Dispatch, tables, txvars
<1>6. ASSUME NEW p \in Pollers, HandlerReturnsNil(p) PROVE TypeOK'
  BY <1>6 DEF HandlerReturnsNil, tables
<1>7. ASSUME NEW p \in Pollers, HandlerReturnsError(p) PROVE TypeOK'
  BY <1>7 DEF HandlerReturnsError, tables
<1>8. ASSUME NEW p \in Pollers, Commit(p) PROVE TypeOK'
  BY <1>8 DEF Commit, CloseTx
<1>9. ASSUME NEW p \in Pollers, LoseSession(p) PROVE TypeOK'
  BY <1>9, FaultsAssumption DEF LoseSession, CloseTx, tables, Fault
<1>10. ASSUME NEW p \in Pollers, Crash(p) PROVE TypeOK'
  BY <1>10, FaultsAssumption DEF Crash, CloseTx, tables, Fault
<1>11. CASE UNCHANGED vars
  BY <1>11 DEF vars
<1> QED
  BY <1>1, <1>2, <1>3, <1>4, <1>5, <1>6, <1>7, <1>8, <1>9, <1>10, <1>11
  DEF Next, PollerStep

\* Every variable has its type in every reachable state.
THEOREM TypeCorrect == Spec => []TypeOK
<1>1. Init => TypeOK
  BY FaultsAssumption DEF Init, TypeOK, Statuses
<1> QED
  BY <1>1, TypeStep, PTL DEF Spec

-----------------------------------------------------------------------------
\* What a poller does inside its transaction, and what ends the transaction,
\* keeps the invariant, whatever the other pollers have claimed.
LEMMA InductiveStep == IInv /\ [Next]_vars => IInv'
<1> SUFFICES ASSUME IInv, [Next]_vars PROVE IInv'
  OBVIOUS
<1> USE DEF IInv
<1>0. TypeOK'
  BY TypeStep
<1> DEFINE Parts == /\ TxShape /\ LocksExclude /\ HandlerInTx
                    /\ TxContent /\ TableContent /\ HandlerHasEvent
<1> USE <1>0 DEF TypeOK, Held
<1>1. ASSUME NEW e \in Events, Publish(e) PROVE Parts'
  <2>1. TxShape'
    BY <1>1 DEF Publish, txvars, Statuses, TxShape
  <2>2. LocksExclude'
    BY <1>1 DEF Publish, txvars, Statuses, LocksExclude
  <2>3. HandlerInTx'
    BY <1>1 DEF Publish, txvars, Statuses, HandlerInTx
  <2>4. TxContent'
    BY <1>1 DEF Publish, txvars, Statuses, TxContent
  <2>5. TableContent'
    BY <1>1 DEF Publish, txvars, Statuses, TableContent
  <2>6. HandlerHasEvent'
    BY <1>1 DEF Publish, txvars, Statuses, HandlerHasEvent
  <2> QED
    BY <2>1, <2>2, <2>3, <2>4, <2>5, <2>6
<1>2. ASSUME NEW e \in Events, Requeue(e) PROVE Parts'
  <2>1. TxShape'
    BY <1>2 DEF Requeue, txvars, Statuses, TxShape
  <2>2. LocksExclude'
    BY <1>2 DEF Requeue, txvars, Statuses, LocksExclude
  <2>3. HandlerInTx'
    BY <1>2 DEF Requeue, txvars, Statuses, HandlerInTx
  <2>4. TxContent'
    BY <1>2 DEF Requeue, txvars, Statuses, TxContent
  <2>5. TableContent'
    BY <1>2 DEF Requeue, txvars, Statuses, TableContent
  <2>6. HandlerHasEvent'
    BY <1>2 DEF Requeue, txvars, Statuses, HandlerHasEvent
  <2> QED
    BY <2>1, <2>2, <2>3, <2>4, <2>5, <2>6
<1>3. ASSUME NEW p \in Pollers, Claim(p) PROVE Parts'
  <2>1. TxShape'
    BY <1>3 DEF Claim, tables, Claimable, TxShape
  <2>2. LocksExclude'
    BY <1>3 DEF Claim, tables, Claimable, LocksExclude, TxShape
  <2>3. HandlerInTx'
    BY <1>3 DEF Claim, tables, Claimable, HandlerInTx, TxShape
  <2>4. TxContent'
    BY <1>3 DEF Claim, tables, Claimable, TxContent, TxShape
  <2>5. TableContent'
    BY <1>3 DEF Claim, tables, Claimable, TableContent, TxShape
  <2>6. HandlerHasEvent'
    BY <1>3 DEF Claim, tables, Claimable, HandlerHasEvent
  <2> QED
    BY <2>1, <2>2, <2>3, <2>4, <2>5, <2>6
<1>4. ASSUME NEW p \in Pollers, SkipDuplicate(p) PROVE Parts'
  <2>1. TxShape'
    BY <1>4 DEF SkipDuplicate, tables, IsNext, TxShape
  <2>2. LocksExclude'
    BY <1>4 DEF SkipDuplicate, tables, IsNext, LocksExclude
  <2>3. HandlerInTx'
    BY <1>4 DEF SkipDuplicate, tables, IsNext, HandlerInTx
  <2>4. TxContent'
    BY <1>4 DEF SkipDuplicate, tables, IsNext, TxContent, TableContent
  <2>5. TableContent'
    BY <1>4 DEF SkipDuplicate, tables, IsNext, TableContent
  <2>6. HandlerHasEvent'
    BY <1>4 DEF SkipDuplicate, tables, IsNext, HandlerHasEvent
  <2> QED
    BY <2>1, <2>2, <2>3, <2>4, <2>5, <2>6
<1>5. ASSUME NEW p \in Pollers, Dispatch(p) PROVE Parts'
  <2>1. TxShape'
    BY <1>5 DEF Dispatch, tables, txvars, IsNext, TxShape
  <2>2. LocksExclude'
    BY <1>5 DEF Dispatch, tables, txvars, IsNext, LocksExclude
  <2>3. HandlerInTx'
    BY <1>5 DEF Dispatch, tables, txvars, IsNext, HandlerInTx
  <2>4. TxContent'
    BY <1>5 DEF Dispatch, tables, txvars, IsNext, TxContent
  <2>5. TableContent'
    BY <1>5 DEF Dispatch, tables, txvars, IsNext, TableContent
  <2>6. HandlerHasEvent'
    BY <1>5 DEF Dispatch, tables, txvars, IsNext, TxShape, HandlerHasEvent
  <2> QED
    BY <2>1, <2>2, <2>3, <2>4, <2>5, <2>6
<1>6. ASSUME NEW p \in Pollers, HandlerReturnsNil(p) PROVE Parts'
  <2>1. TxShape'
    BY <1>6 DEF HandlerReturnsNil, tables, TxShape, HandlerInTx
  <2>2. LocksExclude'
    BY <1>6 DEF HandlerReturnsNil, tables, LocksExclude, HandlerInTx
  <2>3. HandlerInTx'
    BY <1>6 DEF HandlerReturnsNil, tables, HandlerInTx
  <2>4. TxContent'
    BY <1>6 DEF HandlerReturnsNil, tables, TxContent, HandlerInTx
  <2>5. TableContent'
    BY <1>6 DEF HandlerReturnsNil, tables, TableContent, HandlerInTx
  <2>6. HandlerHasEvent'
    BY <1>6 DEF HandlerReturnsNil, tables, HandlerHasEvent
  <2> QED
    BY <2>1, <2>2, <2>3, <2>4, <2>5, <2>6
<1>7. ASSUME NEW p \in Pollers, HandlerReturnsError(p) PROVE Parts'
  <2>1. TxShape'
    BY <1>7 DEF HandlerReturnsError, tables, TxShape, HandlerInTx
  <2>2. LocksExclude'
    BY <1>7 DEF HandlerReturnsError, tables, LocksExclude, HandlerInTx
  <2>3. HandlerInTx'
    BY <1>7 DEF HandlerReturnsError, tables, HandlerInTx
  <2>4. TxContent'
    BY <1>7 DEF HandlerReturnsError, tables, TxContent, HandlerInTx
  <2>5. TableContent'
    BY <1>7 DEF HandlerReturnsError, tables, TableContent, HandlerInTx
  <2>6. HandlerHasEvent'
    BY <1>7 DEF HandlerReturnsError, tables, HandlerHasEvent
  <2> QED
    BY <2>1, <2>2, <2>3, <2>4, <2>5, <2>6
<1>8. ASSUME NEW p \in Pollers, Commit(p) PROVE Parts'
  <2>1. TxShape'
    BY <1>8 DEF Commit, CloseTx, TxShape, LocksExclude, TxContent
  <2>2. LocksExclude'
    BY <1>8 DEF Commit, CloseTx, LocksExclude, TxContent, TxShape
  <2>3. HandlerInTx'
    BY <1>8 DEF Commit, CloseTx, HandlerInTx, LocksExclude, TxContent, TxShape
  <2>4. TxContent'
    BY <1>8 DEF Commit, CloseTx, TxContent, LocksExclude, TxShape
  <2>5. TableContent'
    BY <1>8 DEF Commit, CloseTx, TableContent, LocksExclude, TxContent, TxShape
  <2>6. HandlerHasEvent'
    BY <1>8 DEF Commit, CloseTx, HandlerHasEvent
  <2> QED
    BY <2>1, <2>2, <2>3, <2>4, <2>5, <2>6
<1>9. ASSUME NEW p \in Pollers, LoseSession(p) PROVE Parts'
  <2>1. TxShape'
    BY <1>9 DEF LoseSession, CloseTx, tables, TxShape
  <2>2. LocksExclude'
    BY <1>9 DEF LoseSession, CloseTx, tables, LocksExclude
  <2>3. HandlerInTx'
    BY <1>9 DEF LoseSession, CloseTx, tables, HandlerInTx
  <2>4. TxContent'
    BY <1>9 DEF LoseSession, CloseTx, tables, TxContent
  <2>5. TableContent'
    BY <1>9 DEF LoseSession, CloseTx, tables, TableContent
  <2>6. HandlerHasEvent'
    BY <1>9 DEF LoseSession, CloseTx, tables, HandlerHasEvent
  <2> QED
    BY <2>1, <2>2, <2>3, <2>4, <2>5, <2>6
<1>10. ASSUME NEW p \in Pollers, Crash(p) PROVE Parts'
  <2>1. TxShape'
    BY <1>10 DEF Crash, CloseTx, tables, TxShape
  <2>2. LocksExclude'
    BY <1>10 DEF Crash, CloseTx, tables, LocksExclude
  <2>3. HandlerInTx'
    BY <1>10 DEF Crash, CloseTx, tables, HandlerInTx
  <2>4. TxContent'
    BY <1>10 DEF Crash, CloseTx, tables, TxContent
  <2>5. TableContent'
    BY <1>10 DEF Crash, CloseTx, tables, TableContent
  <2>6. HandlerHasEvent'
    BY <1>10 DEF Crash, CloseTx, tables, HandlerHasEvent
  <2> QED
    BY <2>1, <2>2, <2>3, <2>4, <2>5, <2>6
<1>11. CASE UNCHANGED vars
  BY <1>11 DEF vars, TxShape, LocksExclude, HandlerInTx, TxContent, TableContent, HandlerHasEvent
<1> QED
  BY <1>1, <1>2, <1>3, <1>4, <1>5, <1>6, <1>7, <1>8, <1>9, <1>10, <1>11
  DEF Next, PollerStep

LEMMA Inductive == Spec => []IInv
<1>1. Init => IInv
  <2> SUFFICES ASSUME Init PROVE IInv
    OBVIOUS
  <2>1. TypeOK
    BY FaultsAssumption DEF Init, TypeOK, Statuses
  <2> QED
    BY <2>1 DEF Init, IInv, Held, TxShape, LocksExclude, HandlerInTx, HandlerHasEvent,
                TxContent, TableContent
<1> QED
  BY <1>1, InductiveStep, PTL DEF Spec

\* A handler whose transaction is open owns its event: pending, unrecorded and
\* claimed by nobody else.  This is what FOR UPDATE SKIP LOCKED is for.
THEOREM HandlerOwnership == Spec => []OpenHandlerOwnsEvent
<1>1. IInv => OpenHandlerOwnsEvent
  BY DEF IInv, TypeOK, TxShape, LocksExclude, HandlerInTx, Held, OpenHandlerOwnsEvent
<1> QED
  BY <1>1, Inductive, PTL

\* An event is processed only after a handler returned nil for it.
THEOREM NothingProcessedUndelivered == Spec => []ProcessedWasDelivered
<1>1. IInv => ProcessedWasDelivered
  BY DEF IInv, TableContent, ProcessedWasDelivered
<1> QED
  BY <1>1, Inductive, PTL

\* A recorded event is never failed.
THEOREM NothingRecordedFails == Spec => []FailedWasNeverRecorded
<1>1. IInv => FailedWasNeverRecorded
  BY DEF IInv, TableContent, FailedWasNeverRecorded
<1> QED
  BY <1>1, Inductive, PTL

-----------------------------------------------------------------------------
\* A step of the poller is a step of the promise or leaves it alone.  Only
\* Publish, Requeue, a handler's success and Commit show.
LEMMA PromiseStep == IInv /\ [Next]_vars => [Promise!Next]_(Promise!vars)
<1> SUFFICES ASSUME IInv, [Next]_vars PROVE [Promise!Next]_(Promise!vars)
  OBVIOUS
<1> USE DEF Promise!Next, Promise!vars
<1>1. ASSUME NEW e \in Events, Publish(e) PROVE Promise!Next
  BY <1>1 DEF Publish, Promise!Publish
<1>2. ASSUME NEW e \in Events, Requeue(e) PROVE Promise!Next
  BY <1>2 DEF Requeue, Promise!Redeliver
<1>3. ASSUME NEW p \in Pollers, HandlerReturnsNil(p) PROVE Promise!Next
  <2>1. Promise!Deliver(busy[p])
    BY <1>3 DEF HandlerReturnsNil, tables, Promise!Deliver, IInv, HandlerHasEvent
  <2>2. busy[p] \in Events
    BY <1>3 DEF HandlerReturnsNil, IInv, TypeOK
  <2> QED
    BY <2>1, <2>2
<1>4. ASSUME NEW p \in Pollers, Commit(p) PROVE Promise!Next
  <2>1. Promise!Settle(ok[p], bad[p])
    BY <1>4 DEF Commit, Promise!Settle, IInv, TxShape, TxContent, Held
  <2>2. ok[p] \in SUBSET Events /\ bad[p] \in SUBSET Events
    BY DEF IInv, TypeOK
  <2> QED
    BY <2>1, <2>2
<1>5. ASSUME NEW p \in Pollers,
             Claim(p) \/ SkipDuplicate(p) \/ Dispatch(p) \/ HandlerReturnsError(p)
               \/ LoseSession(p) \/ Crash(p)
      PROVE  UNCHANGED Promise!vars
  BY <1>5 DEF Claim, SkipDuplicate, Dispatch, HandlerReturnsError, LoseSession, Crash, tables
<1>6. CASE UNCHANGED vars
  BY <1>6 DEF vars
<1> QED
  BY <1>1, <1>2, <1>3, <1>4, <1>5, <1>6 DEF Next, PollerStep

\* The poller implements the promise of the outbox.
THEOREM PromiseKept == Spec => KeepsPromise
<1>1. Init => Promise!Init
  BY DEF Init, Promise!Init
<1> QED
  BY <1>1, Inductive, PromiseStep, PTL DEF Spec, KeepsPromise, Promise!Spec
=============================================================================
