------------------------- MODULE QuoteToCash_proofs -------------------------
(***************************************************************************)
(* Proofs about the flow from quote to cash, for any number of estimates,  *)
(* jobs, invoices, requests, pollers, events and faults.                   *)
(*                                                                         *)
(* The flow runs on the outbox: it is an implementation of Outbox's        *)
(* specification, so what Outbox_proofs says of the outbox holds here too, *)
(* and the proofs below use it.                                            *)
(***************************************************************************)
EXTENDS QuoteToCash, FiniteSetTheorems, TLAPS

BoxProofs == INSTANCE Outbox_proofs

-----------------------------------------------------------------------------
\* Every step of the flow is a step of the outbox or leaves it alone.
LEMMA OutboxStep == [Next]_vars => [Box!Next]_(Box!vars)
<1> SUFFICES ASSUME [Next]_vars PROVE [Box!Next]_(Box!vars)
  OBVIOUS
<1> USE DEF Box!vars, boxvars
<1>1. CASE RequestStep
  BY <1>1 DEF RequestStep, SendQuote, AcceptQuote, FindPublicQuote, CreateJob, CompleteJob, UpdateJob,
              CreateInvoice, SendInvoice, PayInvoice
<1>2. ASSUME NEW w \in Workers, FinishRequest(w) PROVE [Box!Next]_(Box!vars)
  BY <1>2 DEF FinishRequest, AcceptPublicQuote, PublishEvent, PublishFails, Box!Next
<1>3. ASSUME NEW p \in Pollers, PollerStep(p) PROVE [Box!Next]_(Box!vars)
  BY <1>3 DEF PollerStep, HandlerStep, PollerOnly, Dispatch, LoadEstimate, CheckJob, InsertJob, CheckInvoice,
              LoadJob, InsertInvoice, GoTo, HandlerReturnsNil, HandlerReturnsError, Box!Next, Box!PollerStep
<1>4. ASSUME NEW p \in Pollers, Claim(p) \/ Crash(p) \/ PollerOnly(Box!LoseSession(p))
      PROVE  [Box!Next]_(Box!vars)
  BY <1>4 DEF Claim, Crash, PollerOnly, Box!Next
<1>5. ASSUME NEW e \in Events, PollerOnly(Box!Requeue(e)) PROVE [Box!Next]_(Box!vars)
  BY <1>5 DEF PollerOnly, Box!Next
<1>6. CASE UNCHANGED vars
  BY <1>6 DEF vars
<1> QED
  BY <1>1, <1>2, <1>3, <1>4, <1>5, <1>6 DEF Next

\* The flow implements the outbox: it uses it only through its operations.
THEOREM FlowUsesOutbox == Spec => Box!Spec
<1>1. Init => Box!Init
  BY DEF Init
<1> QED
  BY <1>1, OutboxStep, PTL DEF Spec, Box!Spec

\* The outbox that the flow uses is the outbox of Outbox_proofs.
LEMMA SameOutbox == Box!Spec => BoxProofs!Spec
<1>1. Box!Init => BoxProofs!Init
  BY DEF Box!Init, BoxProofs!Init, Box!NoEvent, BoxProofs!NoEvent
<1>2. [Box!Next]_(Box!vars) => [BoxProofs!Next]_(BoxProofs!vars)
  <2> SUFFICES ASSUME [Box!Next]_(Box!vars) PROVE [BoxProofs!Next]_(BoxProofs!vars)
    OBVIOUS
  <2>1. ASSUME NEW e \in Events PROVE Box!Publish(e) => BoxProofs!Publish(e)
    BY DEF Box!Publish, Box!txvars,
           BoxProofs!Publish, BoxProofs!txvars
  <2>2. ASSUME NEW e \in Events PROVE Box!Requeue(e) => BoxProofs!Requeue(e)
    BY DEF Box!Requeue, Box!txvars, Box!Fault,
           BoxProofs!Requeue, BoxProofs!txvars, BoxProofs!Fault
  <2>3. ASSUME NEW p \in Pollers PROVE Box!Claim(p) => BoxProofs!Claim(p)
    <3>1. Box!Claimable = BoxProofs!Claimable
      BY DEF Box!Claimable, Box!Held, BoxProofs!Claimable, BoxProofs!Held
    <3>2. ASSUME NEW B, NEW S PROVE Box!IsBatch(B, S) <=> BoxProofs!IsBatch(B, S)
      BY DEF Box!IsBatch, BoxProofs!IsBatch, Box!Cardinality, BoxProofs!Cardinality
    <3> QED
      BY <3>1, <3>2 DEF Box!Claim, Box!tables, Box!NoEvent,
                        BoxProofs!Claim, BoxProofs!tables, BoxProofs!NoEvent
  <2>4. ASSUME NEW p \in Pollers PROVE Box!SkipDuplicate(p) => BoxProofs!SkipDuplicate(p)
    BY DEF Box!SkipDuplicate, Box!IsNext, Box!tables, Box!NoEvent,
           BoxProofs!SkipDuplicate, BoxProofs!IsNext, BoxProofs!tables, BoxProofs!NoEvent
  <2>5. ASSUME NEW p \in Pollers PROVE Box!Dispatch(p) => BoxProofs!Dispatch(p)
    BY DEF Box!Dispatch, Box!IsNext, Box!tables, Box!txvars, Box!NoEvent,
           BoxProofs!Dispatch, BoxProofs!IsNext, BoxProofs!tables, BoxProofs!txvars, BoxProofs!NoEvent
  <2>6. ASSUME NEW p \in Pollers PROVE Box!HandlerReturnsNil(p) => BoxProofs!HandlerReturnsNil(p)
    BY DEF Box!HandlerReturnsNil, Box!tables, Box!NoEvent,
           BoxProofs!HandlerReturnsNil, BoxProofs!tables, BoxProofs!NoEvent
  <2>7. ASSUME NEW p \in Pollers PROVE Box!HandlerReturnsError(p) => BoxProofs!HandlerReturnsError(p)
    BY DEF Box!HandlerReturnsError, Box!tables, Box!NoEvent,
           BoxProofs!HandlerReturnsError, BoxProofs!tables, BoxProofs!NoEvent
  <2>8. ASSUME NEW p \in Pollers PROVE Box!Commit(p) => BoxProofs!Commit(p)
    BY DEF Box!Commit, Box!CloseTx, Box!NoEvent,
           BoxProofs!Commit, BoxProofs!CloseTx, BoxProofs!NoEvent
  <2>9. ASSUME NEW p \in Pollers PROVE Box!LoseSession(p) => BoxProofs!LoseSession(p)
    BY DEF Box!LoseSession, Box!CloseTx, Box!Fault, Box!tables,
           BoxProofs!LoseSession, BoxProofs!CloseTx, BoxProofs!Fault, BoxProofs!tables
  <2>10. ASSUME NEW p \in Pollers PROVE Box!Crash(p) => BoxProofs!Crash(p)
    BY DEF Box!Crash, Box!CloseTx, Box!Fault, Box!tables, Box!NoEvent,
           BoxProofs!Crash, BoxProofs!CloseTx, BoxProofs!Fault, BoxProofs!tables, BoxProofs!NoEvent
  <2> QED
    BY <2>1, <2>2, <2>3, <2>4, <2>5, <2>6, <2>7, <2>8, <2>9, <2>10
    DEF Box!Next, Box!PollerStep, Box!vars, BoxProofs!Next, BoxProofs!PollerStep, BoxProofs!vars
<1> QED
  BY <1>1, <1>2, PTL DEF Box!Spec, BoxProofs!Spec

LEMMA BoxAssumptions ==
  BoxProofs!EventsAssumption /\ BoxProofs!BatchAssumption /\ BoxProofs!FaultsAssumption
BY OutboxAssumptions DEF BoxProofs!NoEvent

\* The invariant of the outbox holds in the flow.
LEMMA OutboxInvariant == Spec => []BoxProofs!IInv
<1>1. BoxProofs!Spec => []BoxProofs!IInv
  BY BoxAssumptions, BoxProofs!Inductive
<1> QED
  BY <1>1, SameOutbox, FlowUsesOutbox, PTL

\* Through requests, handlers, pollers and faults the flow delivers its events as
\* EventDelivery says: none is forgotten, and one that counts as processed was
\* handled.
THEOREM FlowKeepsPromise == Spec => Box!KeepsPromise
<1>1. BoxProofs!Spec => BoxProofs!KeepsPromise
  BY BoxAssumptions, BoxProofs!PromiseKept
<1>2. BoxProofs!Promise!Init => Box!Promise!Init
  BY DEF BoxProofs!Promise!Init, Box!Promise!Init
<1>3. [BoxProofs!Promise!Next]_(BoxProofs!Promise!vars) => [Box!Promise!Next]_(Box!Promise!vars)
  BY DEF BoxProofs!Promise!Next, Box!Promise!Next, BoxProofs!Promise!vars, Box!Promise!vars,
         BoxProofs!Promise!Publish, Box!Promise!Publish, BoxProofs!Promise!Deliver, Box!Promise!Deliver,
         BoxProofs!Promise!Settle, Box!Promise!Settle, BoxProofs!Promise!Redeliver, Box!Promise!Redeliver
<1> QED
  BY <1>1, <1>2, <1>3, SameOutbox, FlowUsesOutbox, PTL
     DEF BoxProofs!KeepsPromise, Box!KeepsPromise, BoxProofs!Promise!Spec, Box!Promise!Spec

-----------------------------------------------------------------------------
\* The types of the flow's own variables.
FlowTypes ==
  /\ estimate \in [Estimates -> EstimateStatuses]
  /\ job \in [JobIds -> [status : JobStatuses, estimate : Estimates \cup {None},
                         by : {"staff", "outbox"}]]
  /\ invoice \in [InvoiceIds -> [status : InvoiceStatuses, job : JobIds \cup {None},
                                 by : {"staff", "outbox"}]]
  /\ payload \in [Events -> Messages \cup {None}]
  /\ request \in [Workers -> [step : {"accept", "publish"}, message : Messages] \cup {None}]
  /\ stage \in [Pollers -> {"off", "load", "check", "insert", "tail"}]

\* The requests that are about to accept a quote say so; an event has a payload
\* exactly when it has a row; a handler runs exactly when it is at a statement.
FlowLinks ==
  /\ \A w \in Workers :
       request[w] # None /\ request[w].step = "accept" => request[w].message.type = "quote.accepted"
  /\ \A e \in Events : payload[e] = None <=> status[e] = "none"
  /\ \A p \in Pollers : stage[p] = "off" <=> busy[p] = 0

FlowShape == FlowTypes /\ FlowLinks

\* The type of a message tells what its id is.
LEMMA MessageId ==
  ASSUME NEW m \in Messages
  PROVE  /\ m = Message(m.type, m.id)
         /\ m.type = "quote.accepted" => m.id \in Estimates
         /\ m.type = "job.completed" => m.id \in JobIds
         /\ m.type = "invoice.paid" => m.id \in InvoiceIds
BY DEF Messages, Message

\* The event a handler works on has a payload.
LEMMA HandledMessage ==
  ASSUME FlowShape, BoxProofs!IInv, NEW p \in Pollers, busy[p] # Box!NoEvent
  PROVE  busy[p] \in Events /\ Handled(p) \in Messages
<1>1. busy[p] \in Events /\ status[busy[p]] # "none"
  BY DEF BoxProofs!IInv, BoxProofs!TypeOK, BoxProofs!HandlerHasEvent, Box!NoEvent, BoxProofs!NoEvent
<1> QED
  BY <1>1 DEF FlowShape, FlowTypes, FlowLinks, Handled

\* Every step keeps the types.
LEMMA FlowTypesStep ==
  ASSUME FlowShape, BoxProofs!IInv, [Next]_vars
  PROVE  FlowTypes'
<1> USE DEF FlowShape, FlowTypes, rows, boxvars
<1>1. ASSUME NEW q \in Estimates, SendQuote(q) PROVE FlowTypes'
  BY <1>1 DEF SendQuote, EstimateStatuses
<1>2. ASSUME NEW w \in Workers, NEW q \in Estimates, AcceptQuote(w, q) PROVE FlowTypes'
  BY <1>2 DEF AcceptQuote, Publishing, Pending, Messages, EstimateStatuses
<1>3. ASSUME NEW w \in Workers, NEW q \in Estimates, FindPublicQuote(w, q) PROVE FlowTypes'
  BY <1>3 DEF FindPublicQuote, Pending, Messages
<1>4. ASSUME NEW w \in Workers, AcceptPublicQuote(w) PROVE FlowTypes'
  BY <1>4 DEF AcceptPublicQuote, Publishing, Pending, EstimateStatuses
<1>5. ASSUME NEW w \in Workers, NEW j \in JobIds, NEW q \in Estimates \cup {None}, CreateJob(w, j, q)
      PROVE  FlowTypes'
  <2>1. Message("job.scheduled", j) \in Messages
    BY DEF Messages
  <2> QED
    BY <1>5, <2>1 DEF CreateJob, Publishing, Pending, JobStatuses
<1>6. ASSUME NEW j \in JobIds, NEW s \in JobUpdates, UpdateJob(j, s) PROVE FlowTypes'
  BY <1>6, JobUpdatesAssumption DEF UpdateJob
<1>7. ASSUME NEW w \in Workers, NEW j \in JobIds, CompleteJob(w, j) PROVE FlowTypes'
  <2>1. Message("job.completed", j) \in Messages
    BY DEF Messages
  <2> QED
    BY <1>7, <2>1 DEF CompleteJob, Publishing, Pending, JobStatuses
<1>8. ASSUME NEW i \in InvoiceIds, NEW j \in JobIds \cup {None}, CreateInvoice(i, j) PROVE FlowTypes'
  BY <1>8 DEF CreateInvoice, InvoiceStatuses
<1>9. ASSUME NEW i \in InvoiceIds, SendInvoice(i) PROVE FlowTypes'
  BY <1>9 DEF SendInvoice, InvoiceStatuses
<1>10. ASSUME NEW w \in Workers, NEW i \in InvoiceIds, PayInvoice(w, i) PROVE FlowTypes'
  <2>1. Message("invoice.paid", i) \in Messages
    BY DEF Messages
  <2> QED
    BY <1>10, <2>1 DEF PayInvoice, Publishing, Pending, InvoiceStatuses
<1>11. ASSUME NEW w \in Workers, PublishEvent(w) \/ PublishFails(w) PROVE FlowTypes'
  <2>1. request[w].message \in Messages
    BY <1>11 DEF PublishEvent, PublishFails
  <2> QED
    BY <1>11, <2>1 DEF PublishEvent, PublishFails
<1>12. ASSUME NEW p \in Pollers, InsertJob(p) PROVE FlowTypes'
  <2>1. Handled(p).id \in Estimates
    BY <1>12, HandledMessage, MessageId DEF InsertJob, At
  <2> QED
    BY <1>12, <2>1 DEF InsertJob, GoTo, JobStatuses
<1>13. ASSUME NEW p \in Pollers, InsertInvoice(p) PROVE FlowTypes'
  <2>1. Handled(p).id \in JobIds
    BY <1>13, HandledMessage, MessageId DEF InsertInvoice, At
  <2> QED
    BY <1>13, <2>1 DEF InsertInvoice, GoTo, InvoiceStatuses
<1>14. ASSUME NEW p \in Pollers,
              LoadEstimate(p) \/ CheckJob(p) \/ CheckInvoice(p) \/ LoadJob(p)
       PROVE  FlowTypes'
  BY <1>14 DEF LoadEstimate, CheckJob, CheckInvoice, LoadJob, GoTo
<1>15. ASSUME NEW p \in Pollers, Dispatch(p) PROVE FlowTypes'
  BY <1>15 DEF Dispatch, FirstStage
<1>16. ASSUME NEW p \in Pollers, HandlerReturnsNil(p) \/ HandlerReturnsError(p) \/ Crash(p)
       PROVE  FlowTypes'
  BY <1>16 DEF HandlerReturnsNil, HandlerReturnsError, Crash
<1>17. CASE UNCHANGED <<rows, payload, request, stage>>
  BY <1>17
<1> QED
  BY <1>1, <1>2, <1>3, <1>4, <1>5, <1>6, <1>7, <1>8, <1>9, <1>10, <1>11, <1>12, <1>13, <1>14,
     <1>15, <1>16, <1>17
  DEF Next, RequestStep, FinishRequest, PollerStep, HandlerStep, Claim, PollerOnly, vars

\* Every step keeps the links.
LEMMA FlowLinksStep ==
  ASSUME FlowShape, BoxProofs!IInv, [Next]_vars
  PROVE  FlowLinks'
<1> USE NoneAssumption DEF FlowShape, FlowTypes, FlowLinks, rows, boxvars
<1>0. /\ status \in [Events -> Box!Statuses] /\ busy \in [Pollers -> Events \cup {0}]
      /\ \A p \in Pollers : \A e \in ok[p] \cup bad[p] : status[e] = "pending"
      /\ 0 \notin Events
  BY OutboxAssumptions
  DEF BoxProofs!IInv, BoxProofs!TypeOK, BoxProofs!TxShape, BoxProofs!Held, BoxProofs!Statuses,
      Box!Statuses, BoxProofs!NoEvent
<1> USE <1>0 DEF Box!NoEvent
<1>1. ASSUME NEW w \in Workers, NEW q \in Estimates, AcceptQuote(w, q) \/ FindPublicQuote(w, q)
      PROVE  FlowLinks'
  <2>1. PICK step \in {"accept", "publish"} :
          request' = [request EXCEPT ![w] = Pending(step, Message("quote.accepted", q))]
    BY <1>1 DEF AcceptQuote, FindPublicQuote, Publishing
  <2>2. UNCHANGED <<payload, stage, boxvars>>
    BY <1>1 DEF AcceptQuote, FindPublicQuote
  <2> QED
    BY <2>1, <2>2 DEF Pending, Message
<1>2. ASSUME NEW w \in Workers, AcceptPublicQuote(w) PROVE FlowLinks'
  <2>1. request[w].message.type = "quote.accepted"
    BY <1>2 DEF AcceptPublicQuote
  <2>2. \/ request' = [request EXCEPT ![w] = Pending("publish", request[w].message)]
        \/ request' = [request EXCEPT ![w] = None]
    BY <1>2 DEF AcceptPublicQuote, Publishing
  <2>3. UNCHANGED <<payload, stage, boxvars>>
    BY <1>2 DEF AcceptPublicQuote
  <2> QED
    BY <2>1, <2>2, <2>3 DEF Pending
<1>3. ASSUME NEW w \in Workers, NEW j \in JobIds, NEW q \in Estimates \cup {None},
             CreateJob(w, j, q) \/ CompleteJob(w, j)
      PROVE  FlowLinks'
  BY <1>3 DEF CreateJob, CompleteJob, Publishing, Pending
<1>4. ASSUME NEW w \in Workers, NEW i \in InvoiceIds, PayInvoice(w, i) PROVE FlowLinks'
  BY <1>4 DEF PayInvoice, Publishing, Pending, Message
<1>5. ASSUME NEW w \in Workers, PublishEvent(w) PROVE FlowLinks'
  <2>1. PICK e \in Events : Box!Publish(e) /\ payload' = [payload EXCEPT ![e] = request[w].message]
    BY <1>5 DEF PublishEvent
  <2>2. request[w].message # None
    BY <1>5 DEF PublishEvent
  <2> QED
    BY <1>5, <2>1, <2>2 DEF PublishEvent, Box!Publish
<1>6. ASSUME NEW w \in Workers, PublishFails(w) PROVE FlowLinks'
  BY <1>6 DEF PublishFails
<1>7. ASSUME NEW p \in Pollers, Dispatch(p) PROVE FlowLinks'
  <2>1. stage' = [stage EXCEPT ![p] = FirstStage(payload[busy'[p]].type)]
        /\ FirstStage(payload[busy'[p]].type) # "off"
    BY <1>7 DEF Dispatch, FirstStage
  <2>2. busy'[p] # 0 /\ (\A q \in Pollers \ {p} : busy'[q] = busy[q]) /\ status' = status
    BY <1>7 DEF Dispatch, Box!Dispatch, Box!tables
  <2> QED
    BY <1>7, <2>1, <2>2 DEF Dispatch
<1>8. ASSUME NEW p \in Pollers, HandlerReturnsNil(p) \/ HandlerReturnsError(p) \/ Crash(p)
      PROVE  FlowLinks'
  <2>1. stage' = [stage EXCEPT ![p] = "off"] /\ busy' = [busy EXCEPT ![p] = 0]
        /\ UNCHANGED <<status, payload, request>>
    BY <1>8 DEF HandlerReturnsNil, HandlerReturnsError, Crash, Box!HandlerReturnsNil,
                Box!HandlerReturnsError, Box!Crash, Box!tables
  <2> QED
    BY <2>1
<1>9. ASSUME NEW p \in Pollers,
             \/ LoadEstimate(p) \/ CheckJob(p) \/ InsertJob(p)
             \/ CheckInvoice(p) \/ LoadJob(p) \/ InsertInvoice(p)
      PROVE  FlowLinks'
  <2>1. PICK s \in {"check", "insert", "load", "tail"} : GoTo(p, s)
    BY <1>9 DEF LoadEstimate, CheckJob, InsertJob, CheckInvoice, LoadJob, InsertInvoice
  <2>2. busy[p] # 0
    BY <1>9 DEF LoadEstimate, CheckJob, InsertJob, CheckInvoice, LoadJob, InsertInvoice, At
  <2> QED
    BY <2>1, <2>2 DEF GoTo
<1>10. ASSUME NEW p \in Pollers, PollerOnly(Box!Commit(p)) PROVE FlowLinks'
  <2>1. \A e \in Events : status'[e] = "none" <=> status[e] = "none"
    BY <1>10 DEF PollerOnly, Box!Commit
  <2> QED
    BY <1>10, <2>1 DEF PollerOnly, Box!Commit
<1>11. ASSUME NEW e \in Events, PollerOnly(Box!Requeue(e)) PROVE FlowLinks'
  BY <1>11 DEF PollerOnly, Box!Requeue
<1>12. ASSUME NEW p \in Pollers,
              PollerOnly(Box!SkipDuplicate(p)) \/ Claim(p) \/ PollerOnly(Box!LoseSession(p))
       PROVE  FlowLinks'
  BY <1>12 DEF PollerOnly, Claim, Box!SkipDuplicate, Box!Claim, Box!LoseSession, Box!tables
<1>13. CASE UNCHANGED <<payload, request, stage, boxvars>>
  BY <1>13
<1> QED
  BY <1>1, <1>2, <1>3, <1>4, <1>5, <1>6, <1>7, <1>8, <1>9, <1>10, <1>11, <1>12, <1>13
  DEF Next, RequestStep, FinishRequest, PollerStep, HandlerStep, PollerOnly, Claim, vars,
      SendQuote, UpdateJob, CreateInvoice, SendInvoice

LEMMA FlowInvariant == Spec => [](FlowShape /\ BoxProofs!IInv)
<1>1. Init => FlowShape
  BY NoneAssumption
  DEF Init, FlowShape, FlowTypes, FlowLinks, EstimateStatuses, JobStatuses, InvoiceStatuses,
      Box!Init, Box!NoEvent
<1>2. FlowShape /\ BoxProofs!IInv /\ [Next]_vars => FlowShape'
  BY FlowTypesStep, FlowLinksStep DEF FlowShape
<1> QED
  BY <1>1, <1>2, OutboxInvariant, PTL DEF Spec

\* Every variable has its type in every reachable state.
THEOREM TypeCorrect == Spec => []TypeOK
<1>1. BoxProofs!TypeOK => Box!TypeOK
  BY DEF BoxProofs!TypeOK, Box!TypeOK, BoxProofs!Statuses, Box!Statuses, BoxProofs!NoEvent, Box!NoEvent
<1>2. FlowShape /\ BoxProofs!IInv => TypeOK
  BY <1>1 DEF FlowShape, FlowTypes, TypeOK, BoxProofs!IInv
<1> QED
  BY <1>2, FlowInvariant, PTL

-----------------------------------------------------------------------------
\* The event m is in the outbox, or on the way to it, at most once.
AnnouncedOnce(m) ==
  /\ \A e, f \in Published(m) : e = f
  /\ \A v, w \in Publishers(m) : v = w
  /\ Published(m) = {} \/ Publishers(m) = {}

Unannounced(m) == Published(m) = {} /\ Publishers(m) = {}

\* Only a quote or an invoice that has reached its state is announced.
AnnounceInv ==
  /\ \A q \in Estimates :
       LET m == Message("quote.accepted", q) IN
       AnnouncedOnce(m) /\ (estimate[q] # "accepted" => Unannounced(m))
  /\ \A i \in InvoiceIds :
       LET m == Message("invoice.paid", i) IN
       AnnouncedOnce(m) /\ (invoice[i].status # "paid" => Unannounced(m))

\* Publishing moves an event from its request to the outbox; a request may also
\* just end.  Neither makes a second announcement.
LEMMA FinishAnnounce ==
  ASSUME FlowShape, BoxProofs!IInv, NEW m \in Messages, AnnouncedOnce(m),
         NEW w \in Workers, PublishEvent(w) \/ PublishFails(w)
  PROVE  AnnouncedOnce(m)' /\ (Unannounced(m) => Unannounced(m)')
<1> USE NoneAssumption DEF FlowShape, FlowTypes, FlowLinks, AnnouncedOnce, Unannounced, Published,
        Publishers, Pending
<1>1. CASE PublishFails(w)
  BY <1>1 DEF PublishFails, boxvars
<1>2. CASE PublishEvent(w)
  <2>1. PICK e \in Events :
          /\ payload[e] = None
          /\ payload' = [payload EXCEPT ![e] = request[w].message]
    BY <1>2 DEF PublishEvent, Box!Publish
  <2>2. request' = [request EXCEPT ![w] = None] /\ request[w].message \in Messages
        /\ request[w] = [step |-> "publish", message |-> request[w].message]
    BY <1>2 DEF PublishEvent
  <2>3. CASE request[w].message = m
    <3>1. Publishers(m) = {w} /\ Published(m) = {}
      BY <2>2, <2>3
    <3>2. Publishers(m)' = {} /\ Published(m)' = {e}
      BY <2>1, <2>2, <2>3, <3>1
    <3> QED
      BY <3>1, <3>2
  <2>4. CASE request[w].message # m
    <3>1. Publishers(m)' = Publishers(m) /\ Published(m)' = Published(m)
      BY <2>1, <2>2, <2>4
    <3> QED
      BY <3>1
  <2> QED
    BY <2>3, <2>4
<1> QED
  BY <1>1, <1>2

\* A free request that sets out to publish announces its own event only.
LEMMA SetOutAnnounce ==
  ASSUME FlowShape, NEW m \in Messages, AnnouncedOnce(m), NEW n \in Messages,
         NEW w \in Workers, request[w] = None \/ request[w].step = "accept",
         Publishing(w, n), UNCHANGED payload
  PROVE  /\ n # m => AnnouncedOnce(m)' /\ (Unannounced(m) => Unannounced(m)')
         /\ n = m /\ Unannounced(m) => AnnouncedOnce(m)'
<1> USE NoneAssumption DEF FlowShape, FlowTypes, AnnouncedOnce, Unannounced, Published, Publishers,
        Pending, Publishing
<1>1. Published(m)' = Published(m)
  OBVIOUS
<1>2. n # m => Publishers(m)' = Publishers(m)
  OBVIOUS
<1>3. n = m => Publishers(m)' = Publishers(m) \cup {w}
  OBVIOUS
<1> QED
  BY <1>1, <1>2, <1>3

LEMMA AnnounceStep ==
  ASSUME FlowShape, BoxProofs!IInv, AnnounceInv, [Next]_vars
  PROVE  AnnounceInv'
<1> DEFINE Q(q) == Message("quote.accepted", q)
           P(i) == Message("invoice.paid", i)
           QuoteOk(q) == AnnouncedOnce(Q(q)) /\ (estimate[q] # "accepted" => Unannounced(Q(q)))
           InvoiceOk(i) == AnnouncedOnce(P(i)) /\ (invoice[i].status # "paid" => Unannounced(P(i)))
<1>a. /\ \A q \in Estimates : Q(q) \in Messages /\ QuoteOk(q)
      /\ \A i \in InvoiceIds : P(i) \in Messages /\ InvoiceOk(i)
  BY DEF Messages, AnnounceInv
<1>b. SUFFICES (\A q \in Estimates : QuoteOk(q)') /\ (\A i \in InvoiceIds : InvoiceOk(i)')
  BY DEF AnnounceInv
<1>c. /\ \A q, r : Q(q) = Q(r) => q = r
      /\ \A i, k : P(i) = P(k) => i = k
      /\ \A q, i : Q(q) # P(i)
  BY DEF Message
\* A step that publishes nothing and accepts or pays nothing anew.
<1>d. ASSUME \A m \in Messages : Published(m)' = Published(m) /\ Publishers(m)' = Publishers(m),
             \A q \in Estimates : estimate'[q] # "accepted" => estimate[q] # "accepted",
             \A i \in InvoiceIds : invoice'[i].status # "paid" => invoice[i].status # "paid"
      PROVE  (\A q \in Estimates : QuoteOk(q)') /\ (\A i \in InvoiceIds : InvoiceOk(i)')
  BY <1>a, <1>d DEF AnnouncedOnce, Unannounced
<1>e. ASSUME UNCHANGED <<payload, request>>
      PROVE  \A m \in Messages : Published(m)' = Published(m) /\ Publishers(m)' = Publishers(m)
  BY <1>e DEF Published, Publishers
\* A request sets out to publish n: fine for every other event, and for n if nobody had.
<1>f. ASSUME NEW w \in Workers, NEW n \in Messages, NEW m \in Messages,
             request[w] = None \/ request[w].step = "accept", Publishing(w, n), UNCHANGED payload,
             AnnouncedOnce(m), n # m \/ Unannounced(m)
      PROVE  AnnouncedOnce(m)' /\ (n # m /\ Unannounced(m) => Unannounced(m)')
  BY <1>f, SetOutAnnounce
<1>1. ASSUME NEW w \in Workers, NEW q \in Estimates, AcceptQuote(w, q)
      PROVE  (\A r \in Estimates : QuoteOk(r)') /\ (\A i \in InvoiceIds : InvoiceOk(i)')
  <2>1. /\ request[w] = None /\ Publishing(w, Q(q)) /\ UNCHANGED <<payload, invoice>>
        /\ estimate[q] # "accepted" /\ estimate' = [estimate EXCEPT ![q] = "accepted"]
    BY <1>1 DEF AcceptQuote
  <2>2. ASSUME NEW r \in Estimates PROVE QuoteOk(r)'
    <3>1. r = q \/ estimate'[r] = estimate[r]
      BY <2>1 DEF FlowShape, FlowTypes
    <3> QED
      BY <1>a, <1>c, <1>f, <2>1, <3>1 DEF FlowShape, FlowTypes
  <2>3. ASSUME NEW i \in InvoiceIds PROVE InvoiceOk(i)'
    BY <1>a, <1>c, <1>f, <2>1
  <2> QED
    BY <2>2, <2>3
<1>2. ASSUME NEW w \in Workers, AcceptPublicQuote(w)
      PROVE  (\A r \in Estimates : QuoteOk(r)') /\ (\A i \in InvoiceIds : InvoiceOk(i)')
  <2>1. /\ request[w].step = "accept" /\ request[w].message \in Messages
        /\ request[w].message.type = "quote.accepted" /\ UNCHANGED <<payload, invoice>>
    BY <1>2 DEF AcceptPublicQuote, FlowShape, FlowTypes, FlowLinks
  <2>2. PICK q \in Estimates : q = request[w].message.id /\ request[w].message = Q(q)
    BY <2>1, MessageId
  <2>3. CASE estimate[q] = "sent"
    <3>1. Publishing(w, Q(q)) /\ estimate' = [estimate EXCEPT ![q] = "accepted"]
      BY <1>2, <2>2, <2>3 DEF AcceptPublicQuote
    <3>2. ASSUME NEW r \in Estimates PROVE QuoteOk(r)'
      <4>1. r = q \/ estimate'[r] = estimate[r]
        BY <3>1 DEF FlowShape, FlowTypes
      <4> QED
        BY <1>a, <1>c, <1>f, <2>1, <2>3, <3>1, <4>1 DEF FlowShape, FlowTypes
    <3>3. ASSUME NEW i \in InvoiceIds PROVE InvoiceOk(i)'
      BY <1>a, <1>c, <1>f, <2>1, <3>1
    <3> QED
      BY <3>2, <3>3
  <2>4. CASE estimate[q] # "sent"
    <3>1. request' = [request EXCEPT ![w] = None] /\ UNCHANGED estimate
      BY <1>2, <2>2, <2>4 DEF AcceptPublicQuote
    <3>2. ASSUME NEW m \in Messages
          PROVE  Published(m)' = Published(m) /\ Publishers(m)' = Publishers(m)
      BY <2>1, <3>1, NoneAssumption DEF Published, Publishers, Pending, FlowShape, FlowTypes
    <3> QED
      BY <1>d, <2>1, <3>1, <3>2
  <2> QED
    BY <2>3, <2>4
<1>3. ASSUME NEW w \in Workers, NEW q \in Estimates, FindPublicQuote(w, q)
      PROVE  (\A r \in Estimates : QuoteOk(r)') /\ (\A i \in InvoiceIds : InvoiceOk(i)')
  <2>1. ASSUME NEW m \in Messages PROVE Published(m)' = Published(m) /\ Publishers(m)' = Publishers(m)
    BY <1>3, NoneAssumption DEF FindPublicQuote, Published, Publishers, Pending, FlowShape, FlowTypes
  <2> QED
    BY <1>3, <1>d, <2>1 DEF FindPublicQuote, rows
<1>4. ASSUME NEW w \in Workers, NEW j \in JobIds,
             (\E q \in Estimates \cup {None} : CreateJob(w, j, q)) \/ CompleteJob(w, j)
      PROVE  (\A r \in Estimates : QuoteOk(r)') /\ (\A i \in InvoiceIds : InvoiceOk(i)')
  <2>1. PICK t \in {"job.scheduled", "job.completed"} : Publishing(w, Message(t, j))
    BY <1>4 DEF CreateJob, CompleteJob
  <2>2. request[w] = None /\ UNCHANGED <<payload, estimate, invoice>>
    BY <1>4 DEF CreateJob, CompleteJob
  <2>3. /\ Message(t, j) \in Messages
        /\ \A q \in Estimates : Message(t, j) # Q(q)
        /\ \A i \in InvoiceIds : Message(t, j) # P(i)
    BY DEF Messages, Message
  <2> QED
    BY <1>a, <1>f, <2>1, <2>2, <2>3
<1>5. ASSUME NEW w \in Workers, NEW i \in InvoiceIds, PayInvoice(w, i)
      PROVE  (\A r \in Estimates : QuoteOk(r)') /\ (\A k \in InvoiceIds : InvoiceOk(k)')
  <2>1. /\ request[w] = None /\ Publishing(w, P(i)) /\ UNCHANGED <<payload, estimate>>
        /\ invoice[i].status # "paid" /\ invoice' = [invoice EXCEPT ![i].status = "paid"]
    BY <1>5 DEF PayInvoice
  <2>2. ASSUME NEW k \in InvoiceIds PROVE InvoiceOk(k)'
    <3>1. (k = i /\ invoice'[k].status = "paid") \/ (k # i /\ invoice'[k] = invoice[k])
      BY <2>1 DEF FlowShape, FlowTypes
    <3> QED
      BY <1>a, <1>c, <1>f, <2>1, <3>1
  <2>3. ASSUME NEW r \in Estimates PROVE QuoteOk(r)'
    BY <1>a, <1>c, <1>f, <2>1
  <2> QED
    BY <2>2, <2>3
<1>6. ASSUME NEW w \in Workers, PublishEvent(w) \/ PublishFails(w)
      PROVE  (\A r \in Estimates : QuoteOk(r)') /\ (\A i \in InvoiceIds : InvoiceOk(i)')
  <2>1. UNCHANGED <<estimate, invoice>>
    BY <1>6 DEF PublishEvent, PublishFails, rows
  <2> QED
    BY <1>a, <1>6, <2>1, FinishAnnounce
\* Steps of the other aggregates, of the handlers and of the poller.
<1>7. ASSUME UNCHANGED <<payload, request>>,
             \A q \in Estimates : estimate'[q] # "accepted" => estimate[q] # "accepted",
             \A i \in InvoiceIds : invoice'[i].status # "paid" => invoice[i].status # "paid"
      PROVE  (\A r \in Estimates : QuoteOk(r)') /\ (\A i \in InvoiceIds : InvoiceOk(i)')
  BY <1>d, <1>e, <1>7
<1>8. ASSUME NEW q \in Estimates, SendQuote(q)
      PROVE  (\A r \in Estimates : QuoteOk(r)') /\ (\A i \in InvoiceIds : InvoiceOk(i)')
  BY <1>7, <1>8 DEF SendQuote, FlowShape, FlowTypes
<1>9. ASSUME NEW i \in InvoiceIds,
             \/ \E j \in JobIds \cup {None} : CreateInvoice(i, j)
             \/ SendInvoice(i)
      PROVE  (\A r \in Estimates : QuoteOk(r)') /\ (\A k \in InvoiceIds : InvoiceOk(k)')
  <2>1. \A k \in InvoiceIds : invoice'[k].status # "paid" => invoice[k].status # "paid"
    BY <1>9 DEF CreateInvoice, SendInvoice, FlowShape, FlowTypes
  <2> QED
    BY <1>7, <1>9, <2>1 DEF CreateInvoice, SendInvoice
<1>10. ASSUME NEW p \in Pollers, InsertInvoice(p)
       PROVE  (\A r \in Estimates : QuoteOk(r)') /\ (\A i \in InvoiceIds : InvoiceOk(i)')
  <2>1. \A k \in InvoiceIds : invoice'[k].status # "paid" => invoice[k].status # "paid"
    BY <1>10 DEF InsertInvoice, FlowShape, FlowTypes
  <2> QED
    BY <1>7, <1>10, <2>1 DEF InsertInvoice, GoTo
<1>11. CASE UNCHANGED <<estimate, invoice, payload, request>>
  BY <1>7, <1>11
<1> HIDE DEF QuoteOk, InvoiceOk
<1> QED
  BY <1>1, <1>2, <1>3, <1>4, <1>5, <1>6, <1>8, <1>9, <1>10, <1>11
  DEF Next, RequestStep, FinishRequest, PollerStep, HandlerStep, PollerOnly, Claim, vars, rows,
      UpdateJob, Dispatch, LoadEstimate, CheckJob, InsertJob, CheckInvoice, LoadJob, GoTo,
      HandlerReturnsNil, HandlerReturnsError, Crash

LEMMA AnnounceInvariant == Spec => []AnnounceInv
<1>1. ASSUME Init PROVE AnnounceInv
  <2>1. ASSUME NEW m \in Messages PROVE Published(m) = {} /\ Publishers(m) = {}
    BY <1>1, NoneAssumption DEF Init, Published, Publishers, Pending
  <2>2. /\ \A q \in Estimates : Message("quote.accepted", q) \in Messages
        /\ \A i \in InvoiceIds : Message("invoice.paid", i) \in Messages
    BY DEF Messages
  <2> QED
    BY <2>1, <2>2 DEF AnnounceInv, AnnouncedOnce, Unannounced
<1> QED
  BY <1>1, AnnounceStep, FlowInvariant, PTL DEF Spec

\* At most one element, counted.
LEMMA SingleCardinality ==
  ASSUME NEW S, \A x, y \in S : x = y
  PROVE  Cardinality(S) \in {0, 1}
<1>1. CASE S = {}
  BY <1>1, FS_EmptySet
<1>2. ASSUME NEW x \in S PROVE Cardinality(S) = 1
  <2>1. S = {x}
    OBVIOUS
  <2> QED
    BY <2>1, FS_Singleton
<1> QED
  BY <1>1, <1>2

LEMMA AtMostOne ==
  ASSUME NEW m, AnnouncedOnce(m)
  PROVE  Cardinality(Published(m)) + Cardinality(Publishers(m)) <= 1
<1>1. Cardinality(Published(m)) = 0 \/ Cardinality(Publishers(m)) = 0
  BY FS_EmptySet DEF AnnouncedOnce
<1>2. Cardinality(Published(m)) \in {0, 1} /\ Cardinality(Publishers(m)) \in {0, 1}
  BY SingleCardinality DEF AnnouncedOnce
<1> QED
  BY <1>1, <1>2

\* However many requests accept a quote at once, the outbox hears of it once.
THEOREM QuoteIsAcceptedOnce == Spec => []QuoteAcceptedOnce
<1>1. AnnounceInv => QuoteAcceptedOnce
  BY AtMostOne DEF AnnounceInv, QuoteAcceptedOnce
<1> QED
  BY <1>1, AnnounceInvariant, PTL

\* However many requests pay an invoice at once, the outbox hears of it once.
THEOREM InvoiceIsPaidOnce == Spec => []InvoicePaidOnce
<1>1. AnnounceInv => InvoicePaidOnce
  BY AtMostOne DEF AnnounceInv, InvoicePaidOnce
<1> QED
  BY <1>1, AnnounceInvariant, PTL

-----------------------------------------------------------------------------
\* The events whose handler has done what it is there for.
Answered ==
  {e \in Events : /\ payload[e] # None
                  /\ payload[e].type = "quote.accepted" => JobsOf(payload[e].id) # {}
                  /\ payload[e].type = "job.completed" => InvoicesOf(payload[e].id) # {}}

\* A handler at its end has done it, and so it is with the events that a
\* transaction or the tables count as processed.
AnsweredInv ==
  /\ \A p \in Pollers : stage[p] = "tail" => busy[p] \in Answered
  /\ \A p \in Pollers : ok[p] \subseteq Answered
  /\ recorded \subseteq Answered

\* What is answered stays so: payloads are written once, and no job or invoice
\* is deleted or given to another quote or job.
LEMMA AnsweredStable ==
  ASSUME FlowShape, [Next]_vars
  PROVE  Answered \subseteq Answered'
<1>1. ASSUME NEW e \in Events, payload[e] # None PROVE payload'[e] = payload[e]
  <2>1. ASSUME NEW w \in Workers, PublishEvent(w) PROVE payload'[e] = payload[e]
    <3>1. PICK f \in Events : status[f] = "none" /\ payload' = [payload EXCEPT ![f] = request[w].message]
      BY <2>1 DEF PublishEvent, Box!Publish
    <3> QED
      BY <1>1, <3>1 DEF FlowShape, FlowTypes, FlowLinks
  <2> QED
    BY <2>1
    DEF Next, RequestStep, FinishRequest, PollerStep, HandlerStep, PollerOnly, Claim, vars,
        SendQuote, AcceptQuote, FindPublicQuote, AcceptPublicQuote, CreateJob, UpdateJob, CompleteJob,
        CreateInvoice, SendInvoice, PayInvoice, PublishFails, Dispatch, LoadEstimate, CheckJob,
        InsertJob, CheckInvoice, LoadJob, InsertInvoice, GoTo, HandlerReturnsNil,
        HandlerReturnsError, Crash
<1>2. ASSUME NEW q PROVE JobsOf(q) \subseteq JobsOf(q)'
  <2> USE DEF FlowShape, FlowTypes, JobsOf
  <2>1. ASSUME NEW w \in Workers, NEW j \in JobIds, NEW r \in Estimates \cup {None}, CreateJob(w, j, r)
        PROVE  JobsOf(q) \subseteq JobsOf(q)'
    BY <2>1 DEF CreateJob
  <2>2. ASSUME NEW j \in JobIds, NEW t \in JobUpdates, UpdateJob(j, t)
        PROVE  JobsOf(q) \subseteq JobsOf(q)'
    BY <2>2, JobUpdatesAssumption DEF UpdateJob
  <2>3. ASSUME NEW w \in Workers, NEW j \in JobIds, CompleteJob(w, j)
        PROVE  JobsOf(q) \subseteq JobsOf(q)'
    BY <2>3 DEF CompleteJob
  <2>4. ASSUME NEW p \in Pollers, InsertJob(p) PROVE JobsOf(q) \subseteq JobsOf(q)'
    BY <2>4 DEF InsertJob
  <2>5. CASE UNCHANGED job
    BY <2>5
  <2> QED
    BY <2>1, <2>2, <2>3, <2>4, <2>5
    DEF Next, RequestStep, FinishRequest, PollerStep, HandlerStep, PollerOnly, Claim, vars, rows,
        SendQuote, AcceptQuote, FindPublicQuote, AcceptPublicQuote, CreateInvoice, SendInvoice,
        PayInvoice, PublishEvent, PublishFails, Dispatch, LoadEstimate, CheckJob, CheckInvoice,
        LoadJob, InsertInvoice, HandlerReturnsNil, HandlerReturnsError, Crash
<1>3. ASSUME NEW j PROVE InvoicesOf(j) \subseteq InvoicesOf(j)'
  <2> USE DEF FlowShape, FlowTypes, InvoicesOf
  <2>1. ASSUME NEW i \in InvoiceIds, NEW k \in JobIds \cup {None}, CreateInvoice(i, k)
        PROVE  InvoicesOf(j) \subseteq InvoicesOf(j)'
    BY <2>1 DEF CreateInvoice
  <2>2. ASSUME NEW i \in InvoiceIds,
             SendInvoice(i) \/ (\E w \in Workers : PayInvoice(w, i))
        PROVE  InvoicesOf(j) \subseteq InvoicesOf(j)'
    BY <2>2 DEF SendInvoice, PayInvoice
  <2>3. ASSUME NEW p \in Pollers, InsertInvoice(p) PROVE InvoicesOf(j) \subseteq InvoicesOf(j)'
    BY <2>3 DEF InsertInvoice
  <2>4. CASE UNCHANGED invoice
    BY <2>4
  <2> QED
    BY <2>1, <2>2, <2>3, <2>4
    DEF Next, RequestStep, FinishRequest, PollerStep, HandlerStep, PollerOnly, Claim, vars, rows,
        SendQuote, AcceptQuote, FindPublicQuote, AcceptPublicQuote, CreateJob, UpdateJob, CompleteJob,
        PublishEvent, PublishFails, Dispatch, LoadEstimate, CheckJob, InsertJob, CheckInvoice,
        LoadJob, HandlerReturnsNil, HandlerReturnsError, Crash
<1> QED
  BY <1>1, <1>2, <1>3 DEF Answered

\* A handler reaches its end only with its work done.
LEMMA ReachesTail ==
  ASSUME FlowShape, BoxProofs!IInv, NEW p \in Pollers,
         \/ LoadEstimate(p) \/ CheckJob(p) \/ InsertJob(p)
         \/ CheckInvoice(p) \/ LoadJob(p) \/ InsertInvoice(p),
         stage'[p] = "tail"
  PROVE  busy[p] \in Answered'
<1>1. /\ busy[p] \in Events /\ Handled(p) \in Messages
      /\ payload' = payload /\ busy' = busy
      /\ stage \in [Pollers -> {"off", "load", "check", "insert", "tail"}]
  BY HandledMessage
  DEF LoadEstimate, CheckJob, InsertJob, CheckInvoice, LoadJob, InsertInvoice, At, GoTo, boxvars,
      FlowShape, FlowTypes
<1>2. CASE LoadEstimate(p) \/ LoadJob(p)
  BY <1>1, <1>2 DEF LoadEstimate, LoadJob, GoTo
<1>3. CASE CheckJob(p)
  <2>1. JobsOf(Handled(p).id) # {} /\ Handled(p).type = "quote.accepted" /\ UNCHANGED job
    BY <1>1, <1>3 DEF CheckJob, At, GoTo, rows
  <2> QED
    BY <1>1, <2>1, NoneAssumption DEF Answered, Handled, JobsOf
<1>4. CASE InsertJob(p)
  <2>1. PICK j \in JobIds : job' = [job EXCEPT ![j] =
                   [status |-> "draft", estimate |-> Handled(p).id, by |-> "outbox"]]
    BY <1>4 DEF InsertJob
  <2>2. j \in JobsOf(Handled(p).id)'
    BY <1>1, <2>1 DEF JobsOf, FlowShape, FlowTypes, Handled
  <2>3. Handled(p).type = "quote.accepted"
    BY <1>4 DEF InsertJob, At
  <2> QED
    BY <1>1, <2>2, <2>3, NoneAssumption DEF Answered, Handled
<1>5. CASE CheckInvoice(p)
  <2>1. InvoicesOf(Handled(p).id) # {} /\ Handled(p).type = "job.completed" /\ UNCHANGED invoice
    BY <1>1, <1>5 DEF CheckInvoice, At, GoTo, rows
  <2> QED
    BY <1>1, <2>1, NoneAssumption DEF Answered, Handled, InvoicesOf
<1>6. CASE InsertInvoice(p)
  <2>1. PICK i \in InvoiceIds : invoice' = [invoice EXCEPT ![i] =
                       [status |-> "draft", job |-> Handled(p).id, by |-> "outbox"]]
    BY <1>6 DEF InsertInvoice
  <2>2. i \in InvoicesOf(Handled(p).id)'
    BY <1>1, <2>1 DEF InvoicesOf, FlowShape, FlowTypes, Handled
  <2>3. Handled(p).type = "job.completed"
    BY <1>6 DEF InsertInvoice, At
  <2> QED
    BY <1>1, <2>2, <2>3, NoneAssumption DEF Answered, Handled
<1> QED
  BY <1>2, <1>3, <1>4, <1>5, <1>6

LEMMA AnsweredStep ==
  ASSUME FlowShape, BoxProofs!IInv, AnsweredInv, [Next]_vars
  PROVE  AnsweredInv'
<1>0. /\ recorded \subseteq Events /\ ok \in [Pollers -> SUBSET Events]
      /\ busy \in [Pollers -> Events \cup {0}]
      /\ stage \in [Pollers -> {"off", "load", "check", "insert", "tail"}]
  BY DEF BoxProofs!IInv, BoxProofs!TypeOK, BoxProofs!NoEvent, FlowShape, FlowTypes
<1>1. Answered \subseteq Answered'
  BY AnsweredStable
\* It is enough to look at the events a step adds.
<1>2. ASSUME recorded' \subseteq Answered \cup Answered',
             \A p \in Pollers : ok'[p] \subseteq Answered \cup Answered',
             \A p \in Pollers : stage'[p] = "tail" => busy'[p] \in Answered \cup Answered'
      PROVE  AnsweredInv'
  BY <1>1, <1>2 DEF AnsweredInv
<1>3. CASE UNCHANGED <<stage, busy, ok, recorded>>
  BY <1>2, <1>3 DEF AnsweredInv
<1>4. ASSUME NEW p \in Pollers,
             \/ LoadEstimate(p) \/ CheckJob(p) \/ InsertJob(p)
             \/ CheckInvoice(p) \/ LoadJob(p) \/ InsertInvoice(p)
      PROVE  AnsweredInv'
  <2>1. /\ UNCHANGED <<busy, ok, recorded>>
        /\ \A q \in Pollers \ {p} : stage'[q] = stage[q]
    BY <1>0, <1>4
    DEF LoadEstimate, CheckJob, InsertJob, CheckInvoice, LoadJob, InsertInvoice, GoTo, boxvars
  <2>2. stage'[p] = "tail" => busy[p] \in Answered'
    BY <1>4, ReachesTail
  <2> QED
    BY <1>2, <2>1, <2>2 DEF AnsweredInv
\* quote.accepted and job.completed start elsewhere; the other types ask for
\* no row here.
<1>5. ASSUME NEW p \in Pollers, Dispatch(p) PROVE AnsweredInv'
  <2>1. PICK e \in Events : busy' = [busy EXCEPT ![p] = e]
    BY <1>5 DEF Dispatch, Box!Dispatch
  <2>2. /\ UNCHANGED <<ok, recorded, status, payload, rows>>
        /\ stage' = [stage EXCEPT ![p] = FirstStage(payload[busy'[p]].type)]
    BY <1>5 DEF Dispatch, Box!Dispatch, Box!tables, Box!txvars
  <2>3. payload[e] # None
    <3>1. e \in todo[p] /\ \A f \in todo[p] : status[f] = "pending"
      BY <1>0, <1>5, <2>1
      DEF Dispatch, Box!Dispatch, Box!IsNext, BoxProofs!IInv, BoxProofs!TxShape, BoxProofs!Held
    <3> QED
      BY <3>1 DEF FlowShape, FlowLinks
  <2>4. stage'[p] = "tail" => e \in Answered
    BY <1>0, <2>1, <2>2, <2>3 DEF FirstStage, Answered
  <2> QED
    BY <1>0, <1>2, <2>1, <2>2, <2>4 DEF AnsweredInv
<1>6. ASSUME NEW p \in Pollers, HandlerReturnsNil(p) PROVE AnsweredInv'
  <2>1. /\ stage[p] = "tail" /\ recorded' = recorded
        /\ \A q \in Pollers : ok'[q] \subseteq ok[q] \cup {busy[p]}
        /\ stage' = [stage EXCEPT ![p] = "off"] /\ busy' = [busy EXCEPT ![p] = 0]
    BY <1>0, <1>6 DEF HandlerReturnsNil, Box!HandlerReturnsNil, Box!tables, Box!NoEvent
  <2> QED
    BY <1>0, <1>2, <2>1 DEF AnsweredInv
<1>7. ASSUME NEW p \in Pollers, HandlerReturnsError(p) \/ Crash(p) PROVE AnsweredInv'
  <2>1. /\ recorded' = recorded /\ \A q \in Pollers : ok'[q] \subseteq ok[q]
        /\ stage' = [stage EXCEPT ![p] = "off"] /\ busy' = [busy EXCEPT ![p] = 0]
    BY <1>0, <1>7
    DEF HandlerReturnsError, Crash, Box!HandlerReturnsError, Box!Crash, Box!CloseTx, Box!tables, Box!NoEvent
  <2> QED
    BY <1>0, <1>2, <2>1 DEF AnsweredInv
<1>8. ASSUME NEW p \in Pollers, PollerOnly(Box!SkipDuplicate(p)) PROVE AnsweredInv'
  <2>1. UNCHANGED <<stage, busy, recorded>> /\ \A q \in Pollers : ok'[q] \subseteq ok[q] \cup recorded
    BY <1>0, <1>8 DEF PollerOnly, Box!SkipDuplicate, Box!tables
  <2> QED
    BY <1>2, <2>1 DEF AnsweredInv
<1>9. ASSUME NEW p \in Pollers, PollerOnly(Box!Commit(p) \/ Box!LoseSession(p)) PROVE AnsweredInv'
  <2>1. /\ UNCHANGED <<stage, busy>> /\ recorded' \subseteq recorded \cup ok[p]
        /\ \A q \in Pollers : ok'[q] \subseteq ok[q]
    BY <1>0, <1>9 DEF PollerOnly, Box!Commit, Box!LoseSession, Box!CloseTx, Box!tables
  <2> QED
    BY <1>2, <2>1 DEF AnsweredInv
<1> QED
  <2>1. CASE RequestStep
    BY <1>3, <2>1
    DEF RequestStep, SendQuote, AcceptQuote, FindPublicQuote, CreateJob, CompleteJob, UpdateJob,
        CreateInvoice, SendInvoice, PayInvoice, boxvars
  <2>2. ASSUME NEW w \in Workers, FinishRequest(w) PROVE AnsweredInv'
    BY <1>3, <2>2
    DEF FinishRequest, AcceptPublicQuote, PublishEvent, PublishFails, boxvars, Box!Publish, Box!txvars
  <2>3. ASSUME NEW e \in Events, PollerOnly(Box!Requeue(e)) PROVE AnsweredInv'
    BY <1>3, <2>3 DEF PollerOnly, Box!Requeue, Box!txvars
  <2>4. ASSUME NEW p \in Pollers, Claim(p) PROVE AnsweredInv'
    BY <1>3, <2>4 DEF Claim, PollerOnly, Box!Claim, Box!tables
  <2>5. CASE UNCHANGED vars
    BY <1>3, <2>5 DEF vars, boxvars
  <2> QED
    BY <1>4, <1>5, <1>6, <1>7, <1>8, <1>9, <2>1, <2>2, <2>3, <2>4, <2>5
    DEF Next, PollerStep, HandlerStep, PollerOnly

LEMMA AnsweredInvariant == Spec => []AnsweredInv
<1>1. Init => AnsweredInv
  BY DEF Init, Box!Init, AnsweredInv
<1> QED
  BY <1>1, AnsweredStep, FlowInvariant, OutboxInvariant, PTL DEF Spec

\* A quote.accepted event that counts as processed left a job of its quote.
THEOREM NoProcessedQuoteWithoutJob == Spec => []ProcessedQuoteHasJob
<1>1. AnsweredInv => ProcessedQuoteHasJob
  BY DEF AnsweredInv, Answered, ProcessedQuoteHasJob
<1> QED
  BY <1>1, AnsweredInvariant, PTL

\* A job.completed event that counts as processed left an invoice of its job.
THEOREM NoProcessedCompletionWithoutInvoice == Spec => []ProcessedCompletionHasInvoice
<1>1. AnsweredInv => ProcessedCompletionHasInvoice
  BY DEF AnsweredInv, Answered, ProcessedCompletionHasInvoice
<1> QED
  BY <1>1, AnsweredInvariant, PTL

-----------------------------------------------------------------------------
\* The jobs the poller drafted for a quote.
OutboxJobs(q) == {j \in JobsOf(q) : job[j].by = "outbox"}

\* Poller p runs the handler of the acceptance of q and is about to insert.
Inserting(p, q) ==
  /\ busy[p] # 0 /\ stage[p] = "insert"
  /\ payload[busy[p]] = Message("quote.accepted", q)

\* As long as no session is lost, a running handler has its transaction and
\* with it the row lock of its event; so nobody else inserts for that quote,
\* and the check that found no job is still true.
DraftInv ==
  /\ \A p \in Pollers : busy[p] # 0 => open[p]
  /\ \A q \in Estimates : \A i, j \in OutboxJobs(q) : i = j
  /\ \A q \in Estimates : \A p \in Pollers : Inserting(p, q) => OutboxJobs(q) = {}

\* Two pollers never run the handler of one acceptance at once: it has one
\* event, and the event one owner.
LEMMA OneInserter ==
  ASSUME FlowShape, BoxProofs!IInv, AnnounceInv, DraftInv, NEW q \in Estimates,
         NEW p1 \in Pollers, NEW p2 \in Pollers, Inserting(p1, q), Inserting(p2, q)
  PROVE  p1 = p2
<1>1. busy[p1] \in Events /\ busy[p2] \in Events
  BY DEF Inserting, BoxProofs!IInv, BoxProofs!TypeOK, BoxProofs!NoEvent
<1>2. busy[p1] = busy[p2]
  BY <1>1 DEF Inserting, AnnounceInv, AnnouncedOnce, Published
<1>3. busy[p1] \in todo[p1] /\ busy[p2] \in todo[p2]
  BY DEF Inserting, DraftInv, BoxProofs!IInv, BoxProofs!HandlerInTx, BoxProofs!NoEvent
<1> QED
  BY <1>2, <1>3 DEF BoxProofs!IInv, BoxProofs!LocksExclude, BoxProofs!Held

\* Only InsertJob adds a job to the poller's jobs of a quote.
LEMMA OutboxJobsStep ==
  ASSUME FlowShape, [Next]_vars, NEW q,
         \A p \in Pollers : ~InsertJob(p)
  PROVE  OutboxJobs(q)' = OutboxJobs(q)
<1> USE DEF OutboxJobs, JobsOf, FlowShape, FlowTypes
<1>1. ASSUME NEW w \in Workers, NEW j \in JobIds, NEW r \in Estimates \cup {None}, CreateJob(w, j, r)
      PROVE  OutboxJobs(q)' = OutboxJobs(q)
  BY <1>1 DEF CreateJob
<1>2. ASSUME NEW j \in JobIds, NEW t \in JobUpdates, UpdateJob(j, t)
      PROVE  OutboxJobs(q)' = OutboxJobs(q)
  BY <1>2, JobUpdatesAssumption DEF UpdateJob
<1>3. ASSUME NEW w \in Workers, NEW j \in JobIds, CompleteJob(w, j)
      PROVE  OutboxJobs(q)' = OutboxJobs(q)
  BY <1>3 DEF CompleteJob
<1>4. CASE UNCHANGED job
  BY <1>4
<1> QED
  BY <1>1, <1>2, <1>3, <1>4
  DEF Next, RequestStep, FinishRequest, PollerStep, HandlerStep, PollerOnly, Claim, vars, rows,
      SendQuote, AcceptQuote, FindPublicQuote, AcceptPublicQuote, CreateInvoice, SendInvoice,
      PayInvoice, PublishEvent, PublishFails, Dispatch, LoadEstimate, CheckJob, CheckInvoice,
      LoadJob, InsertInvoice, HandlerReturnsNil, HandlerReturnsError, Crash

\* A handler comes to its INSERT only from a check that found no job.
LEMMA InsertingStep ==
  ASSUME FlowShape, BoxProofs!IInv, [Next]_vars, NEW q \in Estimates, NEW p \in Pollers,
         Inserting(p, q)'
  PROVE  /\ ~InsertJob(p)
         /\ Inserting(p, q) \/ OutboxJobs(q) = {}
<1>0. /\ busy \in [Pollers -> Events \cup {0}] /\ 0 \notin Events
      /\ stage \in [Pollers -> {"off", "load", "check", "insert", "tail"}]
      /\ payload \in [Events -> Messages \cup {None}]
      /\ (busy[p] # 0 => payload[busy[p]] # None)
  <2>1. /\ busy \in [Pollers -> Events \cup {0}] /\ 0 \notin Events
        /\ (busy[p] # 0 => status[busy[p]] # "none")
    BY OutboxAssumptions
    DEF BoxProofs!IInv, BoxProofs!TypeOK, BoxProofs!HandlerHasEvent, BoxProofs!NoEvent
  <2> QED
    BY <2>1 DEF FlowShape, FlowTypes, FlowLinks
<1>1. ASSUME NEW r \in Pollers, Dispatch(r)
      PROVE  r # p /\ UNCHANGED <<stage[p], busy[p], payload>>
  <2>1. /\ stage' = [stage EXCEPT ![r] = FirstStage(payload[busy'[r]].type)]
        /\ payload' = payload
        /\ \A s \in Pollers \ {r} : busy'[s] = busy[s]
    BY <1>0, <1>1 DEF Dispatch, Box!Dispatch
  <2>2. FirstStage(payload[busy'[r]].type) # "insert"
    BY DEF FirstStage
  <2> QED
    BY <1>0, <2>1, <2>2 DEF Inserting
<1>2. ASSUME NEW r \in Pollers, HandlerReturnsNil(r) \/ HandlerReturnsError(r) \/ Crash(r)
      PROVE  UNCHANGED <<stage[p], busy[p], payload>>
  <2>1. stage' = [stage EXCEPT ![r] = "off"] /\ busy' = [busy EXCEPT ![r] = 0] /\ payload' = payload
    BY <1>2 DEF HandlerReturnsNil, HandlerReturnsError, Crash, Box!HandlerReturnsNil,
                Box!HandlerReturnsError, Box!Crash, Box!NoEvent
  <2> QED
    BY <1>0, <2>1 DEF Inserting
<1>3. ASSUME NEW r \in Pollers,
             \/ LoadEstimate(r) \/ InsertJob(r) \/ CheckInvoice(r) \/ InsertInvoice(r)
      PROVE  r # p /\ UNCHANGED <<stage[p], busy[p], payload>>
  <2>1. PICK s \in {"check", "load", "tail"} : GoTo(r, s)
    BY <1>3 DEF LoadEstimate, InsertJob, CheckInvoice, InsertInvoice
  <2> QED
    BY <1>0, <2>1 DEF GoTo, boxvars, Inserting
<1>4. ASSUME NEW r \in Pollers, LoadJob(r)
      PROVE  UNCHANGED <<stage[p], busy[p], payload>>
  <2>1. payload[busy[r]].type # "quote.accepted" /\ GoTo(r, "insert")
    BY <1>4 DEF LoadJob, At, Handled
  <2> QED
    BY <1>0, <2>1 DEF GoTo, boxvars, Inserting, Message
<1>5. ASSUME NEW r \in Pollers, CheckJob(r)
      PROVE  UNCHANGED <<stage[p], busy[p], payload>> \/ OutboxJobs(q) = {}
  <2>1. UNCHANGED <<busy, payload>> /\ (\A s \in Pollers \ {r} : stage'[s] = stage[s])
    BY <1>0, <1>5 DEF CheckJob, GoTo, boxvars
  <2>2. CASE r = p
    <3>1. payload[busy[p]] = Message("quote.accepted", q)
      BY <2>1 DEF Inserting
    <3>2. JobsOf(Handled(p).id) = {}
      BY <1>0, <1>5, <2>2 DEF CheckJob, GoTo, Inserting
    <3> QED
      BY <3>1, <3>2 DEF OutboxJobs, Handled, Message
  <2> QED
    BY <2>1, <2>2
<1>6. ASSUME NEW w \in Workers, PublishEvent(w)
      PROVE  UNCHANGED <<stage, busy>> /\ payload'[busy[p]] = payload[busy[p]]
  <2>1. PICK f \in Events : /\ status[f] = "none" /\ UNCHANGED <<stage, busy>>
                            /\ payload' = [payload EXCEPT ![f] = request[w].message]
    BY <1>6 DEF PublishEvent, Box!Publish
  <2>2. busy[p] # 0
    BY <2>1 DEF Inserting
  <2> QED
    BY <1>0, <2>1, <2>2 DEF FlowShape, FlowLinks
<1>7. UNCHANGED <<stage[p], busy[p], payload[busy[p]]>> \/ OutboxJobs(q) = {}
  BY <1>1, <1>2, <1>3, <1>4, <1>5, <1>6
  DEF Next, RequestStep, FinishRequest, PollerStep, HandlerStep, PollerOnly, Claim, vars,
      SendQuote, AcceptQuote, FindPublicQuote, AcceptPublicQuote, CreateJob, UpdateJob, CompleteJob,
      CreateInvoice, SendInvoice, PayInvoice, PublishFails, boxvars,
      Box!Claim, Box!SkipDuplicate, Box!Commit, Box!LoseSession, Box!Requeue
<1> QED
  BY <1>3, <1>7 DEF Inserting

LEMMA DraftStep ==
  ASSUME "lost_session" \notin FaultKinds,
         FlowShape, BoxProofs!IInv, AnnounceInv, DraftInv, [Next]_vars
  PROVE  DraftInv'
<1>0. busy \in [Pollers -> Events \cup {0}] /\ open \in [Pollers -> BOOLEAN]
  BY DEF BoxProofs!IInv, BoxProofs!TypeOK, BoxProofs!NoEvent
<1>1. ASSUME NEW p \in Pollers PROVE busy'[p] # 0 => open'[p]
  <2>1. [Box!Next]_(Box!vars) /\ (busy[p] # 0 => open[p])
    BY OutboxStep DEF DraftInv
  <2> QED
    BY <1>0, <2>1
    DEF Box!Next, Box!PollerStep, Box!vars, Box!Publish, Box!Requeue, Box!Claim, Box!SkipDuplicate,
        Box!Dispatch, Box!HandlerReturnsNil, Box!HandlerReturnsError, Box!Commit, Box!LoseSession,
        Box!Crash, Box!CloseTx, Box!Fault, Box!txvars, Box!NoEvent
<1>2. ASSUME NEW q \in Estimates
      PROVE  /\ \A i, j \in OutboxJobs(q)' : i = j
             /\ \A p \in Pollers : Inserting(p, q)' => OutboxJobs(q)' = {}
  <2>1. CASE \A p \in Pollers : ~InsertJob(p)
    <3>1. OutboxJobs(q)' = OutboxJobs(q)
      BY <2>1, OutboxJobsStep
    <3>2. \A p \in Pollers : Inserting(p, q)' => OutboxJobs(q) = {}
      BY InsertingStep DEF DraftInv
    <3> QED
      BY <3>1, <3>2 DEF DraftInv
  <2>2. ASSUME NEW p \in Pollers, InsertJob(p)
        PROVE  /\ \A i, j \in OutboxJobs(q)' : i = j
               /\ \A r \in Pollers : Inserting(r, q)' => OutboxJobs(q)' = {}
    <3>1. PICK k \in JobIds :
            /\ job[k].status = "absent"
            /\ job' = [job EXCEPT ![k] =
                         [status |-> "draft", estimate |-> Handled(p).id, by |-> "outbox"]]
      BY <2>2 DEF InsertJob
    <3>2. CASE q = Handled(p).id
      <4>1. Inserting(p, q)
        <5>1. Handled(p) \in Messages /\ Handled(p).type = "quote.accepted" /\ busy[p] # 0
              /\ stage[p] = "insert"
          BY <2>2, HandledMessage DEF InsertJob, At, Box!NoEvent
        <5> QED
          BY <3>2, <5>1, MessageId DEF Inserting, Handled
      <4>2. OutboxJobs(q) = {}
        BY <4>1 DEF DraftInv
      <4>3. \A i, j \in OutboxJobs(q)' : i = j
        BY <3>1, <4>2 DEF OutboxJobs, JobsOf, FlowShape, FlowTypes
      <4>4. \A r \in Pollers : ~Inserting(r, q)'
        <5> SUFFICES ASSUME NEW r \in Pollers, Inserting(r, q)' PROVE FALSE
          OBVIOUS
        <5>1. r # p
          BY <2>2, InsertingStep
        <5>2. Inserting(r, q)
          BY <2>2, <5>1 DEF InsertJob, GoTo, boxvars, Inserting, FlowShape, FlowTypes
        <5> QED
          BY <4>1, <5>1, <5>2, OneInserter
      <4> QED
        BY <4>3, <4>4
    <3>3. CASE q # Handled(p).id
      <4>1. OutboxJobs(q)' = OutboxJobs(q)
        BY <3>1, <3>3 DEF OutboxJobs, JobsOf, FlowShape, FlowTypes
      <4>2. \A r \in Pollers : Inserting(r, q)' => OutboxJobs(q) = {}
        BY InsertingStep DEF DraftInv
      <4> QED
        BY <4>1, <4>2 DEF DraftInv
    <3> QED
      BY <3>2, <3>3
  <2> QED
    BY <2>1, <2>2
<1> QED
  BY <1>1, <1>2 DEF DraftInv

\* Whatever crashes or is redelivered, the poller drafts one job for a quote,
\* provided no session is lost under a running handler.
THEOREM OneDraftPerQuote ==
  ASSUME "lost_session" \notin FaultKinds
  PROVE  Spec => []OneOutboxJobPerQuote
<1>1. ASSUME Init PROVE DraftInv
  <2>1. \A q \in Estimates : OutboxJobs(q) = {}
    BY <1>1 DEF Init, OutboxJobs, JobsOf
  <2> QED
    BY <1>1, <2>1 DEF Init, Box!Init, Box!NoEvent, DraftInv
<1>2. Spec => []DraftInv
  BY <1>1, DraftStep, FlowInvariant, AnnounceInvariant, PTL DEF Spec
<1>3. ASSUME DraftInv PROVE OneOutboxJobPerQuote
  BY <1>3, SingleCardinality DEF DraftInv, OneOutboxJobPerQuote, OutboxJobs
<1> QED
  BY <1>2, <1>3, PTL
=============================================================================
