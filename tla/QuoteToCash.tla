---------------------------- MODULE QuoteToCash ----------------------------
(***************************************************************************)
(* From an accepted quote to a paid invoice, across four plugins:          *)
(*                                                                         *)
(*   estimating, portal  accept a quote and publish quote.accepted;        *)
(*   scheduling          consumes it and drafts a job; staff create,       *)
(*                       update and complete jobs;                         *)
(*   invoicing           consumes job.completed and drafts an invoice;     *)
(*                       staff create, send and collect invoices.          *)
(*                                                                         *)
(* Two things run concurrently here.  Workers are API requests: a request  *)
(* changes its aggregate in one statement and publishes in the next, and   *)
(* the error of Publish is dropped.  Pollers run the event handlers, whose *)
(* check for an existing row and INSERT are separate statements.           *)
(***************************************************************************)
EXTENDS Integers, FiniteSets

CONSTANTS
  Estimates, JobIds, InvoiceIds,          \* rows there may be
  JobUpdates,                             \* statuses a job is patched to
  Workers,                                \* concurrent API requests
  None,                                   \* no row, no request
  Events, Pollers, Batch, FaultKinds, MaxFaults    \* see Outbox

JobStatuses == {"absent", "draft", "scheduled", "in_progress", "completed", "cancelled"}

Message(type, id) == [type |-> type, id |-> id]

Messages ==
  {Message("quote.accepted", q) : q \in Estimates}
    \cup {Message(t, j) : t \in {"job.scheduled", "job.completed"}, j \in JobIds}
    \cup {Message("invoice.paid", i) : i \in InvoiceIds}

\* A request between its statements: about to run the guarded UPDATE of a
\* public acceptance, or about to call Publish.
Pending(step, message) == [step |-> step, message |-> message]

ASSUME OutboxAssumptions ==
  /\ Events \subseteq Nat \ {0}
  /\ Batch \in Nat \ {0}
  /\ FaultKinds \subseteq {"crash", "lost_session", "requeue"}
  /\ MaxFaults \in Nat
ASSUME JobUpdatesAssumption == JobUpdates \subseteq JobStatuses \ {"absent"}
ASSUME NoneAssumption ==
  /\ None \notin Estimates \cup JobIds \cup Messages
  /\ None \notin [step : {"accept", "publish"}, message : Messages]

VARIABLES
  estimate,   \* estimates.status
  job,        \* jobs: status, estimate_id and who inserted the row
  invoice,    \* invoices: status, job_id and who inserted the row
  payload,    \* event type and aggregate id of each published event
  request,    \* what each API request still has to do
  stage       \* statement the handler run by each poller has reached

VARIABLES status, recorded, open, todo, ok, bad, busy, delivered, faults

Box == INSTANCE Outbox

boxvars == <<status, recorded, open, todo, ok, bad, busy, delivered, faults>>
rows == <<estimate, job, invoice>>
vars == <<rows, payload, request, stage, boxvars>>

Init ==
  /\ estimate = [q \in Estimates |-> "draft"]
  /\ job = [j \in JobIds |-> [status |-> "absent", estimate |-> None, by |-> "staff"]]
  /\ invoice = [i \in InvoiceIds |-> [status |-> "absent", job |-> None, by |-> "staff"]]
  /\ payload = [e \in Events |-> None]
  /\ request = [w \in Workers |-> None]
  /\ stage = [p \in Pollers |-> "off"]
  /\ Box!Init

-----------------------------------------------------------------------------
(* Requests                                                                 *)

Publishing(w, message) ==
  request' = [request EXCEPT ![w] = Pending("publish", message)]

SendQuote(q) ==
  /\ estimate[q] = "draft"
  /\ estimate' = [estimate EXCEPT ![q] = "sent"]
  /\ UNCHANGED <<job, invoice, payload, request, stage, boxvars>>

(* Staff accept, and the signed-in customer's acceptQuote: one guarded      *)
(* UPDATE each.                                                             *)
AcceptQuote(w, q) ==
  /\ request[w] = None
  /\ estimate[q] = "sent"
  /\ estimate' = [estimate EXCEPT ![q] = "accepted"]
  /\ Publishing(w, Message("quote.accepted", q))
  /\ UNCHANGED <<job, invoice, payload, stage, boxvars>>

(* acceptPublicQuote first resolves the token to a sent estimate ...        *)
FindPublicQuote(w, q) ==
  /\ request[w] = None
  /\ estimate[q] = "sent"
  /\ request' = [request EXCEPT ![w] = Pending("accept", Message("quote.accepted", q))]
  /\ UNCHANGED <<rows, payload, stage, boxvars>>

AcceptPublicQuote_Unguarded(w) ==
  /\ request[w] # None /\ request[w].step = "accept"
  /\ estimate' = [estimate EXCEPT ![request[w].message.id] = "accepted"]
  /\ Publishing(w, request[w].message)
  /\ UNCHANGED <<job, invoice, payload, stage, boxvars>>

(* ... and then accepts it, unless somebody else did in between.            *)
AcceptPublicQuote(w) ==
  /\ request[w] # None /\ request[w].step = "accept"
  /\ LET q == request[w].message.id IN
     IF estimate[q] = "sent"
     THEN /\ estimate' = [estimate EXCEPT ![q] = "accepted"]
          /\ Publishing(w, request[w].message)
     ELSE /\ request' = [request EXCEPT ![w] = None]
          /\ UNCHANGED estimate
  /\ UNCHANGED <<job, invoice, payload, stage, boxvars>>

(* POST /scheduling/jobs; q is the optional estimate_id, of any estimate.   *)
CreateJob(w, j, q) ==
  /\ request[w] = None
  /\ job[j].status = "absent"
  /\ job' = [job EXCEPT ![j] = [status |-> "scheduled", estimate |-> q, by |-> "staff"]]
  /\ Publishing(w, Message("job.scheduled", j))
  /\ UNCHANGED <<estimate, invoice, payload, stage, boxvars>>

(* PATCH /scheduling/jobs/:id takes whatever status it is given, in any     *)
(* state of the job, and publishes nothing.                                 *)
UpdateJob(j, s) ==
  /\ job[j].status \notin {"absent", s}
  /\ job' = [job EXCEPT ![j].status = s]
  /\ UNCHANGED <<estimate, invoice, payload, request, stage, boxvars>>

(* POST /scheduling/jobs/:id/complete publishes every time it is called.    *)
CompleteJob(w, j) ==
  /\ request[w] = None
  /\ job[j].status # "absent"
  /\ job' = [job EXCEPT ![j].status = "completed"]
  /\ Publishing(w, Message("job.completed", j))
  /\ UNCHANGED <<estimate, invoice, payload, stage, boxvars>>

CreateInvoice(i, j) ==
  /\ invoice[i].status = "absent"
  /\ invoice' = [invoice EXCEPT ![i] = [status |-> "draft", job |-> j, by |-> "staff"]]
  /\ UNCHANGED <<estimate, job, payload, request, stage, boxvars>>

SendInvoice(i) ==
  /\ invoice[i].status = "draft"
  /\ invoice' = [invoice EXCEPT ![i].status = "sent"]
  /\ UNCHANGED <<estimate, job, payload, request, stage, boxvars>>

PayInvoice_Unguarded(w, i) ==
  /\ request[w] = None
  /\ invoice[i].status \in {"sent", "paid"}
  /\ invoice' = [invoice EXCEPT ![i].status = "paid"]
  /\ Publishing(w, Message("invoice.paid", i))
  /\ UNCHANGED <<estimate, job, payload, stage, boxvars>>

(* Staff pay, and the customer's confirmPayment with mock payments.         *)
PayInvoice(w, i) ==
  /\ request[w] = None
  /\ invoice[i].status = "sent"
  /\ invoice' = [invoice EXCEPT ![i].status = "paid"]
  /\ Publishing(w, Message("invoice.paid", i))
  /\ UNCHANGED <<estimate, job, payload, stage, boxvars>>

PublishEvent(w) ==
  /\ request[w] # None /\ request[w].step = "publish"
  /\ \E e \in Events :
       /\ Box!Publish(e)
       /\ payload' = [payload EXCEPT ![e] = request[w].message]
  /\ request' = [request EXCEPT ![w] = None]
  /\ UNCHANGED <<rows, stage>>

(* Publish returns an error, which every caller drops, or the process dies  *)
(* between the UPDATE and the INSERT.                                       *)
PublishFails(w) ==
  /\ request[w] # None /\ request[w].step = "publish"
  /\ request' = [request EXCEPT ![w] = None]
  /\ UNCHANGED <<rows, payload, stage, boxvars>>

-----------------------------------------------------------------------------
(* Handlers: "load", "check" and "insert" are their statements, "tail" the  *)
(* calls chained after them (outbound webhooks, calendar, SMS).             *)

Handled(p) == payload[busy[p]]

At(p, type, s) == busy[p] # Box!NoEvent /\ Handled(p).type = type /\ stage[p] = s

GoTo(p, s) ==
  /\ stage' = [stage EXCEPT ![p] = s]
  /\ UNCHANGED <<payload, request, boxvars>>

FirstStage(type) ==
  CASE type = "quote.accepted" -> "load"
    [] type = "job.completed" -> "check"
    [] OTHER -> "tail"

Dispatch(p) ==
  /\ Box!Dispatch(p)
  /\ stage' = [stage EXCEPT ![p] = FirstStage(payload[busy'[p]].type)]
  /\ UNCHANGED <<rows, payload, request>>

(* scheduling.handleQuoteAccepted: the estimate must be accepted; a job of  *)
(* that estimate, whoever made it, ends the matter; otherwise draft one.    *)
LoadEstimate(p) ==
  /\ At(p, "quote.accepted", "load")
  /\ estimate[Handled(p).id] = "accepted"
  /\ GoTo(p, "check") /\ UNCHANGED rows

JobsOf(q) == {j \in JobIds : job[j].status # "absent" /\ job[j].estimate = q}

CheckJob_WrongWay(p) ==
  /\ At(p, "quote.accepted", "check")
  /\ GoTo(p, IF JobsOf(Handled(p).id) = {} THEN "tail" ELSE "insert")
  /\ UNCHANGED rows

CheckJob_Skipped(p) ==
  /\ At(p, "quote.accepted", "check")
  /\ GoTo(p, "insert") /\ UNCHANGED rows

CheckJob(p) ==
  /\ At(p, "quote.accepted", "check")
  /\ GoTo(p, IF JobsOf(Handled(p).id) = {} THEN "insert" ELSE "tail")
  /\ UNCHANGED rows

InsertJob_UnknownStatus(p) ==
  /\ At(p, "quote.accepted", "insert")
  /\ \E j \in JobIds :
       /\ job[j].status = "absent"
       /\ job' = [job EXCEPT ![j] =
                   [status |-> "pending", estimate |-> Handled(p).id, by |-> "outbox"]]
  /\ GoTo(p, "tail") /\ UNCHANGED <<estimate, invoice>>

InsertJob(p) ==
  /\ At(p, "quote.accepted", "insert")
  /\ \E j \in JobIds :
       /\ job[j].status = "absent"
       /\ job' = [job EXCEPT ![j] =
                   [status |-> "draft", estimate |-> Handled(p).id, by |-> "outbox"]]
  /\ GoTo(p, "tail") /\ UNCHANGED <<estimate, invoice>>

(* invoicing.handleJobCompleted: an invoice of that job ends the matter;    *)
(* otherwise the job must still be completed; draft an invoice.             *)
InvoicesOf(j) == {i \in InvoiceIds : invoice[i].status # "absent" /\ invoice[i].job = j}

CheckInvoice(p) ==
  /\ At(p, "job.completed", "check")
  /\ GoTo(p, IF InvoicesOf(Handled(p).id) = {} THEN "load" ELSE "tail")
  /\ UNCHANGED rows

LoadJob_NotFoundIsDone(p) ==
  /\ At(p, "job.completed", "load")
  /\ GoTo(p, IF job[Handled(p).id].status = "completed" THEN "insert" ELSE "tail")
  /\ UNCHANGED rows

LoadJob(p) ==
  /\ At(p, "job.completed", "load")
  /\ job[Handled(p).id].status = "completed"
  /\ GoTo(p, "insert") /\ UNCHANGED rows

InsertInvoice(p) ==
  /\ At(p, "job.completed", "insert")
  /\ \E i \in InvoiceIds :
       /\ invoice[i].status = "absent"
       /\ invoice' = [invoice EXCEPT ![i] =
                       [status |-> "draft", job |-> Handled(p).id, by |-> "outbox"]]
  /\ GoTo(p, "tail") /\ UNCHANGED <<estimate, job>>

HandlerReturnsNil(p) ==
  /\ stage[p] = "tail"
  /\ Box!HandlerReturnsNil(p)
  /\ stage' = [stage EXCEPT ![p] = "off"]
  /\ UNCHANGED <<rows, payload, request>>

(* Any statement of a handler may fail, a load may find no row, and a       *)
(* chained call may fail after the row was inserted.                        *)
HandlerReturnsError(p) ==
  /\ Box!HandlerReturnsError(p)
  /\ stage' = [stage EXCEPT ![p] = "off"]
  /\ UNCHANGED <<rows, payload, request>>

Crash(p) ==
  /\ Box!Crash(p)
  /\ stage' = [stage EXCEPT ![p] = "off"]
  /\ UNCHANGED <<rows, payload, request>>

(* Steps of the poller in which no handler takes part.                      *)
PollerOnly(A) == A /\ UNCHANGED <<rows, payload, request, stage>>

-----------------------------------------------------------------------------
RequestStep ==
  \/ \E q \in Estimates : SendQuote(q)
  \/ \E w \in Workers, q \in Estimates : AcceptQuote(w, q) \/ FindPublicQuote(w, q)
  \/ \E w \in Workers, j \in JobIds :
       \/ \E q \in Estimates \cup {None} : CreateJob(w, j, q)
       \/ CompleteJob(w, j)
  \/ \E j \in JobIds, s \in JobUpdates : UpdateJob(j, s)
  \/ \E i \in InvoiceIds :
       \/ \E j \in JobIds \cup {None} : CreateInvoice(i, j)
       \/ SendInvoice(i)
       \/ \E w \in Workers : PayInvoice(w, i)

FinishRequest(w) == AcceptPublicQuote(w) \/ PublishEvent(w) \/ PublishFails(w)

HandlerStep(p) ==
  \/ Dispatch(p)
  \/ LoadEstimate(p) \/ CheckJob(p) \/ InsertJob(p)
  \/ CheckInvoice(p) \/ LoadJob(p) \/ InsertInvoice(p)
  \/ HandlerReturnsNil(p) \/ HandlerReturnsError(p)

PollerStep(p) ==
  \/ HandlerStep(p)
  \/ PollerOnly(Box!SkipDuplicate(p) \/ Box!Commit(p))

Claim(p) == PollerOnly(Box!Claim(p))

Next ==
  \/ RequestStep
  \/ \E w \in Workers : FinishRequest(w)
  \/ \E p \in Pollers : Claim(p) \/ PollerStep(p) \/ Crash(p) \/ PollerOnly(Box!LoseSession(p))
  \/ \E e \in Events : PollerOnly(Box!Requeue(e))

Fairness ==
  /\ \A w \in Workers : WF_vars(FinishRequest(w))
  /\ \A p \in Pollers : WF_vars(Claim(p)) /\ WF_vars(PollerStep(p))

Spec == Init /\ [][Next]_vars
FairSpec == Spec /\ Fairness

-----------------------------------------------------------------------------
EstimateStatuses == {"draft", "sent", "accepted"}
InvoiceStatuses == {"absent", "draft", "sent", "paid"}

(* The types of the variables.                                              *)
TypeOK ==
  /\ estimate \in [Estimates -> EstimateStatuses]
  /\ job \in [JobIds -> [status : JobStatuses, estimate : Estimates \cup {None},
                         by : {"staff", "outbox"}]]
  /\ invoice \in [InvoiceIds -> [status : InvoiceStatuses, job : JobIds \cup {None},
                                 by : {"staff", "outbox"}]]
  /\ payload \in [Events -> Messages \cup {None}]
  /\ request \in [Workers -> [step : {"accept", "publish"}, message : Messages] \cup {None}]
  /\ stage \in [Pollers -> {"off", "load", "check", "insert", "tail"}]
  /\ Box!TypeOK

Published(m) == {e \in Events : payload[e] = m}
Publishers(m) == {w \in Workers : request[w] = Pending("publish", m)}

(* However many staff members, portal customers and holders of the public   *)
(* link accept one quote at the same time, quote.accepted is published, or  *)
(* about to be, once: the later UPDATEs find no sent estimate.              *)
QuoteAcceptedOnce ==
  \A q \in Estimates :
    LET m == Message("quote.accepted", q) IN
    Cardinality(Published(m)) + Cardinality(Publishers(m)) <= 1

(* Likewise concurrent payments of one invoice announce invoice.paid once.  *)
InvoicePaidOnce ==
  \A i \in InvoiceIds :
    LET m == Message("invoice.paid", i) IN
    Cardinality(Published(m)) + Cardinality(Publishers(m)) <= 1

(* A quote.accepted that counts as processed left a job of that quote       *)
(* behind, whichever delivery inserted it and whatever crashed in between.  *)
ProcessedQuoteHasJob ==
  \A e \in recorded :
    payload[e].type = "quote.accepted" => JobsOf(payload[e].id) # {}

(* A job.completed that counts as processed left an invoice of that job.    *)
ProcessedCompletionHasInvoice ==
  \A e \in recorded :
    payload[e].type = "job.completed" => InvoicesOf(payload[e].id) # {}

(* The check before the INSERT makes redelivery after a crash harmless: the *)
(* poller never drafts two jobs for one quote.  It needs the row lock of    *)
(* the event to outlive the handler, so it holds as long as no poller loses *)
(* its session while the handler it runs keeps going.                       *)
OneOutboxJobPerQuote ==
  \A q \in Estimates :
    Cardinality({j \in JobsOf(q) : job[j].by = "outbox"}) <= 1

(* The same for invoices.  The code does not keep it: a job completed twice *)
(* has two events, and two pollers may run their handlers side by side.     *)
OneOutboxInvoicePerJob ==
  \A j \in JobIds :
    Cardinality({i \in InvoicesOf(j) : invoice[i].by = "outbox"}) <= 1

(* An accepted quote is in the outbox, or its request is on the way there.  *)
(* The code does not keep it: the INSERT of the event is not in the         *)
(* transaction of the UPDATE and its error is dropped.                      *)
AcceptanceReachesOutbox ==
  \A q \in Estimates : estimate[q] = "accepted" =>
    LET m == Message("quote.accepted", q) IN Published(m) \cup Publishers(m) # {}

(* Once published, an acceptance is answered: in the end there is a job for *)
(* the quote, or its event is marked failed for somebody to look at.        *)
PublishedAcceptanceIsAnswered ==
  \A e \in Events, q \in Estimates :
    payload[e] = Message("quote.accepted", q) ~> JobsOf(q) # {} \/ status[e] = "failed"
=============================================================================
