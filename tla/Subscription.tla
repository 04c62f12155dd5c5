---------------------------- MODULE Subscription ----------------------------
(***************************************************************************)
(* The subscription of one tenant as its row in "tenants" has it, and as   *)
(* Stripe has it.  Stripe tells of every change by webhook; a webhook is   *)
(* sent again until it is answered, sometimes once more, and in no order.  *)
(*                                                                         *)
(* Stripe is outside the program: of it the module has the changes the     *)
(* handlers react to and the events that tell of them.                     *)
(***************************************************************************)
EXTENDS Integers, Sequences

CONSTANTS
  Subs,      \* numbers of subscriptions: each checkout begins another
  MaxMail,   \* bound on the events Stripe makes
  MaxMoves   \* bound on moves of the world outside, of users, and on faults

ASSUME SubsAssumption == Subs \subseteq Nat \ {0}
ASSUME BoundsAssumption == MaxMail \in Nat /\ MaxMoves \in Nat

VARIABLES
  stripe,    \* status of each subscription at Stripe
  mail,      \* the events, in the order in which Stripe made them
  due,       \* numbers of events that have not been handled
  status,    \* subscription_status of the tenant
  customer,  \* stripe_customer_id, named by the first subscription; 0 for NULL
  newest,    \* history: the newest event that was handled
  disorder,  \* history: an event was handled after a newer one
  twins,     \* history: two subscriptions were alive at one time
  moves      \* number of moves so far, for the bound

subscriptionVars == <<stripe, mail, due, status, customer, newest, disorder, twins>>

Event(type, s, st, cust) == [type |-> type, sub |-> s, status |-> st, customer |-> cust]
EventTypes == {"checkout.session.completed", "invoice.payment_failed",
               "customer.subscription.updated", "customer.subscription.deleted"}
AtStripe == {"none", "active", "past_due", "canceled"}
Statuses == {"incomplete", "active", "past_due", "canceled"}

RequiresPayment(s) == s = "incomplete"
RequiresDunning(s) == s = "past_due"
IsSubscriptionActive(s) == s = "active"

SubscriptionInit ==
  /\ stripe = [s \in Subs |-> "none"]
  /\ mail = <<>>
  /\ due = {}
  /\ status = "incomplete"
  /\ customer = 0
  /\ newest = 0
  /\ disorder = FALSE
  /\ twins = FALSE
  /\ moves = 0

Move == moves < MaxMoves /\ moves' = moves + 1

-----------------------------------------------------------------------------
(* What happens at Stripe.                                                  *)
Alive == {"active", "past_due"}
Live == {s \in Subs : stripe[s] \in Alive}
Begun == {s \in Subs : stripe[s] # "none"}
Paid == Begun # {}

Tells(s, st, events) ==
  /\ stripe' = [stripe EXCEPT ![s] = st]
  /\ Len(mail) + Len(events) <= MaxMail
  /\ mail' = mail \o events
  /\ due' = due \cup Len(mail) + 1 .. Len(mail) + Len(events)
  /\ twins' = (twins \/ \E u, v \in Subs : u # v /\ {stripe'[u], stripe'[v]} \subseteq Alive)
  /\ UNCHANGED <<status, customer, newest, disorder>>

\* The customer of a subscription is the one on file when checkout began.
CustomerOf(s) ==
  LET told == {n \in 1 .. Len(mail) : mail[n].sub = s} IN mail[CHOOSE n \in told : TRUE].customer

\* The plan is paid for on the checkout page that CreateCheckout opened.
Checkout(s) ==
  /\ s \notin Begun /\ \A u \in Subs : u < s => u \in Begun
  /\ IF Paid THEN Move ELSE UNCHANGED moves
  /\ Tells(s, "active", <<Event("checkout.session.completed", s, "active",
                                IF customer = 0 THEN s ELSE customer)>>)

PaymentFails(s) ==
  /\ stripe[s] = "active" /\ Move
  /\ Tells(s, "past_due",
       <<Event("invoice.payment_failed", s, "past_due", CustomerOf(s)),
         Event("customer.subscription.updated", s, "past_due", CustomerOf(s))>>)

PaymentRecovers(s) ==
  /\ stripe[s] = "past_due" /\ Move
  /\ Tells(s, "active",
       <<Event("customer.subscription.updated", s, "active", CustomerOf(s))>>)

Cancel(s) ==
  /\ s \in Live /\ Move
  /\ Tells(s, "canceled",
       <<Event("customer.subscription.deleted", s, "canceled", CustomerOf(s))>>)

-----------------------------------------------------------------------------
(* HandleWebhook: each event is one UPDATE of the tenant's row.             *)

\* COALESCE(NULLIF(customer, ''), stripe_customer_id), and active in any case.
onCheckoutCompleted(e) ==
  /\ e.type = "checkout.session.completed"
  /\ customer' = e.customer
  /\ status' = "active"

\* Found by customer id only: no row before checkout has been handled.
onInvoicePaymentFailed(e) ==
  /\ e.type = "invoice.payment_failed"
  /\ status' = IF e.customer = customer THEN "past_due" ELSE status
  /\ UNCHANGED customer

onSubscriptionUpdated_OnlyDunning(e) ==
  /\ e.type = "customer.subscription.updated"
  /\ status' = IF RequiresDunning(e.status) THEN e.status ELSE status
  /\ UNCHANGED customer

\* The metadata of the subscription name the tenant.
onSubscriptionUpdated(e) ==
  /\ e.type = "customer.subscription.updated"
  /\ status' = e.status
  /\ UNCHANGED customer

onSubscriptionDeleted_Misspelt(e) ==
  /\ e.type = "customer.subscription.deleted"
  /\ status' = "cancelled"
  /\ UNCHANGED customer

\* Whichever subscription it was.
onSubscriptionDeleted(e) ==
  /\ e.type = "customer.subscription.deleted"
  /\ status' = "canceled"
  /\ UNCHANGED customer

HandleWebhook(n) ==
  /\ \/ onCheckoutCompleted(mail[n])
     \/ onInvoicePaymentFailed(mail[n])
     \/ onSubscriptionUpdated(mail[n])
     \/ onSubscriptionDeleted(mail[n])
  /\ disorder' = (disorder \/ n < newest)
  /\ newest' = IF n > newest THEN n ELSE newest
  /\ UNCHANGED <<stripe, mail, twins>>

Deliver ==
  /\ \E n \in due : HandleWebhook(n) /\ due' = due \ {n}
  /\ UNCHANGED moves

\* Stripe did not see the answer, and sends the event again.
DeliverAgain ==
  /\ \E n \in 1 .. Len(mail) : n \notin due /\ HandleWebhook(n)
  /\ Move
  /\ UNCHANGED due

SubscriptionStep ==
  \/ \E s \in Subs : PaymentFails(s) \/ PaymentRecovers(s) \/ Cancel(s)
  \/ Deliver \/ DeliverAgain

-----------------------------------------------------------------------------
SubscriptionTypeOK ==
  /\ stripe \in [Subs -> AtStripe]
  /\ mail \in Seq([type : EventTypes, sub : Subs, status : AtStripe, customer : Subs])
  /\ due \subseteq 1 .. Len(mail)
  /\ status \in Statuses
  /\ customer \in Subs \cup {0}
  /\ newest \in 0 .. Len(mail)
  /\ disorder \in BOOLEAN /\ twins \in BOOLEAN
  /\ moves \in Nat

(* Nobody has the use of the program who never paid.                        *)
AccessWasPaidFor == ~RequiresPayment(status) => Paid

(* Once every webhook has come, in order, repetitions of the newest apart,  *)
(* the tenant has the status of its last subscription: HandleWebhook needs  *)
(* nothing but the order.  Two subscriptions that are alive at once, which  *)
(* changing the plan on the billing page makes, are not told apart.         *)
StatusFollowsStripe ==
  due = {} /\ ~disorder /\ ~twins /\ Paid =>
    status = stripe[CHOOSE s \in Begun : \A u \in Begun : u <= s]
=============================================================================
