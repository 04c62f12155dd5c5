------------------------ MODULE Subscription_proofs ------------------------
(***************************************************************************)
(* What every step of the subscription preserves, for any number of        *)
(* subscriptions and events, in any order.  Onboarding_proofs builds on it.*)
(***************************************************************************)
EXTENDS Subscription, SequenceTheorems, TLAPS

Mail == [type : EventTypes, sub : Subs, status : AtStripe, customer : Subs]

\* An event tells of the status its handler gives.
Plain(e) ==
  /\ e.status # "none"
  /\ e.type = "checkout.session.completed" => e.status = "active"
  /\ e.type = "customer.subscription.deleted" => e.status = "canceled"

\* Events and subscriptions that have begun tell of each other.
Told ==
  /\ \A s \in Begun : \E n \in 1 .. Len(mail) : mail[n].sub = s
  /\ \A n \in 1 .. Len(mail) : mail[n].sub \in Begun /\ Plain(mail[n])

\* Subscriptions begin in the order of their numbers.  While two were never
\* alive at once, the last event is about the last of them, and the others
\* are over; it never is a failed payment, which an update follows.
Ordered ==
  /\ \A s \in Begun, u \in Subs : u < s => u \in Begun
  /\ mail # <<>> =>
       LET last == mail[Len(mail)] IN
       /\ last.type # "invoice.payment_failed"
       /\ last.status = stripe[last.sub]
       /\ ~twins => \A u \in Begun : u <= last.sub /\ (u # last.sub => stripe[u] = "canceled")

\* In order, the newest event that was handled has left its status, and what
\* is newer is still due.
InOrder ==
  /\ ~disorder /\ newest > 0 /\ mail[newest].type # "invoice.payment_failed" =>
       status = mail[newest].status
  /\ \A n \in 1 .. Len(mail) : n > newest => n \in due

SubInv == SubscriptionTypeOK /\ Told /\ AccessWasPaidFor /\ Ordered /\ InOrder

-----------------------------------------------------------------------------
\* Events are appended.
LEMMA TellsFacts ==
  ASSUME SubscriptionTypeOK, NEW s \in Subs, NEW st \in AtStripe \ {"none"},
         NEW events \in Seq(Mail), Tells(s, st, events)
  PROVE  /\ stripe' = [stripe EXCEPT ![s] = st] /\ stripe' \in [Subs -> AtStripe]
         /\ mail' \in Seq(Mail) /\ Len(mail') = Len(mail) + Len(events)
         /\ \A n \in 1 .. Len(mail) : mail'[n] = mail[n]
         /\ \A n \in 1 .. Len(events) : mail'[Len(mail) + n] = events[n]
         /\ Begun' = Begun \cup {s}
         /\ Len(mail) \in Nat /\ Len(events) \in Nat
<1>1. mail \in Seq(Mail)
  BY DEF SubscriptionTypeOK, Mail
<1>2. mail' = mail \o events /\ stripe' = [stripe EXCEPT ![s] = st]
  BY DEF Tells
<1>3. mail' \in Seq(Mail) /\ Len(mail') = Len(mail) + Len(events)
  BY <1>1, <1>2, ConcatProperties
<1>4. /\ \A n \in 1 .. Len(mail) : mail'[n] = mail[n]
      /\ \A n \in 1 .. Len(events) : mail'[Len(mail) + n] = events[n]
  BY <1>1, <1>2, ConcatProperties
<1>5. stripe' \in [Subs -> AtStripe] /\ Begun' = Begun \cup {s}
  BY <1>2 DEF SubscriptionTypeOK, AtStripe, Begun
<1>6. Len(mail) \in Nat /\ Len(events) \in Nat
  BY <1>1
<1> QED
  BY <1>2, <1>3, <1>4, <1>5, <1>6

\* The customer of a subscription is known.
LEMMA CustomerFacts ==
  ASSUME SubscriptionTypeOK, Told, NEW s \in Begun
  PROVE  CustomerOf(s) \in Subs
<1> DEFINE told == {n \in 1 .. Len(mail) : mail[n].sub = s}
<1>1. told # {}
  BY DEF Told
<1>2. (CHOOSE n \in told : TRUE) \in told
  BY <1>1
<1>3. \A n \in told : mail[n] \in Mail
  <2>1. mail \in Seq(Mail)
    BY DEF SubscriptionTypeOK, Mail
  <2> QED
    BY <2>1, ElementOfSeq
<1> QED
  BY <1>2, <1>3 DEF CustomerOf, Mail

\* What Stripe tells of subscription s keeps the invariant, if s is the last
\* to begin, or the only one alive unless two were.
LEMMA TellsStep ==
  ASSUME SubInv, NEW s \in Subs, NEW st \in AtStripe \ {"none"}, NEW events \in Seq(Mail),
         Tells(s, st, events), events # <<>>, moves' \in Nat,
         \A n \in 1 .. Len(events) : events[n].sub = s /\ Plain(events[n]),
         events[Len(events)].status = st, events[Len(events)].type # "invoice.payment_failed",
         \A u \in Subs : u < s => u \in Begun,
         ~twins' => \A u \in Begun : u <= s /\ (u # s => stripe[u] = "canceled")
  PROVE  SubInv'
<1> DEFINE last == Len(mail) + Len(events)
<1>0. SubscriptionTypeOK /\ Told /\ AccessWasPaidFor /\ Ordered /\ InOrder
  BY DEF SubInv
<1>1. /\ stripe' = [stripe EXCEPT ![s] = st] /\ stripe' \in [Subs -> AtStripe]
      /\ mail' \in Seq(Mail) /\ Len(mail') = last
      /\ \A n \in 1 .. Len(mail) : mail'[n] = mail[n]
      /\ \A n \in 1 .. Len(events) : mail'[Len(mail) + n] = events[n]
      /\ Begun' = Begun \cup {s}
      /\ Len(mail) \in Nat /\ Len(events) \in Nat
  BY <1>0, TellsFacts
<1>2. /\ due' = due \cup Len(mail) + 1 .. last
      /\ twins' \in BOOLEAN /\ (twins => twins')
      /\ UNCHANGED <<status, customer, newest, disorder>>
  BY <1>0 DEF Tells, SubscriptionTypeOK
<1>3. Len(events) > 0
  BY <1>1, EmptySeq
<1>4. \A n \in 1 .. last : n \in 1 .. Len(mail) \/ \E k \in 1 .. Len(events) : n = Len(mail) + k
  <2> TAKE n \in 1 .. last
  <2>1. CASE n > Len(mail)
    <3>1. n - Len(mail) \in 1 .. Len(events) /\ n = Len(mail) + (n - Len(mail))
      BY <1>1, <2>1
    <3> QED
      BY <3>1
  <2> QED
    BY <1>1, <2>1
<1>5. SubscriptionTypeOK'
  <2>1. due' \subseteq 1 .. last
    <3>1. due \subseteq 1 .. Len(mail)
      BY <1>0 DEF SubscriptionTypeOK
    <3>2. 1 .. Len(mail) \subseteq 1 .. last /\ Len(mail) + 1 .. last \subseteq 1 .. last
      BY <1>1
    <3> HIDE DEF last
    <3> QED
      BY <1>2, <3>1, <3>2
  <2>2. newest' \in 0 .. last
    BY <1>0, <1>1, <1>2 DEF SubscriptionTypeOK
  <2> QED
    BY <1>0, <1>1, <1>2, <2>1, <2>2 DEF SubscriptionTypeOK, Mail
<1>6. Told'
  <2>1. \A n \in 1 .. last : mail'[n].sub \in Begun \cup {s} /\ Plain(mail'[n])
    <3> TAKE n \in 1 .. last
    <3>1. CASE n \in 1 .. Len(mail)
      BY <1>0, <1>1, <3>1 DEF Told
    <3>2. ASSUME NEW k \in 1 .. Len(events), n = Len(mail) + k
          PROVE  mail'[n].sub \in Begun \cup {s} /\ Plain(mail'[n])
      BY <1>1, <3>2
    <3> QED
      BY <1>4, <3>1, <3>2
  <2>2. \A u \in Begun : \E n \in 1 .. last : mail'[n].sub = u
    BY <1>0, <1>1 DEF Told
  <2>3. last \in 1 .. last /\ mail'[last].sub = s
    BY <1>1, <1>3
  <2> QED
    BY <1>1, <2>1, <2>2, <2>3 DEF Told
<1>7. AccessWasPaidFor'
  BY <1>0, <1>1, <1>2 DEF AccessWasPaidFor, RequiresPayment, Paid
<1>8. Ordered'
  <2>1. mail'[last] = events[Len(events)]
    BY <1>1, <1>3
  <2>2. \A t \in Begun', u \in Subs : u < t => u \in Begun'
    BY <1>0, <1>1 DEF Ordered
  <2>3. mail'[last].type # "invoice.payment_failed" /\ mail'[last].status = st /\ mail'[last].sub = s
    BY <1>1, <1>3, <2>1
  <2>4. stripe'[s] = st /\ \A u \in Subs : u # s => stripe'[u] = stripe[u]
    BY <1>0, <1>1 DEF SubscriptionTypeOK
  <2>5. Begun \subseteq Subs /\ s <= s
    BY SubsAssumption DEF Begun
  <2>6. ~twins' => \A u \in Begun' : u <= s /\ (u # s => stripe'[u] = "canceled")
    BY <1>1, <2>4, <2>5
  <2> QED
    BY <1>1, <2>2, <2>3, <2>4, <2>6 DEF Ordered
<1>9. InOrder'
  <2>1. newest > 0 => newest \in 1 .. Len(mail)
    BY <1>0 DEF SubscriptionTypeOK
  <2>2. \A n \in 1 .. last : n > newest => n \in due'
    BY <1>0, <1>1, <1>2 DEF InOrder
  <2> QED
    BY <1>0, <1>1, <1>2, <2>1, <2>2 DEF InOrder
<1> QED
  BY <1>5, <1>6, <1>7, <1>8, <1>9 DEF SubInv

\* Somebody pays for a plan.
LEMMA CheckoutStep ==
  ASSUME SubInv, NEW s \in Subs, Checkout(s)
  PROVE  SubInv'
<1> DEFINE events == <<Event("checkout.session.completed", s, "active",
                            IF customer = 0 THEN s ELSE customer)>>
<1>0. SubscriptionTypeOK /\ Ordered
  BY DEF SubInv
<1>1. Tells(s, "active", events) /\ s \notin Begun /\ \A u \in Subs : u < s => u \in Begun
  BY DEF Checkout
<1>2. events \in Seq(Mail) /\ Len(events) = 1 /\ events # <<>> /\ events[1].sub = s
      /\ events[1].status = "active" /\ events[1].type = "checkout.session.completed"
      /\ Plain(events[1])
  BY <1>0 DEF Event, Mail, EventTypes, AtStripe, SubscriptionTypeOK, Plain
<1>3. moves' \in Nat
  BY <1>0 DEF Checkout, Move, SubscriptionTypeOK
<1>4. \A u \in Begun : u <= s
  <2>1. Begun \subseteq Subs /\ s \in Nat /\ \A u \in Begun : u \in Nat
    BY SubsAssumption DEF Begun
  <2>2. \A t \in Begun, u \in Subs : u < t => u \in Begun
    BY <1>0 DEF Ordered
  <2>3. \A u \in Begun : ~(s < u)
    <3>1. s \notin Begun
      BY <1>1
    <3> QED
      BY <2>2, <3>1
  <2> QED
    BY <2>1, <2>3
<1>5. ~twins' => \A u \in Begun : stripe[u] = "canceled"
  BY <1>0, <1>1 DEF Tells, Begun, Alive, SubscriptionTypeOK, AtStripe
<1> HIDE DEF events
<1> QED
  BY <1>1, <1>2, <1>3, <1>4, <1>5, TellsStep DEF AtStripe

\* A payment fails or recovers, or a subscription ends.
LEMMA ChangeStep ==
  ASSUME SubInv, NEW s \in Live, moves' \in Nat, NEW st \in AtStripe \ {"none"},
         NEW events \in Seq(Mail), Tells(s, st, events), events # <<>>,
         \A n \in 1 .. Len(events) : events[n].sub = s /\ Plain(events[n]),
         events[Len(events)].status = st, events[Len(events)].type # "invoice.payment_failed"
  PROVE  SubInv'
<1>0. SubscriptionTypeOK /\ Ordered /\ Told
  BY DEF SubInv
<1>1. s \in Begun /\ s \in Subs /\ stripe[s] # "canceled"
  BY DEF Live, Begun, Alive
<1>2. mail # <<>>
  BY <1>0, <1>1, EmptySeq DEF Told, SubscriptionTypeOK
<1>3. \A u \in Subs : u < s => u \in Begun
  BY <1>0, <1>1 DEF Ordered
<1>4. ~twins => \A u \in Begun : u <= s /\ (u # s => stripe[u] = "canceled")
  BY <1>0, <1>1, <1>2 DEF Ordered
<1>5. twins => twins'
  BY DEF Tells
<1> QED
  BY <1>1, <1>3, <1>4, <1>5, TellsStep

\* A webhook is handled.
LEMMA HandleStep ==
  ASSUME SubInv, NEW n \in 1 .. Len(mail), HandleWebhook(n), moves' \in Nat,
         due' \subseteq due, due \ {n} \subseteq due'
  PROVE  SubInv'
<1>0. SubscriptionTypeOK /\ Told /\ AccessWasPaidFor /\ Ordered /\ InOrder
  BY DEF SubInv
<1>1. UNCHANGED <<stripe, mail, twins>> /\ Begun' = Begun
  BY DEF HandleWebhook, Begun
<1>2. mail[n] \in Mail /\ Len(mail) \in Nat /\ Plain(mail[n])
  <2>1. mail \in Seq(Mail)
    BY <1>0 DEF SubscriptionTypeOK, Mail
  <2> QED
    BY <1>0, <2>1, ElementOfSeq DEF Told
<1>3. /\ status' \in Statuses /\ customer' \in Subs \cup {0}
      /\ mail[n].type # "invoice.payment_failed" => status' = mail[n].status
  <2>1. mail[n].status \in Statuses \ {"incomplete"}
    BY <1>2 DEF Mail, AtStripe, Statuses, Plain
  <2>2. customer \in Subs \cup {0} /\ status \in Statuses
    BY <1>0 DEF SubscriptionTypeOK
  <2>3. CASE onCheckoutCompleted(mail[n])
    BY <1>2, <2>2, <2>3 DEF onCheckoutCompleted, Mail, Statuses, Plain
  <2>4. CASE onInvoicePaymentFailed(mail[n])
    BY <1>2, <2>2, <2>4 DEF onInvoicePaymentFailed, Statuses
  <2>5. CASE onSubscriptionUpdated(mail[n])
    BY <2>1, <2>2, <2>5 DEF onSubscriptionUpdated
  <2>6. CASE onSubscriptionDeleted(mail[n])
    BY <1>2, <2>2, <2>6 DEF onSubscriptionDeleted, Statuses, Plain
  <2> QED
    BY <2>3, <2>4, <2>5, <2>6 DEF HandleWebhook
<1>4. /\ newest' = IF n > newest THEN n ELSE newest
      /\ disorder' = (disorder \/ n < newest)
  BY DEF HandleWebhook
<1>5. SubscriptionTypeOK'
  <2>1. newest' \in 0 .. Len(mail) /\ disorder' \in BOOLEAN
    BY <1>0, <1>2, <1>4 DEF SubscriptionTypeOK
  <2> QED
    BY <1>0, <1>1, <1>3, <2>1 DEF SubscriptionTypeOK
<1>6. Told' /\ Ordered'
  BY <1>0, <1>1 DEF Told, Ordered
<1>7. Paid /\ Paid'
  BY <1>0, <1>1 DEF Told, Paid
<1>8. InOrder'
  <2>1. newest \in 0 .. Len(mail) /\ n \in Nat
    BY <1>0, <1>2 DEF SubscriptionTypeOK
  <2>2. ASSUME ~disorder' PROVE newest' = n /\ ~disorder
    <3>1. ~disorder /\ ~(n < newest)
      BY <1>4, <2>2
    <3> QED
      BY <1>2, <1>4, <2>1, <3>1
  <2>3. \A k \in 1 .. Len(mail) : k > newest' => k \in due'
    BY <1>0, <1>4, <2>1 DEF InOrder
  <2> QED
    BY <1>1, <1>3, <2>2, <2>3 DEF InOrder
<1> QED
  BY <1>5, <1>6, <1>7, <1>8 DEF SubInv, AccessWasPaidFor

\* Whatever happens to the subscription.
LEMMA SubscriptionPreserved ==
  ASSUME SubInv, SubscriptionStep \/ \E s \in Subs : Checkout(s)
  PROVE  SubInv'
<1>0. SubscriptionTypeOK /\ Told
  BY DEF SubInv
<1>1. ASSUME NEW s \in Subs, PaymentFails(s) PROVE SubInv'
  <2> DEFINE events ==
        <<Event("invoice.payment_failed", s, "past_due", CustomerOf(s)),
          Event("customer.subscription.updated", s, "past_due", CustomerOf(s))>>
  <2>1. s \in Live /\ s \in Begun /\ moves' \in Nat /\ Tells(s, "past_due", events)
    BY <1>0, <1>1 DEF PaymentFails, Live, Alive, Begun, Move, SubscriptionTypeOK
  <2>2. events \in Seq(Mail) /\ Len(events) = 2 /\ events # <<>>
    BY <1>0, <2>1, CustomerFacts DEF Event, Mail, EventTypes, AtStripe
  <2>3. /\ \A n \in 1 .. 2 : events[n].sub = s /\ Plain(events[n])
        /\ events[2].status = "past_due" /\ events[2].type # "invoice.payment_failed"
    BY DEF Event, Plain
  <2> HIDE DEF events
  <2> QED
    BY <2>1, <2>2, <2>3, ChangeStep DEF AtStripe
<1>2. ASSUME NEW s \in Subs, PaymentRecovers(s) PROVE SubInv'
  <2> DEFINE events == <<Event("customer.subscription.updated", s, "active", CustomerOf(s))>>
  <2>1. s \in Live /\ s \in Begun /\ moves' \in Nat /\ Tells(s, "active", events)
    BY <1>0, <1>2 DEF PaymentRecovers, Live, Alive, Begun, Move, SubscriptionTypeOK
  <2>2. events \in Seq(Mail) /\ Len(events) = 1 /\ events # <<>>
    BY <1>0, <2>1, CustomerFacts DEF Event, Mail, EventTypes, AtStripe
  <2>3. /\ \A n \in 1 .. 1 : events[n].sub = s /\ Plain(events[n])
        /\ events[1].status = "active" /\ events[1].type # "invoice.payment_failed"
    BY DEF Event, Plain
  <2> HIDE DEF events
  <2> QED
    BY <2>1, <2>2, <2>3, ChangeStep DEF AtStripe
<1>3. ASSUME NEW s \in Subs, Cancel(s) PROVE SubInv'
  <2> DEFINE events == <<Event("customer.subscription.deleted", s, "canceled", CustomerOf(s))>>
  <2>1. s \in Live /\ s \in Begun /\ moves' \in Nat /\ Tells(s, "canceled", events)
    BY <1>0, <1>3 DEF Cancel, Live, Alive, Begun, Move, SubscriptionTypeOK
  <2>2. events \in Seq(Mail) /\ Len(events) = 1 /\ events # <<>>
    BY <1>0, <2>1, CustomerFacts DEF Event, Mail, EventTypes, AtStripe
  <2>3. /\ \A n \in 1 .. 1 : events[n].sub = s /\ Plain(events[n])
        /\ events[1].status = "canceled" /\ events[1].type # "invoice.payment_failed"
    BY DEF Event, Plain
  <2> HIDE DEF events
  <2> QED
    BY <2>1, <2>2, <2>3, ChangeStep DEF AtStripe
<1>4. CASE Deliver
  <2>1. PICK n \in due : HandleWebhook(n) /\ due' = due \ {n}
    BY <1>4 DEF Deliver
  <2>2. n \in 1 .. Len(mail) /\ moves' \in Nat
    BY <1>0, <1>4 DEF Deliver, SubscriptionTypeOK
  <2> QED
    BY <2>1, <2>2, HandleStep
<1>5. CASE DeliverAgain
  <2>1. PICK n \in 1 .. Len(mail) : HandleWebhook(n) /\ due' = due
    BY <1>5 DEF DeliverAgain
  <2>2. moves' \in Nat
    BY <1>0, <1>5 DEF DeliverAgain, Move, SubscriptionTypeOK
  <2> QED
    BY <2>1, <2>2, HandleStep
<1> QED
  BY <1>1, <1>2, <1>3, <1>4, <1>5, CheckoutStep DEF SubscriptionStep

LEMMA SubscriptionStarts ==
  ASSUME SubscriptionInit
  PROVE  SubInv
<1>1. Begun = {} /\ mail = <<>> /\ Len(mail) = 0
  BY DEF SubscriptionInit, Begun
<1>2. SubscriptionTypeOK
  <2>1. <<>> \in Seq([type : EventTypes, sub : Subs, status : AtStripe, customer : Subs])
    BY EmptySeq
  <2>2. mail \in Seq([type : EventTypes, sub : Subs, status : AtStripe, customer : Subs])
    BY <1>1, <2>1
  <2>3. stripe \in [Subs -> AtStripe] /\ status \in Statuses
    BY DEF SubscriptionInit, AtStripe, Statuses
  <2>4. due \subseteq 1 .. Len(mail) /\ newest \in 0 .. Len(mail)
    BY <1>1 DEF SubscriptionInit
  <2>5. disorder \in BOOLEAN /\ twins \in BOOLEAN /\ moves \in Nat /\ customer \in Subs \cup {0}
    BY DEF SubscriptionInit
  <2> QED
    BY <2>2, <2>3, <2>4, <2>5 DEF SubscriptionTypeOK
<1> QED
  BY <1>1, <1>2
  DEF SubscriptionInit, SubInv, Told, AccessWasPaidFor, RequiresPayment, Ordered, InOrder

\* The rest of the program leaves the subscription alone.
LEMMA SubscriptionUntouched ==
  ASSUME SubInv, UNCHANGED subscriptionVars, moves' \in Nat
  PROVE  SubInv'
BY DEF SubInv, subscriptionVars, SubscriptionTypeOK, Told, AccessWasPaidFor, RequiresPayment, Paid,
       Begun, Ordered, InOrder

\* What was paid for stays so.
LEMMA PaidStays ==
  ASSUME SubInv, Paid,
         SubscriptionStep \/ (\E s \in Subs : Checkout(s)) \/ UNCHANGED subscriptionVars
  PROVE  Paid'
<1>1. CASE UNCHANGED subscriptionVars
  BY <1>1 DEF Paid, Begun, subscriptionVars
<1>2. ASSUME NEW s \in Subs, NEW st \in AtStripe \ {"none"}, stripe' = [stripe EXCEPT ![s] = st]
      PROVE  Paid'
  BY <1>2 DEF SubInv, SubscriptionTypeOK, Paid, Begun
<1>3. ASSUME NEW s \in Subs, Checkout(s) \/ PaymentFails(s) \/ PaymentRecovers(s) \/ Cancel(s)
      PROVE  Paid'
  BY <1>2, <1>3 DEF Checkout, PaymentFails, PaymentRecovers, Cancel, Tells, AtStripe
<1>4. CASE Deliver \/ DeliverAgain
  BY <1>4 DEF Deliver, DeliverAgain, HandleWebhook, Paid, Begun
<1> QED
  BY <1>1, <1>3, <1>4 DEF SubscriptionStep

\* In the end the status is that of the last subscription.
LEMMA StatusInTheEnd ==
  ASSUME SubInv
  PROVE  StatusFollowsStripe
<1> SUFFICES ASSUME due = {}, ~disorder, ~twins, Paid
             PROVE  status = stripe[CHOOSE s \in Begun : \A u \in Begun : u <= s]
  BY DEF StatusFollowsStripe
<1> DEFINE last == mail[Len(mail)]
<1>0. SubscriptionTypeOK /\ Told /\ Ordered /\ InOrder
  BY DEF SubInv
<1>1. mail # <<>> /\ Len(mail) \in Nat /\ Len(mail) > 0
  BY <1>0, EmptySeq DEF Told, Paid, SubscriptionTypeOK
<1>2. newest = Len(mail)
  BY <1>0, <1>1 DEF InOrder, SubscriptionTypeOK
<1>3. status = last.status /\ last.status = stripe[last.sub]
  BY <1>0, <1>1, <1>2 DEF InOrder, Ordered
<1>4. last.sub \in Begun /\ \A u \in Begun : u <= last.sub
  BY <1>0, <1>1 DEF Told, Ordered
<1>5. Begun \subseteq Nat
  BY SubsAssumption DEF Begun
<1>6. ASSUME NEW s \in Begun, \A u \in Begun : u <= s PROVE s = last.sub
  <2>1. s <= last.sub /\ last.sub <= s /\ s \in Nat /\ last.sub \in Nat
    BY <1>4, <1>5, <1>6
  <2> HIDE DEF last
  <2> QED
    BY <2>1
<1>7. (CHOOSE s \in Begun : \A u \in Begun : u <= s) = last.sub
  BY <1>4, <1>6
<1> QED
  BY <1>3, <1>7
=============================================================================
