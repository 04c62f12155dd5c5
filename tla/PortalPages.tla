---------------------------- MODULE PortalPages ----------------------------
(***************************************************************************)
(* The pages of the customer portal (apps/web/app/portal).                 *)
(***************************************************************************)
EXTENDS Api

PortalQuotesPage == ReadOnly("rows")
PortalQuoteDetailPage ==
  Page("data", "once", {Change(PortalAcceptQuote, {"sent"}, Busy, "reload")})

\* Without Stripe the page confirms the payment itself; with Stripe the
\* browser goes to its checkout.
Pay(from) ==
  {Then(Change(CreatePaymentIntent, {from}, RowSlot, "nothing"), ConfirmPayment, {}, "reload"),
   Change(CreatePaymentIntent, {from}, RowSlot, "leave")}

PortalInvoicesPage == Page("rows", "once", Pay("sent"))
\* It calls a sent invoice a pending payment.
PortalPaymentsPage == Page("rows", "once", Pay("sent"))
\* The rows are the slots of the week, shown when they are loaded; the page
\* leaves out those that are booked.
PortalSchedulePage == Page("rows", "once",
  {Change(CreateScheduleBooking, {"free"}, Busy, "reload")})
PortalBookingsPage == ReadOnly("rows")
PortalDocumentsPage == ReadOnly("rows")
PortalHistoryPage == ReadOnly("rows")
PortalMessagesPage == ReadOnly("rows")
PortalSupportPage == Page("open", "none", {Create(CreateSupportRequest, Busy, "nothing")})
PortalProfilePage == Page("open", "once", {Change(UpdateMe, {}, Busy, "put")})

PortalScreens ==
  {PortalQuotesPage, PortalQuoteDetailPage, PortalInvoicesPage, PortalPaymentsPage,
   PortalSchedulePage, PortalBookingsPage, PortalDocumentsPage, PortalHistoryPage,
   PortalMessagesPage, PortalSupportPage, PortalProfilePage}
=============================================================================
