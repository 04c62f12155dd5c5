-------------------------------- MODULE Api --------------------------------
(***************************************************************************)
(* The handlers of the API that pages call, reduced to what they do to the *)
(* status of one row and to how they test it (see PageKit).  Rows are      *)
(* "kept" if they have no status, or one that nothing tests: leads, phases *)
(* of a clean, recurring work.  A handler is choosy if it can refuse       *)
(* something the pages send it of a row with the right status.             *)
(***************************************************************************)
EXTENDS PageKit

-----------------------------------------------------------------------------
(* Construction.                                                            *)
CreateProject == Insert("active")
CreateChangeOrder == Insert("draft")
SubmitChangeOrder == Guarded("draft", "pending")
ApproveChangeOrder == Guarded("pending", "approved")
RejectChangeOrder == Guarded("pending", "rejected")
CreateMilestone == Insert("pending")
UpdateMilestone == Blind({"completed"})    \* the page asks for nothing else
CreateDailyLog == Insert("kept")
UploadDailyLogPhoto == Insert("kept")
CreateSubcontractor == Insert("active")
CreatePermit == Insert("draft")
CreateLienWaiver == Insert("draft")
CreateRFI == Insert("open")

-----------------------------------------------------------------------------
(* CRM.                                                                     *)
CreateCustomer == Insert("kept")
UpdateCustomer == Blind(Same)
CreateLead == Insert("kept")
UpdateLead == Choosy(Blind(Same))      \* is it a known status?
CreateContract == Insert("draft")
\* The customer's primary property loses its mark first.
CreateCustomerProperty == Insert("kept")
UpdateCustomerProperty == Blind({"kept"})
CreatePrimaryProperty == Sole(Insert("primary"), "kept")
UpdatePrimaryProperty == Sole(Blind({"primary"}), "kept")

-----------------------------------------------------------------------------
(* Dispatch.                                                                *)
CreateWorkOrder == Insert("open")
WorkOrderStatuses == {"open", "assigned"}   \* those after it are like "assigned"
ChangeWorkOrder == Blind(WorkOrderStatuses)
AssignWorkOrder == Blind({"assigned"})
CreateAssignment == Insert("kept")

-----------------------------------------------------------------------------
(* Estimating and invoicing.                                                *)
CreateEstimate == Insert("draft")
UpdateEstimate == Checked({"draft"}, Same)          \* its lines
UpdateEstimateProperty == Choosy(UpdateEstimate)    \* is it the customer's?
Calculate == Checked({}, Same)       \* in any status
SendQuote == Guarded("draft", "sent")
AcceptQuote == Guarded("sent", "accepted")
AcceptPublicQuote == Guarded("sent", "accepted")
CreatePriceBook == Insert("kept")
ImportPriceBook == Insert("kept")
CreateTakeoff == Insert("kept")
CreateInvoice == Insert("draft")
SendInvoice == Guarded("draft", "sent")
PayInvoice == Guarded("sent", "paid")

-----------------------------------------------------------------------------
(* Expenses, job costing, payroll.                                          *)
CreateExpense == Insert("pending")
ApproveExpense == Guarded("pending", "approved")
CreateJobCost == Insert("kept")
CreateEmployee == Insert("active")
UpdateEmployee == Choosy(Checked({}, Same))   \* is the user known, and free?
SubmitTimesheet == GuardedAny({"draft", "open"}, "submitted")
ApproveTimesheet == Guarded("submitted", "approved")
CreateTimesheet == Insert("open")
CreatePayrollRun == Insert("draft")
SubmitPayrollRun == Guarded("draft", "processing")
\* One handler, for an employee without a profile and with one.
CreateTaxProfile == Insert("kept")
UpsertTaxProfile == Choosy(Blind(Same))

-----------------------------------------------------------------------------
(* Scheduling and cleaning.                                                 *)
CreateJob == Insert("scheduled")
UpdateJob == Blind(Same)
CompleteJob == Blind({"completed"})    \* whatever the status was
CreateCrew == Insert("kept")
AddCrewMember == Insert("kept")
RemoveCrewMember == Delete
CreateRecurringJob == Insert("kept")
UpdateRecurringJob == Blind(Same)
CreateRecurringClean == Insert("kept")
CreateCleanPhase == Insert("kept")
UpdateCleanPhase == Choosy(Blind(Same))
UpdateCleanChecklist == Choosy(Checked({}, Same))
CreateSignature == Insert("kept")
CreateVehicleCheck == Insert("kept")
UploadJobPhoto == Insert("kept")
UpdateSupply == Choosy(Blind(Same))

-----------------------------------------------------------------------------
(* Communications, notifications, integrations, support.                    *)
CreateTemplate == Insert("kept")
UpdateTemplate == Choosy(Blind(Same))
DeleteTemplate == Delete
SendTest == Reads({})
MarkRead == Blind({"read"})
DisconnectIntegration == Blind({"disconnected"})
ConnectIntegration == Choosy(Blind({"pending"}))   \* is it configured?
PreviewTax == Choosy(Reads({}))         \* Avalara may refuse
CreateTicket == Insert("open")

-----------------------------------------------------------------------------
(* Customer portal.                                                         *)
PortalAcceptQuote == Guarded("sent", "accepted")
CreatePaymentIntent == Choosy(Reads({"sent"}))          \* Stripe may refuse
ConfirmPayment == Choosy(Guarded("sent", "paid"))       \* not with live payments
\* A row is a slot: the handler counts the jobs at its time, then inserts one.
CreateScheduleBooking == Choosy(Checked({"free"}, {"booked"}))
CreateSupportRequest == Insert("open")
UpdateMe == Blind(Same)

-----------------------------------------------------------------------------
(* Platform administration.  Its updates read the whole row, put the fields *)
(* of the request into it and write it back.                                *)
ReadMergeWrite == Checked({}, Same)
ValidatedMerge == Choosy(ReadMergeWrite)

CreatePlan == Insert("kept")
UpdatePlan == ValidatedMerge
DeletePlan == Delete
CreatePromotion == Insert("kept")
UpdatePromotion == ValidatedMerge
DeletePromotion == Delete
CreateLandingContent == Insert("kept")
UpdateLandingContent == ValidatedMerge
DeleteLandingContent == Delete
CreateUser == Insert("kept")
UpdateUser == ValidatedMerge
DeleteUser == Choosy(Checked({}, {"deleted"}))   \* not the last owner
CreateTenant == Insert("active")
\* One UPDATE for each field given; one that is refused, for an unknown plan,
\* leaves those before it done, which is left out here.
UpdateTenant == Choosy(Checked({}, Same))
SuspendTenant(status) == Checked({}, {status})
CreateAnnouncement == Insert("kept")
UpdateAnnouncement == ValidatedMerge
DeleteAnnouncement == Checked({}, {"deleted"})
UpdateSettings == ReadMergeWrite
=============================================================================
