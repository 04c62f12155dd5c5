----------------------------- MODULE StaffPages -----------------------------
(***************************************************************************)
(* The pages of the web app for the office (apps/web/app), one definition  *)
(* for each page component, and one for each list inside a row that is     *)
(* loaded when the row is unfolded: members of a crew, photos of a log.    *)
(***************************************************************************)
EXTENDS Api

-----------------------------------------------------------------------------
(* Customers and sales.                                                     *)
CustomersPage == Page("open", "once", {Create(CreateCustomer, NoFlag, "add")})
CustomerDetailPage == Page("data", "once", {Change(UpdateCustomer, {}, Busy, "put")})
CustomerInvoicesPage == ReadOnly("data")
CustomerJobsPage == ReadOnly("data")
CustomerPropertiesPage == Page("data", "once",
  {Create(CreateCustomerProperty, Busy, "add"),
   Create(CreatePrimaryProperty, Busy, "oust"),
   Change(UpdateCustomerProperty, {}, Busy, "upsert"),
   Change(UpdatePrimaryProperty, {}, Busy, "oust")})
LeadsPage == Page("open", "once",
  {Create(CreateLead, NoFlag, "refetch"), Change(UpdateLead, {}, NoFlag, "refetch")})
LeadDetailPage == Page("data", "once",
  {Change(UpdateLead, {}, "updating", "put"), Change(UpdateLead, {}, "saving", "put")})
ContractsPage == Page("open", "once", {Create(CreateContract, Busy, "add")})

-----------------------------------------------------------------------------
(* Estimates.  Sending one with unsaved lines saves them first, by the      *)
(* function behind "save lines".                                            *)
EstimatesPage == ReadOnly("open")
EstimateDetailPage == Page("data", "once",
  {Change(UpdateEstimateProperty, {"draft"}, "savingProperty", "put"),
   Change(UpdateEstimate, {"draft"}, "saving", "put"),
   Change(SendQuote, {"draft"}, "acting", "put"),
   Then(Through(Change(UpdateEstimate, {"draft"}, "acting", "put"), "saving"),
        SendQuote, {}, "put"),
   Change(AcceptQuote, {"sent"}, "acting", "reload")})
EstimateCalculatePage == Page("data", "once",
  {Change(Calculate, {}, "calculating", "reload"),
   Change(SendQuote, {"draft"}, "sending", "leave")})
EstimatePreviewPage == ReadOnly("data")
EstimateNewReviewPage == Page("open", "none",
  {Create(CreateEstimate, Busy, "leave"),
   Then(Create(CreateEstimate, Busy, "nothing"), SendQuote, {}, "leave")})
PriceBookPage == Page("open", "once", {Create(CreatePriceBook, Busy, "add")})
PriceBookImportPage == Page("open", "none", {Create(ImportPriceBook, Busy, "nothing")})
TakeoffPage == Page("open", "once", {Create(CreateTakeoff, Busy, "add")})

-----------------------------------------------------------------------------
(* Money.                                                                   *)
InvoicesPage == Page("open", "once", {Create(CreateInvoice, Busy, "add")})
InvoiceDetailPage == Page("data", "once",
  {Change(SendInvoice, {"draft"}, Busy, "put"), Change(PayInvoice, {"sent"}, Busy, "reload")})
InvoicePreviewPage == ReadOnly("data")
PaymentsPage == ReadOnly("open")
ExpensesPage == Page("open", "once",
  {Create(CreateExpense, NoFlag, "add"), Change(ApproveExpense, {"pending"}, NoFlag, "put")})
JobCostingPage == Page("open", "once", {Create(CreateJobCost, NoFlag, "add")})
AccountsPayablePage == Emptied(ReadOnly("open"))
AccountsReceivablePage == Emptied(ReadOnly("open"))
ChartOfAccountsPage == Emptied(ReadOnly("open"))
PurchaseOrdersPage == ReadOnly("open")

-----------------------------------------------------------------------------
(* Payroll.                                                                 *)
PayrollEmployeesPage == Page("open", "once",
  {Create(CreateEmployee, "creating", "add"), Change(UpdateEmployee, {}, "savingLink", "put")})
\* The form picks an employee, who has a profile or none.  Left out: somebody
\* else has made the profile meanwhile, and the page does not show it.
TaxWithholdingPage == Page("open", "once",
  {Create(CreateTaxProfile, Busy, "upsert"), Change(UpsertTaxProfile, {}, Busy, "upsert")})
TimesheetsPage == Page("open", "once",
  {Change(SubmitTimesheet, {"draft", "open"}, RowSlot, "put"),
   Change(ApproveTimesheet, {"submitted"}, RowSlot, "put")})
PayrollRunsPage == Page("open", "once",
  {Create(CreatePayrollRun, Busy, "add"), Change(SubmitPayrollRun, {"draft"}, RowSlot, "put")})

-----------------------------------------------------------------------------
(* Construction.                                                            *)
ProjectsPage == Page("open", "once", {Create(CreateProject, NoFlag, "add")})
ProjectDetailPage == ReadOnly("data")
ProjectDailyLogsPage == Page("data", "once", {Create(CreateDailyLog, Busy, "add")})
\* The variable for the log that uploads holds one log: it frees this one when
\* the upload to another ends.  (Of a log just created the photos are known.)
DailyLogPhotosPanel == Page("open", "lazy", {Create(UploadDailyLogPhoto, NoFlag, "add")})
ChangeOrdersPage == Page("open", "once",
  {Create(CreateChangeOrder, NoFlag, "add"),
   Change(SubmitChangeOrder, {"draft"}, NoFlag, "put"),
   Change(ApproveChangeOrder, {"pending"}, NoFlag, "put"),
   Change(RejectChangeOrder, {"pending"}, NoFlag, "put")})
MilestonesPage == Page("open", "once",
  {Create(CreateMilestone, NoFlag, "add"), Change(UpdateMilestone, {"pending"}, NoFlag, "put")})
SubcontractorsPage == Page("open", "once", {Create(CreateSubcontractor, Busy, "add")})
PermitsPage == Page("open", "once", {Create(CreatePermit, NoFlag, "add")})
LienWaiversPage == Page("open", "once", {Create(CreateLienWaiver, NoFlag, "add")})
RFIsPage == Page("open", "once", {Create(CreateRFI, NoFlag, "add")})

-----------------------------------------------------------------------------
(* Jobs, crews and dispatch.                                                *)
JobsPage == Page("open", "once", {Create(CreateJob, NoFlag, "add")})
SchedulePage == ReadOnly("open")
ScheduleMapPage == ReadOnly("open")
RoutesPage == ReadOnly("open")
RecurringPage == Page("open", "once",
  {Create(CreateRecurringJob, NoFlag, "add"), Change(UpdateRecurringJob, {}, NoFlag, "put")})
CrewsPage == Page("open", "once", {Create(CreateCrew, NoFlag, "add")})
\* As with photos, the variable for the crew that grows holds one crew.
CrewMembersPanel == Page("open", "lazy",
  {Create(AddCrewMember, NoFlag, "add"), Change(RemoveCrewMember, {}, NoFlag, "drop")})
WorkOrdersPage == Page("open", "once", {Create(CreateWorkOrder, NoFlag, "add")})

\* An order that was shown as open when the technician was chosen is set to
\* assigned by a second call.
WorkOrderDetailPage == Page("data", "once",
  {Change(ChangeWorkOrder, {}, "updatingStatus", "put"),
   Then(Change(CreateAssignment, {}, "assigning", "add"), AssignWorkOrder, {"open"}, "put")})
DispatchPage == Page("open", "once",
  {Then(Change(CreateAssignment, {"open"}, RowSlot, "nothing"), AssignWorkOrder, {}, "reload"),
   Change(CreateAssignment, {"assigned"}, RowSlot, "reload")})

-----------------------------------------------------------------------------
(* Cleaning.                                                                *)
CleaningJobsPage == ReadOnly("rows")
CleaningJobDetailPage == Page("data", "once",
  {Change(UpdateCleanChecklist, {}, "saving", "put"),
   Change(UploadJobPhoto, {}, "uploading", "add")})
CleaningQcPage == ReadOnly("rows")
CleaningSuppliesPage == Page("rows", "once", {Change(UpdateSupply, {}, RowSlot, "put")})
CleanPhasesPage == Page("open", "once",
  {Create(CreateCleanPhase, NoFlag, "add"), Change(UpdateCleanPhase, {}, NoFlag, "put")})
RecurringCleansPage == Page("open", "once", {Create(CreateRecurringClean, NoFlag, "add")})

-----------------------------------------------------------------------------
(* Overviews, settings and help.                                            *)
DashboardPage == ReadOnly("open")
OwnerDashboardPage == ReadOnly("rows")
DispatcherDashboardPage == ReadOnly("rows")
AccountantDashboardPage == ReadOnly("rows")
ReportsPage == ReadOnly("rows")
MarketplacePage == ReadOnly("rows")
NotificationsPage == Page("open", "once", {Change(MarkRead, {"unread"}, NoFlag, "put")})
SettingsUsersPage == ReadOnly("rows")
SettingsTemplatesPage == Page("list", "once",
  {Create(CreateTemplate, "saving", "add"), Change(UpdateTemplate, {}, "saving", "put"),
   Change(DeleteTemplate, {}, NoFlag, "drop"), Change(SendTest, {}, "testSending", "nothing")})
\* Without what it does on return from a provider, before any control is used.
IntegrationsSettingsPage == Page("list", "once",
  {Change(ConnectIntegration, {"disconnected", "pending"}, RowSlot, "leave"),
   Change(DisconnectIntegration, {"connected"}, RowSlot, "reload"),
   Change(PreviewTax, {}, RowSlot, "nothing")})
HelpSupportPage == Emptied(Page("open", "keyed", {Create(CreateTicket, Busy, "refetch")}))
PublicQuoteView == Page("data", "once",
  {Fatal(Change(AcceptPublicQuote, {"sent"}, Busy, "reload"))})

StaffScreens ==
  {CustomersPage, CustomerDetailPage, CustomerInvoicesPage, CustomerJobsPage,
   CustomerPropertiesPage, LeadsPage, LeadDetailPage, ContractsPage, EstimatesPage,
   EstimateDetailPage, EstimateCalculatePage, EstimatePreviewPage, EstimateNewReviewPage,
   PriceBookPage, PriceBookImportPage, TakeoffPage, InvoicesPage, InvoiceDetailPage,
   InvoicePreviewPage, PaymentsPage, ExpensesPage, JobCostingPage, AccountsPayablePage,
   AccountsReceivablePage, ChartOfAccountsPage, PurchaseOrdersPage, PayrollEmployeesPage,
   TaxWithholdingPage, TimesheetsPage, PayrollRunsPage, ProjectsPage, ProjectDetailPage,
   ProjectDailyLogsPage, DailyLogPhotosPanel, ChangeOrdersPage, MilestonesPage,
   SubcontractorsPage, PermitsPage, LienWaiversPage, RFIsPage, JobsPage, SchedulePage, ScheduleMapPage, RoutesPage,
   RecurringPage, CrewsPage, CrewMembersPanel, WorkOrdersPage, WorkOrderDetailPage, DispatchPage,
   CleaningJobsPage, CleaningJobDetailPage, CleaningQcPage, CleaningSuppliesPage,
   CleanPhasesPage, RecurringCleansPage, DashboardPage, OwnerDashboardPage,
   DispatcherDashboardPage, AccountantDashboardPage, ReportsPage, MarketplacePage,
   NotificationsPage, SettingsUsersPage, SettingsTemplatesPage, IntegrationsSettingsPage,
   HelpSupportPage, PublicQuoteView}
=============================================================================
