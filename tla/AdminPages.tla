----------------------------- MODULE AdminPages -----------------------------
(***************************************************************************)
(* The pages of the platform administrators (apps/admin/app).  Most exist  *)
(* twice, at the top and under /admin, with the same code.                 *)
(***************************************************************************)
EXTENDS Api

\* One flag for the three; the list is loaded again before it comes down.
Editor(loads, create, update, delete) == Page("list", loads,
  {Create(create, Busy, "reload"), Change(update, {}, Busy, "reload"),
   Change(delete, {}, Busy, "reload")})

\* One form with all settings, which can be saved once the load has ended.
Form(loads) == Page("ended", loads, {Change(UpdateSettings, {}, Busy, "put")})

PlansPage == Editor("once", CreatePlan, UpdatePlan, DeletePlan)
PromotionsPage == Editor("once", CreatePromotion, UpdatePromotion, DeletePromotion)
LandingPage == Editor("keyed", CreateLandingContent, UpdateLandingContent, DeleteLandingContent)
UsersPage == Editor("keyed", CreateUser, UpdateUser, DeleteUser)
AnnouncementsPage == Page("list", "once",
  {Create(CreateAnnouncement, "saving", "reload"), Change(UpdateAnnouncement, {}, "saving", "reload"),
   Change(UpdateAnnouncement, {}, NoFlag, "reload"), Change(DeleteAnnouncement, {}, NoFlag, "reload")})
TenantsPage == Page("list", "once", {Create(CreateTenant, Busy, "reload")})

TenantDetailPage == Page("data", "once",
  {Change(UpdateTenant, {}, Busy, "put"),
   Change(SuspendTenant("suspended"), {"active"}, Busy, "put"),
   Change(SuspendTenant("active"), {"suspended"}, Busy, "put")})

ConfigPage == Form("once")
BillingPage == Form("once")
IntegrationsPage == Form("once")
ModulesPage == Form("keyed")
DashboardPage == ReadOnly("open")
AuditPage == ReadOnly("list")

\* The copies under /admin differ in wording and layout only.
AdminPlansPage == PlansPage
AdminUsersPage == UsersPage
AdminTenantsPage == TenantsPage
AdminTenantDetailPage == TenantDetailPage
AdminBillingPage == BillingPage
AdminIntegrationsPage == IntegrationsPage
AdminDashboardPage == DashboardPage
AdminAuditPage == AuditPage

AdminScreens ==
  {PlansPage, PromotionsPage, LandingPage, UsersPage, AnnouncementsPage, TenantsPage,
   TenantDetailPage, ConfigPage, BillingPage, IntegrationsPage, ModulesPage, DashboardPage,
   AuditPage, AdminPlansPage, AdminUsersPage, AdminTenantsPage, AdminTenantDetailPage,
   AdminBillingPage, AdminIntegrationsPage, AdminDashboardPage, AdminAuditPage}
=============================================================================
