----------------------------- MODULE FieldPages -----------------------------
(***************************************************************************)
(* The pages of the field app (apps/web/app/m), online.  What they do      *)
(* without a connection is in OfflineQueue.  The lists load again whenever *)
(* the device goes on line or off; a load that fails falls back on the     *)
(* copy kept in the browser, and is taken here to find nothing in it.      *)
(***************************************************************************)
EXTENDS Api

MobileHomePage == ReadOnly("rows")
MobileJobsPage == Emptied(Page("list", "keyed", {}))
\* Notes and completion have a flag each, so that both may be under way.
MobileJobDetailPage == Emptied(Page("data", "keyed",
  {Change(UpdateJob, {}, "saving", "upsert"),
   Change(CompleteJob, {"scheduled", "in_progress"}, "completing", "mark")}))
MobileExpensesPage == Page("open", "none", {Create(CreateExpense, Busy, "nothing")})
MobileSignaturePage == Emptied(Page("open", "keyed", {Create(CreateSignature, Busy, "add")}))
MobileVehiclePage == Emptied(Page("open", "keyed", {Create(CreateVehicleCheck, Busy, "add")}))
MobileTimePage == Page("open", "none", {Create(CreateTimesheet, Busy, "nothing")})

FieldScreens ==
  {MobileHomePage, MobileJobsPage, MobileJobDetailPage, MobileExpensesPage,
   MobileSignaturePage, MobileVehiclePage, MobileTimePage}
=============================================================================
