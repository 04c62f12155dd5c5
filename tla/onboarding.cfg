SPECIFICATION Spec
CONSTANTS
  Subs = {1, 2}
  MaxMail = 4
  MaxMoves = 5
  cleaning = cleaning
  construction = construction
  crm = crm
  jobcosting = jobcosting
  Packs = {cleaning, construction}
  Modules = {crm, jobcosting}
  Registered = {crm, jobcosting}
  Required <- TwoPacks
  Slots = {1, 2}
  Tabs = {1}
SYMMETRY Symmetry
INVARIANTS
  TypeOK
  RowIsWhole
  BillingNeedsPayment
  StatusFollowsStripe
  AdvancedOnlyAfterSave
  CompletePageSettles
PROPERTIES
  LoneSaveKeepsProgress
  OkMeansProvisioned
CHECK_DEADLOCK FALSE
