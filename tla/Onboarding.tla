----------------------------- MODULE Onboarding -----------------------------
(***************************************************************************)
(* A new tenant from sign-up to its dashboard: the wizard in the browser,  *)
(* the endpoints behind its pages, and the subscription that has to be     *)
(* paid first (Subscription).                                              *)
(*                                                                         *)
(* The server keeps the progress of a tenant in one row.  Every endpoint   *)
(* loads it, edits the copy and writes all of it back, a statement at a    *)
(* time; two of them also switch plugins on and off, one by one.  A        *)
(* request whose answer is lost goes on at the server while its page is    *)
(* free to send another.                                                   *)
(***************************************************************************)
EXTENDS Subscription

CONSTANTS
  Packs,       \* industry packs
  Modules,     \* modules that can be chosen
  Registered,  \* those there is a plugin for
  Required,    \* Required[p]: core modules and plugins of pack p
  Slots,       \* numbers of requests that may be under way at once
  Tabs         \* tabs of the browser

ASSUME PacksAssumption == Required \in [Packs -> SUBSET Modules]
ASSUME RequiredAssumption == \A p \in Packs : Required[p] # {}
ASSUME RegisteredAssumption == Registered \subseteq Modules
ASSUME SlotsAssumption == Slots \subseteq Nat \ {0}

VARIABLES
  seeded,    \* the row of onboarding_state is there
  row,       \* that row
  enabled,   \* plugins that are enabled for the tenant
  calls,     \* requests under way, with the copy of the row each has loaded
  tabs,      \* the pages
  accepted   \* history: the requests the server has carried out

serverVars == <<seeded, row, enabled, accepted>>
vars == <<subscriptionVars, moves, serverVars, calls, tabs>>

-----------------------------------------------------------------------------
(* onboarding.Service: what each endpoint makes of the row.                 *)
ResolveModulesForPacks(packs) == UNION {Required[p] : p \in packs}

CreateInitialState(pack) ==
  [step |-> "billing", done |-> {"signup"}, packs |-> {pack}, profile |-> FALSE,
   modules |-> {}, skipped |-> FALSE, completed |-> FALSE]

CompleteBilling(r) == [r EXCEPT !.done = @ \cup {"billing"}, !.step = "industry"]

SaveIndustry_StartsOver(r, packs) ==
  [r EXCEPT !.packs = packs, !.modules = ResolveModulesForPacks(packs),
            !.done = {"signup", "industry"}, !.step = "profile"]

\* The modules chosen before are forgotten.
SaveIndustry(r, packs) ==
  [r EXCEPT !.packs = packs, !.modules = ResolveModulesForPacks(packs),
            !.done = @ \cup {"industry"}, !.step = "profile"]

SaveProfile(r) ==
  [r EXCEPT !.profile = TRUE, !.done = @ \cup {"profile"}, !.step = "modules",
            !.modules = IF @ = {} THEN ResolveModulesForPacks(r.packs) ELSE @]

UpdateModules_AsChosen(r, chosen) ==
  [r EXCEPT !.modules = chosen, !.done = @ \cup {"modules"},
            !.step = IF r.completed THEN @ ELSE "setup"]

\* What the packs require is added to what was chosen.
UpdateModules(r, chosen) ==
  [r EXCEPT !.modules = chosen \cup ResolveModulesForPacks(r.packs),
            !.done = @ \cup {"modules"},
            !.step = IF r.completed THEN @ ELSE "setup"]

SkipSetup(r) ==
  [r EXCEPT !.skipped = TRUE, !.done = @ \cup {"setup"}, !.step = "complete"]

Complete(r) ==
  [r EXCEPT !.completed = TRUE, !.done = @ \cup {"complete"}, !.step = "complete",
            !.modules = IF @ = {} THEN ResolveModulesForPacks(r.packs) ELSE @]

-----------------------------------------------------------------------------
(* Requests.                                                                *)
Kinds == {"billing", "industry", "profile", "modules", "skip", "complete"}

Request(kind, packs, chosen, from) ==
  [kind |-> kind, packs |-> packs, chosen |-> chosen, from |-> from, stage |-> "asked",
   copy |-> row, todo |-> {}, crossed |-> FALSE, slipped |-> FALSE]
Free == [kind |-> "none", packs |-> {}, chosen |-> {}, from |-> "none", stage |-> "free",
         copy |-> [CreateInitialState("none") EXCEPT !.packs = {}], todo |-> {},
         crossed |-> FALSE, slipped |-> FALSE]

FreeSlots == {c \in Slots : calls[c].stage = "free"}
IsFreeSlot(c) == c \in FreeSlots /\ \A d \in FreeSlots : c <= d

Edited(c) ==
  LET q == calls[c] IN
  CASE q.kind = "billing"  -> CompleteBilling(row)
    [] q.kind = "industry" -> SaveIndustry(row, q.packs)
    [] q.kind = "profile"  -> SaveProfile(row)
    [] q.kind = "modules"  -> UpdateModules(row, q.chosen)
    [] q.kind = "skip"     -> SkipSetup(row)
    [] q.kind = "complete" -> Complete(row)

\* A request that has its copy does not see what others do from then on.
Holds(d) == calls[d].stage \in {"loaded", "provisioning"}

Goes(c, new) ==
  calls' = [d \in Slots |->
    IF d = c THEN new
    ELSE IF Holds(d) THEN [calls[d] EXCEPT !.crossed = TRUE] ELSE calls[d]]

Quietly(c, new) == calls' = [calls EXCEPT ![c] = new]

Sound(q) ==
  /\ q.kind = "industry" => q.packs # {}
  /\ q.kind = "modules" => q.chosen # {}
Allowed_Always(q) == TRUE
Allowed(q) == q.kind = "billing" => IsSubscriptionActive(status)

\* CompleteBilling looks at the subscription in a statement of its own.
CheckPayment(c) ==
  /\ calls[c].stage = "asked" /\ calls[c].kind = "billing" /\ Allowed(calls[c])
  /\ Quietly(c, [calls[c] EXCEPT !.stage = "checked"])
  /\ UNCHANGED serverVars

Already(c) == calls[c].kind = "complete" /\ row.completed

LoadState(c) ==
  LET q == calls[c] IN
  /\ q.stage = IF q.kind = "billing" THEN "checked" ELSE "asked"
  /\ seeded /\ Sound(q) /\ ~Already(c)
  /\ Quietly(c, [q EXCEPT !.copy = Edited(c),
       !.stage = IF q.kind = "complete" THEN "provisioning" ELSE "loaded",
       !.todo = IF q.kind = "complete" THEN Registered ELSE {}])
  /\ UNCHANGED serverVars

\* Completed before: the answer is the same, and nothing is provisioned.
AnswerAlready(c) ==
  /\ calls[c].stage = "asked" /\ seeded /\ Already(c)
  /\ Quietly(c, [calls[c] EXCEPT !.copy = row, !.stage = "ok"])
  /\ UNCHANGED serverVars

Refuse(c) ==
  LET q == calls[c] IN
  /\ \/ q.stage = "asked" /\ (~Sound(q) \/ ~Allowed(q))
     \/ q.stage \in {"asked", "checked"} /\ ~seeded
  /\ Quietly(c, [q EXCEPT !.stage = "refused"])
  /\ UNCHANGED serverVars

\* One UPDATE of all columns.
SaveState(c, next) ==
  /\ row' = calls[c].copy
  /\ accepted' = accepted \cup {calls[c].kind}
  /\ Goes(c, next)
  /\ UNCHANGED <<seeded, enabled>>

Save(c) ==
  /\ calls[c].stage = "loaded"
  /\ SaveState(c, IF calls[c].kind = "modules"
                  THEN [calls[c] EXCEPT !.stage = "provisioning", !.todo = Registered]
                  ELSE [calls[c] EXCEPT !.stage = "ok"])

(* provisionPlugins: a statement for each plugin, those that are enabled    *)
(* first.  An error there ends the request; one in disabling goes unseen.   *)
Wanted(c) == calls[c].todo \cap calls[c].copy.modules
NextPlugins(c) == IF Wanted(c) # {} THEN Wanted(c) ELSE calls[c].todo

ProvisionOne_OnlyEnables(c, id) ==
  /\ calls[c].stage = "provisioning" /\ id \in NextPlugins(c)
  /\ enabled' = IF id \in Wanted(c) THEN enabled \cup {id} ELSE enabled
  /\ Goes(c, [calls[c] EXCEPT !.todo = @ \ {id}])
  /\ UNCHANGED <<seeded, row, accepted>>

ProvisionOne(c, id) ==
  /\ calls[c].stage = "provisioning" /\ id \in NextPlugins(c)
  /\ enabled' = IF id \in Wanted(c) THEN enabled \cup {id} ELSE enabled \ {id}
  /\ Goes(c, [calls[c] EXCEPT !.todo = @ \ {id}])
  /\ UNCHANGED <<seeded, row, accepted>>

EnableFails(c) ==
  /\ calls[c].stage = "provisioning" /\ Wanted(c) # {}
  /\ Quietly(c, [calls[c] EXCEPT !.stage = "refused"])
  /\ UNCHANGED serverVars

DisableFails(c) ==
  /\ calls[c].stage = "provisioning" /\ Wanted(c) = {}
  /\ \E id \in calls[c].todo :
       Quietly(c, [calls[c] EXCEPT !.todo = @ \ {id}, !.slipped = TRUE])
  /\ UNCHANGED serverVars

Provisioned(c) ==
  /\ calls[c].stage = "provisioning" /\ calls[c].todo = {}
  /\ IF calls[c].kind = "complete"
     THEN SaveState(c, [calls[c] EXCEPT !.stage = "ok"])
     ELSE Quietly(c, [calls[c] EXCEPT !.stage = "ok"]) /\ UNCHANGED serverVars

\* Nobody is left to take the answer.
Forget(c) ==
  /\ calls[c].stage \in {"ok", "refused"} /\ \A t \in Tabs : c \notin tabs[t].calls
  /\ Quietly(c, Free)
  /\ UNCHANGED serverVars

Serve(c) ==
  /\ \/ CheckPayment(c) \/ LoadState(c) \/ AnswerAlready(c) \/ Refuse(c) \/ Save(c)
     \/ \E id \in Registered : ProvisionOne(c, id)
     \/ Provisioned(c) \/ Forget(c)
  /\ UNCHANGED <<subscriptionVars, moves, tabs>>

ServerFails(c) ==
  /\ EnableFails(c) \/ DisableFails(c)
  /\ Move
  /\ UNCHANGED <<subscriptionVars, tabs>>

-----------------------------------------------------------------------------
(* The browser.  guard is that of SubscriptionGuard: nothing is rendered    *)
(* while it is "loading"; saver is the request the page on display waits    *)
(* for; cached is what the browser knows of completion.                     *)
Wizard == <<"billing", "industry", "profile", "modules", "setup", "complete">>
StepsAfter(p) == {i \in 1 .. 6 : \E j \in 1 .. i - 1 : Wizard[j] = p}
nextStep(p) == Wizard[CHOOSE i \in StepsAfter(p) : \A j \in StepsAfter(p) : i <= j]
prevStep(p) == Wizard[CHOOSE i \in 1 .. 5 : Wizard[i + 1] = p]

Tab(p) == [page |-> p, guard |-> "loading", saver |-> 0, calls |-> {}, failed |-> FALSE,
           cached |-> FALSE, load |-> "none", overtaken |-> FALSE, open |-> FALSE]

\* The page is rendered; two pages send a request at once.
Mounts(p) == p \in {"success", "complete"}

Mount(t, tab, c, p) ==
  IF Mounts(p)
  THEN /\ IsFreeSlot(c) \/ c \in tabs[t].calls \ tab.calls
       /\ calls' = [calls EXCEPT ![c] =
            Request(IF p = "success" THEN "billing" ELSE "complete", {}, {}, p)]
       /\ tabs' = [tabs EXCEPT ![t] =
            [tab EXCEPT !.page = p, !.saver = c, !.calls = @ \cup {c}, !.failed = FALSE,
                        !.load = IF p = "complete" THEN "asked" ELSE "none"]]
  ELSE /\ calls' = IF c \in tabs[t].calls \ tab.calls THEN [calls EXCEPT ![c] = Free] ELSE calls
       /\ tabs' = [tabs EXCEPT ![t] =
            [tab EXCEPT !.page = p, !.saver = 0, !.failed = FALSE, !.load = "none"]]

\* router.push: the guard asks again, and the page is rendered meanwhile.
Push(t, tab, c, p) == Mount(t, [tab EXCEPT !.guard = "checking"], c, p)

Quiet(t, tab) == tabs' = [tabs EXCEPT ![t] = tab] /\ UNCHANGED calls

\* An address is opened; the others are reached from these.
Visit(t, p) ==
  /\ p \in {"success", "industry", "settings"}
  /\ tabs[t].calls = {} /\ Move
  /\ Quiet(t, [Tab(p) EXCEPT !.cached = tabs[t].cached])
  /\ UNCHANGED <<subscriptionVars, serverVars>>

Stays(t) ==
  LET p == tabs[t].page IN
  /\ RequiresDunning(status) => p \in {"dunning", "success"}
  /\ RequiresPayment(status) => p \in {"billing", "success"}

\* Who may not stay is sent to another page, where the guard asks again.
SubscriptionGuard(t) ==
  LET tab == tabs[t]
      passed == [tab EXCEPT !.guard = "passed", !.open = FALSE]
  IN
  /\ tab.guard # "passed"
  /\ IF ~Stays(t)
     THEN Quiet(t, [tab EXCEPT !.page = IF RequiresDunning(status) THEN "dunning" ELSE "billing",
                               !.saver = 0, !.load = "none", !.failed = FALSE])
     ELSE IF tab.guard = "loading"
     THEN \E c \in Slots : Mount(t, passed, c, tab.page)
     ELSE Quiet(t, passed)
  /\ UNCHANGED <<subscriptionVars, moves, serverVars>>

\* The status cannot be read: the guard lets everybody through.
GuardFails(t) ==
  /\ tabs[t].guard # "passed" /\ Move
  /\ LET open == [tabs[t] EXCEPT !.guard = "passed", !.open = TRUE] IN
     IF tabs[t].guard = "loading" THEN \E c \in Slots : Mount(t, open, c, tabs[t].page)
     ELSE Quiet(t, open)
  /\ UNCHANGED <<subscriptionVars, serverVars>>

Rendered(t, p) == tabs[t].page = p /\ tabs[t].guard # "loading"

\* Stripe's page for the payment takes the tab with it, and brings it back.
PayPlan(t) ==
  /\ Rendered(t, "billing") /\ tabs[t].calls = {}
  /\ \E s \in Subs : Checkout(s)
  /\ Quiet(t, [Tab("success") EXCEPT !.cached = tabs[t].cached])
  /\ UNCHANGED serverVars

SeesPaid(t) ==
  /\ Rendered(t, "billing") /\ ~RequiresPayment(status)
  /\ \E c \in Slots : Push(t, tabs[t], c, nextStep("billing"))
  /\ UNCHANGED <<subscriptionVars, moves, serverVars>>

Press(t, q) ==
  /\ tabs[t].saver = 0
  /\ \E c \in Slots :
       /\ IsFreeSlot(c)
       /\ calls' = [calls EXCEPT ![c] = q]
       /\ tabs' = [tabs EXCEPT ![t].saver = c, ![t].calls = @ \cup {c}, ![t].failed = FALSE]
  /\ UNCHANGED <<subscriptionVars, serverVars>>

saveIndustry(t) ==
  /\ Rendered(t, "industry") /\ Move
  /\ \E packs \in SUBSET Packs \ {{}} : Press(t, Request("industry", packs, {}, "industry"))
saveProfile(t) ==
  Rendered(t, "profile") /\ Move /\ Press(t, Request("profile", {}, {}, "profile"))
saveModules(t) ==
  /\ Move
  /\ \E p \in {"modules", "settings"}, chosen \in SUBSET Modules :
       Rendered(t, p) /\ Press(t, Request("modules", {}, chosen, p))
skipSetup(t) ==
  Rendered(t, "setup") /\ Move /\ Press(t, Request("skip", {}, {}, "setup"))
tryAgain(t) ==
  /\ UNCHANGED moves
  /\ Rendered(t, "complete") /\ tabs[t].failed
  /\ Press(t, Request("complete", {}, {}, "complete"))

\* "Continue" on the set-up page: local storage only, no request.
saveSetup(t) ==
  /\ Rendered(t, "setup") /\ tabs[t].saver = 0
  /\ \E c \in Slots : Push(t, tabs[t], c, "complete")
  /\ UNCHANGED <<subscriptionVars, moves, serverVars>>

\* Not disabled while the page waits: the handler it leaves behind goes on.
onBack(t) ==
  /\ tabs[t].page \in {"profile", "modules", "setup"} /\ Move
  /\ \E c \in Slots : Push(t, tabs[t], c, prevStep(tabs[t].page))
  /\ UNCHANGED <<subscriptionVars, serverVars>>

\* The handler of a step goes to the next one even when its page is no longer
\* there; those of the pages "success", "complete" and "settings" do not.
Answered(t, c) ==
  LET q == calls[c]
      tab == [tabs[t] EXCEPT !.calls = @ \ {c}, !.saver = IF @ = c THEN 0 ELSE @,
                             !.cached = q.copy.completed]
  IN
  /\ c \in tabs[t].calls /\ q.stage = "ok"
  /\ IF q.from = "settings" \/ (Mounts(q.from) /\ tabs[t].saver # c) \/ q.from = "complete"
     THEN tabs' = [tabs EXCEPT ![t] = tab] /\ calls' = [calls EXCEPT ![c] = Free]
     ELSE Push(t, tab, c, IF q.from = "success" THEN "industry" ELSE nextStep(q.from))
  /\ UNCHANGED <<subscriptionVars, moves, serverVars>>

Failed_Silently(t, c) ==
  [tabs[t] EXCEPT !.calls = @ \ {c}, !.saver = IF @ = c THEN 0 ELSE @]

Failed(t, c) ==
  [tabs[t] EXCEPT !.calls = @ \ {c}, !.saver = IF @ = c THEN 0 ELSE @,
                  !.failed = @ \/ tabs[t].saver = c]

Rejected(t, c) ==
  /\ c \in tabs[t].calls /\ calls[c].stage = "refused"
  /\ tabs' = [tabs EXCEPT ![t] = Failed(t, c)]
  /\ calls' = [calls EXCEPT ![c] = Free]
  /\ UNCHANGED <<subscriptionVars, moves, serverVars>>

Lose_GoesOn(t, c) ==
  /\ c \in tabs[t].calls /\ calls[c].from \in {"industry", "profile", "modules"} /\ Move
  /\ tabs' = [tabs EXCEPT ![t] = [Failed(t, c) EXCEPT !.page = nextStep(calls[c].from)]]
  /\ calls' = [calls EXCEPT ![c] = Free]
  /\ UNCHANGED <<subscriptionVars, serverVars>>

\* The connection breaks.  A request that has been begun goes on.
Lose(t, c) ==
  /\ c \in tabs[t].calls /\ Move
  /\ tabs' = [tabs EXCEPT ![t] = Failed(t, c)]
  /\ calls' = [calls EXCEPT ![c] = IF @.stage \in {"asked", "ok", "refused"} THEN Free ELSE @]
  /\ UNCHANGED <<subscriptionVars, serverVars>>

\* GET /onboarding/status, which the page "complete" sends as it is rendered.
ServeStatus(t) ==
  /\ tabs[t].load = "asked"
  /\ Quiet(t, [tabs[t] EXCEPT !.load = IF ~seeded THEN "none"
                                       ELSE IF row.completed THEN "completed" ELSE "open"])
  /\ UNCHANGED <<subscriptionVars, moves, serverVars>>

ApplyStatus(t) ==
  LET completed == tabs[t].load = "completed" IN
  /\ tabs[t].load \in {"completed", "open"}
  /\ Quiet(t, [tabs[t] EXCEPT !.load = "none", !.cached = completed,
                              !.overtaken = @ \/ (tabs[t].cached /\ ~completed)])
  /\ UNCHANGED <<subscriptionVars, moves, serverVars>>

-----------------------------------------------------------------------------
(* Signup writes the tenant and its plugins in one transaction, the row of  *)
(* onboarding_state after it.                                               *)
Init ==
  /\ SubscriptionInit
  /\ seeded \in BOOLEAN
  /\ \E p \in Packs :
       /\ row = CreateInitialState(p)
       /\ enabled = Required[p]
  /\ calls = [c \in Slots |-> Free]
  /\ tabs = [t \in Tabs |-> Tab("billing")]
  /\ accepted = {}

Use(t) ==
  \/ \E p \in {"success", "industry", "settings"} : Visit(t, p)
  \/ PayPlan(t) \/ saveIndustry(t) \/ saveProfile(t) \/ saveModules(t) \/ skipSetup(t)
  \/ tryAgain(t) \/ saveSetup(t) \/ onBack(t)

React(t) ==
  \/ SubscriptionGuard(t) \/ GuardFails(t) \/ SeesPaid(t)
  \/ \E c \in Slots : Answered(t, c) \/ Rejected(t, c) \/ Lose(t, c)
  \/ ServeStatus(t) \/ ApplyStatus(t)

Next ==
  \/ \E t \in Tabs : Use(t) \/ React(t)
  \/ \E c \in Slots : Serve(c) \/ ServerFails(c)
  \/ SubscriptionStep /\ UNCHANGED <<serverVars, calls, tabs>>

Spec == Init /\ [][Next]_vars

-----------------------------------------------------------------------------
Steps == {"signup", "billing", "industry", "profile", "modules", "setup", "complete"}
RowType == [step : Steps, done : SUBSET Steps, packs : SUBSET Packs, profile : BOOLEAN,
            modules : SUBSET Modules, skipped : BOOLEAN, completed : BOOLEAN]
CallType ==
  [kind : Kinds \cup {"none"}, packs : SUBSET Packs, chosen : SUBSET Modules,
   from : Steps \cup {"none", "success", "settings"},
   stage : {"free", "asked", "checked", "loaded", "provisioning", "ok", "refused"},
   copy : RowType, todo : SUBSET Registered, crossed : BOOLEAN, slipped : BOOLEAN]
TabType ==
  [page : Steps \cup {"success", "settings", "dunning"},
   guard : {"loading", "checking", "passed"}, saver : Slots \cup {0}, calls : SUBSET Slots,
   failed : BOOLEAN, cached : BOOLEAN, load : {"none", "asked", "open", "completed"},
   overtaken : BOOLEAN, open : BOOLEAN]

(* The types of the variables.                                              *)
TypeOK ==
  /\ SubscriptionTypeOK
  /\ seeded \in BOOLEAN
  /\ row \in RowType
  /\ enabled \subseteq Modules
  /\ calls \in [Slots -> CallType]
  /\ tabs \in [Tabs -> TabType]
  /\ accepted \subseteq Kinds

(* Requests write the whole row from a copy that may be old, yet never a    *)
(* row that contradicts itself: once modules are chosen, those its packs    *)
(* require are among them, and a completed tenant has modules.              *)
Whole(r) ==
  /\ r.packs # {}
  /\ r.modules # {} => ResolveModulesForPacks(r.packs) \subseteq r.modules
  /\ r.completed => r.modules # {}
  /\ r.completed <=> "complete" \in r.done

RowIsWhole == Whole(row)

(* The billing step is never recorded for a tenant that has not paid, and   *)
(* nobody else has the use of the program.                                  *)
BillingNeedsPayment ==
  /\ AccessWasPaidFor
  /\ "billing" \in row.done => Paid

(* A page after a step is shown only when the server has carried the step   *)
(* out; the set-up step alone may be passed without.  A page after the      *)
(* payment is shown only to who has paid, unless the guard could not ask.   *)
ReachedBy(t, step) == tabs[t].page \in {Wizard[i] : i \in StepsAfter(step)}

AdvancedOnlyAfterSave ==
  \A t \in Tabs :
    /\ \A s \in {"industry", "profile", "modules"} : ReachedBy(t, s) => s \in accepted
    /\ tabs[t].guard = "passed" /\ ~tabs[t].open /\ ReachedBy(t, "billing") => Paid

(* The last page comes to an end: it welcomes the tenant or shows an error  *)
(* with a way to try again.  The one way to wait for ever is that its load, *)
(* answered before the completion, is applied after it.                     *)
CompletePageSettles ==
  \A t \in Tabs : LET tab == tabs[t] IN
    tab.page = "complete" /\ tab.saver = 0 /\ tab.load = "none" =>
      tab.cached \/ tab.failed \/ tab.overtaken

(* A request that wrote the row while no other did keeps all that had been  *)
(* recorded; what was completed stays so.                                   *)
Progress(r) ==
  r.done \cup {f \in {"profile", "skipped", "completed"} :
                 CASE f = "profile" -> r.profile
                   [] f = "skipped" -> r.skipped
                   [] f = "completed" -> r.completed}

LoneSaveKeepsProgress ==
  [][\A c \in Slots :
       Holds(c) /\ ~calls[c].crossed /\ row' = calls[c].copy /\ row' # row =>
         Progress(row) \subseteq Progress(row')]_vars

(* A request that provisions, and is told that all went well, leaves those  *)
(* plugins enabled that the row names: if no other request came between,    *)
(* and unless the error of disabling one was dropped, exactly those.        *)
OkMeansProvisioned ==
  [][\A c \in Slots :
       calls[c].stage = "provisioning" /\ calls'[c].stage = "ok" /\ ~calls[c].crossed =>
         /\ row'.modules \cap Registered \subseteq enabled'
         /\ calls[c].slipped \/ enabled' \cap Registered \subseteq row'.modules]_vars
=============================================================================
