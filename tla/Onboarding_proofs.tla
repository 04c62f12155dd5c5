------------------------- MODULE Onboarding_proofs -------------------------
(***************************************************************************)
(* Proofs about onboarding, for any packs and modules, any number of       *)
(* requests under way, tabs, subscriptions, webhooks and faults.           *)
(*                                                                         *)
(* Server and browser meet in "calls" only: a step of the browser begins   *)
(* or abandons requests, a step of the server moves one of them on.        *)
(***************************************************************************)
EXTENDS Onboarding, Subscription_proofs

Types ==
  /\ seeded \in BOOLEAN
  /\ row \in RowType
  /\ enabled \subseteq Modules
  /\ calls \in [Slots -> CallType]
  /\ tabs \in [Tabs -> TabType]
  /\ accepted \subseteq Kinds

\* The pages that send each kind of request.
Sent(kind) ==
  CASE kind = "billing" -> {"success"}
    [] kind = "industry" -> {"industry"}
    [] kind = "profile" -> {"profile"}
    [] kind = "modules" -> {"modules", "settings"}
    [] kind = "skip" -> {"setup"}
    [] kind = "complete" -> {"complete"}

Proper(q) == q.stage # "free" => q.kind \in Kinds /\ q.from \in Sent(q.kind)

\* A page waits for requests that are under way, and for none of another tab.
Linked ==
  \A t \in Tabs, c \in Slots : c \in tabs[t].calls =>
    /\ calls[c].stage # "free"
    /\ \A u \in Tabs : u # t => c \notin tabs[u].calls

Shape == Types /\ (\A c \in Slots : Proper(calls[c])) /\ Linked

-----------------------------------------------------------------------------
\* The wizard, page by page.
LEMMA WizardFacts ==
  /\ nextStep("billing") = "industry" /\ nextStep("industry") = "profile"
  /\ nextStep("profile") = "modules" /\ nextStep("modules") = "setup"
  /\ nextStep("setup") = "complete"
  /\ prevStep("profile") = "industry" /\ prevStep("modules") = "profile"
  /\ prevStep("setup") = "modules"
<1>1. /\ StepsAfter("billing") = 2 .. 6 /\ StepsAfter("industry") = 3 .. 6
      /\ StepsAfter("profile") = 4 .. 6 /\ StepsAfter("modules") = 5 .. 6
      /\ StepsAfter("setup") = 6 .. 6
  BY DEF StepsAfter, Wizard
<1>2. ASSUME NEW n \in 1 .. 6 PROVE (CHOOSE i \in n .. 6 : \A j \in n .. 6 : i <= j) = n
  <2>1. \A i \in n .. 6 : (\A j \in n .. 6 : i <= j) => i = n
    OBVIOUS
  <2>2. n \in n .. 6 /\ \A j \in n .. 6 : n <= j
    OBVIOUS
  <2> QED
    BY <2>1, <2>2
<1>3. /\ nextStep("billing") = Wizard[2] /\ nextStep("industry") = Wizard[3]
      /\ nextStep("profile") = Wizard[4] /\ nextStep("modules") = Wizard[5]
      /\ nextStep("setup") = Wizard[6]
  BY <1>1, <1>2 DEF nextStep
<1>4. /\ Wizard[1] = "billing" /\ Wizard[2] = "industry" /\ Wizard[3] = "profile"
      /\ Wizard[4] = "modules" /\ Wizard[5] = "setup" /\ Wizard[6] = "complete"
  BY DEF Wizard
<1>5. ASSUME NEW n \in 1 .. 5, NEW p, Wizard[n + 1] = p,
             \A i \in 1 .. 5 : Wizard[i + 1] = p => i = n
      PROVE  prevStep(p) = Wizard[n]
  BY <1>5 DEF prevStep
<1>6. /\ prevStep("profile") = Wizard[2] /\ prevStep("modules") = Wizard[3]
      /\ prevStep("setup") = Wizard[4]
  BY <1>5, <1>4
<1> QED
  BY <1>3, <1>4, <1>6

\* What the endpoints make of a row is a row.
LEMMA RowTypes ==
  ASSUME NEW r \in RowType, NEW packs \in SUBSET Packs, NEW chosen \in SUBSET Modules
  PROVE  /\ ResolveModulesForPacks(packs) \in SUBSET Modules
         /\ CompleteBilling(r) \in RowType /\ SaveIndustry(r, packs) \in RowType
         /\ SaveProfile(r) \in RowType /\ UpdateModules(r, chosen) \in RowType
         /\ SkipSetup(r) \in RowType /\ Complete(r) \in RowType
<1>1. \A ps \in SUBSET Packs : ResolveModulesForPacks(ps) \in SUBSET Modules
  BY PacksAssumption DEF ResolveModulesForPacks
<1>2. r.packs \in SUBSET Packs
  BY DEF RowType
<1>3. CompleteBilling(r) \in RowType /\ SkipSetup(r) \in RowType
  BY DEF CompleteBilling, SkipSetup, RowType, Steps
<1>4. SaveIndustry(r, packs) \in RowType
  BY <1>1 DEF SaveIndustry, RowType, Steps
<1>5. PICK ms \in SUBSET Modules : ms = ResolveModulesForPacks(r.packs)
  BY <1>1, <1>2
<1>6. PICK kept \in SUBSET Modules :
        kept = IF r.modules = {} THEN ResolveModulesForPacks(r.packs) ELSE r.modules
  BY <1>1, <1>2 DEF RowType
<1>7. SaveProfile(r) \in RowType
  <2>1. SaveProfile(r) = [r EXCEPT !.profile = TRUE, !.done = @ \cup {"profile"},
                                   !.step = "modules", !.modules = kept]
    BY <1>6 DEF SaveProfile
  <2>2. r.done \cup {"profile"} \in SUBSET Steps /\ "modules" \in Steps
    BY DEF RowType, Steps
  <2> QED
    BY <2>1, <2>2 DEF RowType
<1>8. UpdateModules(r, chosen) \in RowType
  <2>1. PICK to \in Steps : to = IF r.completed THEN r.step ELSE "setup"
    BY DEF RowType, Steps
  <2>2. r.done \cup {"modules"} \in SUBSET Steps /\ chosen \cup ms \in SUBSET Modules
    BY DEF RowType, Steps
  <2>3. UpdateModules(r, chosen) =
          [r EXCEPT !.modules = chosen \cup ms, !.done = @ \cup {"modules"}, !.step = to]
    BY <1>5, <2>1 DEF UpdateModules
  <2> QED
    BY <2>1, <2>2, <2>3 DEF RowType
<1>9. Complete(r) \in RowType
  <2>1. Complete(r) = [r EXCEPT !.completed = TRUE, !.done = @ \cup {"complete"},
                                !.step = "complete", !.modules = kept]
    BY <1>6 DEF Complete
  <2> QED
    BY <2>1 DEF RowType, Steps
<1> QED
  BY <1>1, <1>3, <1>4, <1>7, <1>8, <1>9

LEMMA EditedType ==
  ASSUME Shape, NEW c \in Slots, calls[c].stage # "free"
  PROVE  Edited(c) \in RowType
<1>1. calls[c] \in CallType /\ row \in RowType /\ calls[c].kind \in Kinds
  BY DEF Shape, Types, Proper
<1>2. calls[c].packs \in SUBSET Packs /\ calls[c].chosen \in SUBSET Modules
  BY <1>1 DEF CallType
<1> QED
  BY <1>1, <1>2, RowTypes DEF Edited, Kinds

LEMMA FreeType == Free \in CallType /\ Proper(Free)
<1>1. Free.copy \in RowType
  BY DEF Free, CreateInitialState, RowType, Steps
<1> QED
  BY <1>1 DEF Free, CallType, Proper

LEMMA RequestType ==
  ASSUME Types, NEW kind \in Kinds, NEW packs \in SUBSET Packs, NEW chosen \in SUBSET Modules,
         NEW from \in Sent(kind)
  PROVE  LET q == Request(kind, packs, chosen, from) IN
         q \in CallType /\ Proper(q) /\ q.stage = "asked"
<1>1. from \in Steps \cup {"success", "settings"}
  BY DEF Kinds, Sent, Steps
<1> QED
  BY <1>1 DEF Types, Request, CallType, Proper

-----------------------------------------------------------------------------
(* A step of the server moves one request on, and others only learn that    *)
(* they were crossed.                                                       *)
Crossed(q) == [q EXCEPT !.crossed = TRUE]

Served(c, q) ==
  calls' \in {[calls EXCEPT ![c] = q],
             [d \in Slots |-> IF d = c THEN q
                              ELSE IF Holds(d) THEN Crossed(calls[d]) ELSE calls[d]]}

LEMMA ServedOthers ==
  ASSUME Shape, NEW c \in Slots, NEW q \in CallType, Served(c, q)
  PROVE  /\ calls' \in [Slots -> CallType]
         /\ calls'[c] = q
         /\ \A d \in Slots : d # c => (calls'[d] = calls[d] \/ (Holds(d) /\ calls'[d] = Crossed(calls[d])))
<1>1. calls \in [Slots -> CallType]
  BY DEF Shape, Types
<1>2. \A d \in Slots : Crossed(calls[d]) \in CallType
  BY <1>1 DEF Crossed, CallType
<1>3. CASE calls' = [calls EXCEPT ![c] = q]
  <2>1. calls' \in [Slots -> CallType]
    BY <1>1, <1>3
  <2>2. calls'[c] = q
    BY <1>1, <1>3
  <2>3. \A d \in Slots : d # c => calls'[d] = calls[d]
    BY <1>1, <1>3
  <2> QED
    BY <2>1, <2>2, <2>3
<1>4. CASE calls' = [d \in Slots |-> IF d = c THEN q
                                    ELSE IF Holds(d) THEN Crossed(calls[d]) ELSE calls[d]]
  <2>1. calls' \in [Slots -> CallType]
    BY <1>1, <1>2, <1>4
  <2>2. calls'[c] = q
    BY <1>1, <1>4
  <2>3. \A d \in Slots : d # c => calls'[d] = IF Holds(d) THEN Crossed(calls[d]) ELSE calls[d]
    BY <1>1, <1>4
  <2> QED
    BY <2>1, <2>2, <2>3
<1> QED
  BY <1>3, <1>4 DEF Served

LEMMA CrossedFields ==
  ASSUME Shape, NEW d \in Slots
  PROVE  LET q == Crossed(calls[d]) IN
         /\ q.stage = calls[d].stage /\ q.kind = calls[d].kind /\ q.from = calls[d].from
         /\ q.packs = calls[d].packs /\ q.chosen = calls[d].chosen
         /\ q.copy = calls[d].copy /\ q.todo = calls[d].todo /\ q.slipped = calls[d].slipped
         /\ q.crossed
BY DEF Shape, Types, CallType, Crossed

LEMMA ServedShape ==
  ASSUME Shape, NEW c \in Slots, NEW q \in CallType, Served(c, q), Proper(q),
         q.stage = "free" => \A t \in Tabs : c \notin tabs[t].calls,
         tabs' = tabs, seeded' = seeded, row' \in RowType, enabled' \subseteq Modules,
         accepted' \subseteq Kinds
  PROVE  Shape'
<1>1. /\ calls' \in [Slots -> CallType]
      /\ calls'[c] = q
      /\ \A d \in Slots : d # c => /\ calls'[d].stage = calls[d].stage
                                   /\ calls'[d].kind = calls[d].kind
                                   /\ calls'[d].from = calls[d].from
  BY ServedOthers, CrossedFields
<1>2. Types'
  BY <1>1 DEF Shape, Types
<1>3. \A d \in Slots : Proper(calls'[d])
  BY <1>1 DEF Shape, Proper
<1>4. Linked'
  BY <1>1 DEF Shape, Linked
<1> QED
  BY <1>2, <1>3, <1>4 DEF Shape

\* Steps of the server, by what becomes of the row and of the request.
Same(c, q) == q.kind = calls[c].kind /\ q.from = calls[c].from /\ q.crossed = calls[c].crossed

Forgets(c, q) ==
  /\ q = Free /\ \A t \in Tabs : c \notin tabs[t].calls
  /\ calls' = [calls EXCEPT ![c] = q] /\ UNCHANGED serverVars

Settles(c, q) ==
  /\ Same(c, q) /\ calls' = [calls EXCEPT ![c] = q] /\ UNCHANGED serverVars
  /\ calls[c].stage # "free"
  /\ \/ q.stage = "refused"
     \/ q.stage = "checked" /\ IsSubscriptionActive(status)
     \/ q.stage = "ok" /\ calls[c].stage = "asked" /\ q.kind = "complete" /\ q.copy.completed
     \/ q.stage = "ok" /\ calls[c].stage = "provisioning" /\ calls[c].todo = {} /\ q.kind # "complete"

Loads(c, q) ==
  /\ Same(c, q) /\ calls' = [calls EXCEPT ![c] = q] /\ UNCHANGED serverVars
  /\ calls[c].stage \in {"asked", "checked"}
  /\ calls[c].kind = "billing" => calls[c].stage = "checked"
  /\ Sound(calls[c]) /\ q.copy = Edited(c)
  /\ \/ q.stage = "loaded"
     \/ q.stage = "provisioning" /\ q.todo = Registered /\ q.kind = "complete"

Saves(c, q) ==
  /\ Same(c, q) /\ Goes(c, q) /\ UNCHANGED <<seeded, enabled>>
  /\ Holds(c) /\ q.copy = calls[c].copy
  /\ row' = calls[c].copy /\ accepted' = accepted \cup {q.kind}
  /\ \/ q.stage = "ok" /\ calls[c].stage = "loaded" /\ q.kind # "modules"
     \/ q.stage = "ok" /\ calls[c].stage = "provisioning" /\ calls[c].todo = {}
     \/ q.stage = "provisioning" /\ q.todo = Registered /\ q.kind = "modules"

Provisions(c, q) ==
  /\ Same(c, q) /\ UNCHANGED <<seeded, row, accepted>>
  /\ calls[c].stage = "provisioning" /\ q.stage = "provisioning" /\ q.copy = calls[c].copy
  /\ \E id \in calls[c].todo :
       /\ q.todo = calls[c].todo \ {id}
       /\ \/ /\ Goes(c, q)
             /\ enabled' = IF id \in calls[c].copy.modules THEN enabled \cup {id} ELSE enabled \ {id}
             /\ q.slipped = calls[c].slipped
          \/ /\ calls' = [calls EXCEPT ![c] = q] /\ enabled' = enabled
             /\ id \notin calls[c].copy.modules /\ q.slipped

ServedAs(c, q) ==
  Forgets(c, q) \/ Settles(c, q) \/ Loads(c, q) \/ Saves(c, q) \/ Provisions(c, q)

LEMMA ServeSteps ==
  ASSUME Shape, NEW c \in Slots, Serve(c) \/ ServerFails(c)
  PROVE  \E q \in CallType : ServedAs(c, q)
<1> DEFINE old == calls[c]
<1>0. old \in CallType /\ (old.stage # "free" => old.kind \in Kinds) /\ Free \in CallType
  BY FreeType DEF Shape, Types, Proper
<1>1. CASE CheckPayment(c)
  <2>1. PICK q \in CallType : q = [old EXCEPT !.stage = "checked"]
    BY <1>0 DEF CallType
  <2>2. Settles(c, q)
    <3>1. Same(c, q) /\ q.stage = "checked"
      BY <1>0, <2>1 DEF Same, CallType
    <3>2. IsSubscriptionActive(status) /\ old.stage # "free"
      BY <1>1 DEF CheckPayment, Allowed
    <3> QED
      BY <3>1, <3>2, <2>1, <1>1 DEF Settles, CheckPayment, Quietly
  <2> QED
    BY <2>2 DEF ServedAs
<1>2. CASE LoadState(c)
  <2>1. old.stage \in {"asked", "checked"} /\ (old.kind = "billing" => old.stage = "checked")
    BY <1>2 DEF LoadState
  <2>2. PICK cp \in RowType : cp = Edited(c)
    BY <2>1, EditedType
  <2>3. PICK st \in {"loaded", "provisioning"} :
           st = IF old.kind = "complete" THEN "provisioning" ELSE "loaded"
    OBVIOUS
  <2>4. PICK td \in SUBSET Registered : td = IF old.kind = "complete" THEN Registered ELSE {}
    OBVIOUS
  <2>5. PICK q \in CallType : q = [old EXCEPT !.copy = cp, !.stage = st, !.todo = td]
    BY <1>0 DEF CallType
  <2>6. Same(c, q) /\ q.copy = cp /\ q.stage = st /\ q.todo = td
    BY <1>0, <2>5 DEF Same, CallType
  <2>7. calls' = [calls EXCEPT ![c] = q] /\ UNCHANGED serverVars /\ Sound(old)
    BY <1>2, <2>2, <2>3, <2>4, <2>5 DEF LoadState, Quietly
  <2>8. Loads(c, q)
    BY <2>1, <2>2, <2>3, <2>4, <2>6, <2>7 DEF Loads, Same
  <2> QED
    BY <2>8 DEF ServedAs
<1>3. CASE AnswerAlready(c)
  <2>1. PICK q \in CallType : q = [old EXCEPT !.copy = row, !.stage = "ok"]
    BY <1>0 DEF Shape, Types, CallType
  <2>2. Same(c, q) /\ q.stage = "ok" /\ q.copy = row
    BY <1>0, <2>1 DEF Same, CallType
  <2>3. Settles(c, q)
    BY <2>1, <2>2, <1>3 DEF Settles, AnswerAlready, Already, Quietly, Same
  <2> QED
    BY <2>3 DEF ServedAs
<1>4. CASE Refuse(c) \/ EnableFails(c)
  <2>1. PICK q \in CallType : q = [old EXCEPT !.stage = "refused"]
    BY <1>0 DEF CallType
  <2>2. Same(c, q) /\ q.stage = "refused"
    BY <1>0, <2>1 DEF Same, CallType
  <2>3. old.stage # "free"
    BY <1>4 DEF Refuse, EnableFails
  <2>4. Settles(c, q)
    BY <2>1, <2>2, <2>3, <1>4 DEF Settles, Refuse, EnableFails, Quietly
  <2> QED
    BY <2>4 DEF ServedAs
<1>5. CASE Save(c)
  <2>1. CASE old.kind = "modules"
    <3>1. PICK q \in CallType : q = [old EXCEPT !.stage = "provisioning", !.todo = Registered]
      BY <1>0 DEF CallType
    <3>2. Same(c, q) /\ q.stage = "provisioning" /\ q.todo = Registered /\ q.copy = old.copy
      BY <1>0, <3>1 DEF Same, CallType
    <3>3. Saves(c, q)
      BY <2>1, <3>1, <3>2, <1>5 DEF Saves, Same, Save, SaveState, Holds
    <3> QED
      BY <3>3 DEF ServedAs
  <2>2. CASE old.kind # "modules"
    <3>1. PICK q \in CallType : q = [old EXCEPT !.stage = "ok"]
      BY <1>0 DEF CallType
    <3>2. Same(c, q) /\ q.stage = "ok" /\ q.copy = old.copy
      BY <1>0, <3>1 DEF Same, CallType
    <3>3. Saves(c, q)
      BY <2>2, <3>1, <3>2, <1>5 DEF Saves, Same, Save, SaveState, Holds
    <3> QED
      BY <3>3 DEF ServedAs
  <2> QED
    BY <2>1, <2>2
<1>6. ASSUME NEW id \in Registered, ProvisionOne(c, id) PROVE \E q \in CallType : ServedAs(c, q)
  <2>1. PICK q \in CallType : q = [old EXCEPT !.todo = @ \ {id}]
    BY <1>0 DEF CallType
  <2>2. Same(c, q) /\ q.stage = old.stage /\ q.todo = old.todo \ {id} /\ q.copy = old.copy
        /\ q.slipped = old.slipped
    BY <1>0, <2>1 DEF Same, CallType
  <2>3. id \in old.todo /\ (id \in Wanted(c) <=> id \in old.copy.modules)
    BY <1>6 DEF ProvisionOne, NextPlugins, Wanted
  <2>4. Provisions(c, q)
    BY <2>1, <2>2, <2>3, <1>6 DEF Provisions, ProvisionOne
  <2> QED
    BY <2>4 DEF ServedAs
<1>7. ASSUME NEW id \in calls[c].todo, Wanted(c) = {}, calls[c].stage = "provisioning",
             Quietly(c, [calls[c] EXCEPT !.todo = @ \ {id}, !.slipped = TRUE]), UNCHANGED serverVars
      PROVE  \E q \in CallType : ServedAs(c, q)
  <2>1. PICK q \in CallType : q = [old EXCEPT !.todo = @ \ {id}, !.slipped = TRUE]
    BY <1>0 DEF CallType
  <2>2. Same(c, q) /\ q.stage = old.stage /\ q.todo = old.todo \ {id} /\ q.copy = old.copy
        /\ q.slipped
    BY <1>0, <2>1 DEF Same, CallType
  <2>3. id \notin old.copy.modules
    BY <1>7 DEF Wanted
  <2>4. Provisions(c, q)
    BY <2>1, <2>2, <2>3, <1>7 DEF Provisions, Quietly, serverVars
  <2> QED
    BY <2>4 DEF ServedAs
<1>10. CASE DisableFails(c)
  BY <1>7, <1>10, Zenon DEF DisableFails
<1>8. CASE Provisioned(c)
  <2>1. PICK q \in CallType : q = [old EXCEPT !.stage = "ok"]
    BY <1>0 DEF CallType
  <2>2. Same(c, q) /\ q.stage = "ok" /\ q.copy = old.copy
    BY <1>0, <2>1 DEF Same, CallType
  <2>3. old.kind = "complete" => Saves(c, q)
    BY <2>1, <2>2, <1>8 DEF Saves, Same, Provisioned, SaveState, Holds
  <2>4. old.kind # "complete" => Settles(c, q)
    BY <2>1, <2>2, <1>8 DEF Settles, Same, Provisioned, Quietly
  <2> QED
    BY <2>3, <2>4 DEF ServedAs
<1>9. CASE Forget(c)
  BY <1>0, <1>9 DEF Forget, Forgets, ServedAs, Quietly
<1> QED
  BY <1>1, <1>2, <1>3, <1>4, <1>5, <1>6, <1>8, <1>9, <1>10 DEF Serve, ServerFails

LEMMA ServeShape ==
  ASSUME Shape, NEW c \in Slots, Serve(c) \/ ServerFails(c)
  PROVE  Shape'
<1>1. PICK q \in CallType : ServedAs(c, q)
  BY ServeSteps
<1>2. calls[c] \in CallType /\ Proper(calls[c]) /\ enabled \subseteq Modules
      /\ (calls[c].stage # "free" => calls[c].kind \in Kinds)
  BY DEF Shape, Types, Proper
<1>3. Served(c, q)
  BY <1>1 DEF ServedAs, Served, Forgets, Settles, Loads, Saves, Provisions, Goes, Crossed
<1>4. /\ Proper(q)
      /\ q.stage = "free" => \A t \in Tabs : c \notin tabs[t].calls
  <2>1. CASE Forgets(c, q)
    BY <2>1, FreeType DEF Forgets
  <2>2. CASE ~Forgets(c, q)
    <3>1. q.stage # "free" /\ calls[c].stage # "free" /\ Same(c, q)
      BY <1>1, <2>2 DEF ServedAs, Settles, Loads, Saves, Provisions, Holds
    <3> QED
      BY <3>1, <1>2 DEF Proper, Same
  <2> QED
    BY <2>1, <2>2
<1>5. seeded' = seeded
  BY <1>1 DEF ServedAs, Forgets, Settles, Loads, Saves, Provisions, serverVars
<1>6. row' \in RowType
  <2>1. row' \in {row, calls[c].copy}
    BY <1>1 DEF ServedAs, Forgets, Settles, Loads, Saves, Provisions, serverVars
  <2> QED
    BY <1>2, <2>1 DEF Shape, Types, CallType
<1>7. enabled' \subseteq Modules
  <2>1. calls[c].todo \subseteq Modules
    BY <1>2, RegisteredAssumption DEF CallType
  <2>2. CASE enabled' = enabled
    BY <1>2, <2>2
  <2>3. CASE Provisions(c, q)
    BY <1>2, <2>1, <2>3 DEF Provisions
  <2> QED
    BY <1>1, <2>2, <2>3 DEF ServedAs, Forgets, Settles, Loads, Saves, serverVars
<1>8. accepted' \subseteq Kinds
  <2>1. CASE Saves(c, q)
    <3>1. q.kind \in Kinds
      BY <2>1, <1>2 DEF Saves, Same, Holds
    <3> QED
      BY <2>1, <3>1 DEF Saves, Shape, Types
  <2> QED
    BY <1>1, <2>1 DEF ServedAs, Forgets, Settles, Loads, Provisions, serverVars, Shape, Types
<1>9. tabs' = tabs
  BY DEF Serve, ServerFails
<1> QED
  BY <1>3, <1>4, <1>5, <1>6, <1>7, <1>8, <1>9, ServedShape

-----------------------------------------------------------------------------
(* A step of the browser begins one request or gives it up, and changes its *)
(* own tab.                                                                 *)
Began(q) == q.stage = "asked" /\ ~q.crossed

\* What a step of tab t may make of the request c: keep it, drop it, begin it.
Browsed(t, tab, c, q) ==
  /\ tabs' = [tabs EXCEPT ![t] = tab] /\ calls' = [calls EXCEPT ![c] = q]
  /\ UNCHANGED serverVars
  /\ q \in {Free, calls[c]} \/ (Began(q) /\ q.from = tab.page)
  /\ tab.calls \ {c} \subseteq tabs[t].calls
  /\ c \in tabs[t].calls \/ calls[c].stage = "free"
  /\ c \in tab.calls => q.stage # "free"

LEMMA BrowsedShape ==
  ASSUME Shape, NEW t \in Tabs, NEW tab \in TabType, NEW c \in Slots, NEW q \in CallType,
         Proper(q), Browsed(t, tab, c, q)
  PROVE  Shape'
<1>1. /\ calls' \in [Slots -> CallType] /\ calls'[c] = q
      /\ \A d \in Slots : d # c => calls'[d] = calls[d]
  BY DEF Browsed, Shape, Types
<1>2. /\ tabs' \in [Tabs -> TabType] /\ tabs'[t] = tab
      /\ \A u \in Tabs : u # t => tabs'[u] = tabs[u]
  BY DEF Browsed, Shape, Types
<1>3. Types'
  BY <1>1, <1>2 DEF Browsed, Shape, Types, serverVars
<1>4. \A d \in Slots : Proper(calls'[d])
  BY <1>1 DEF Shape
<1>5. ASSUME NEW v \in Tabs, NEW d \in Slots, d \in tabs'[v].calls
      PROVE  calls'[d].stage # "free" /\ \A u \in Tabs : u # v => d \notin tabs'[u].calls
  <2>1. CASE d = c
    <3>1. \A u \in Tabs : u # t => c \notin tabs[u].calls
      BY DEF Browsed, Shape, Linked
    <3>2. v = t
      BY <1>2, <1>5, <2>1, <3>1
    <3> QED
      BY <1>1, <1>2, <1>5, <2>1, <3>1, <3>2 DEF Browsed
  <2>2. CASE d # c
    <3>1. \A u \in Tabs : d \in tabs'[u].calls => d \in tabs[u].calls
      BY <1>2, <2>2 DEF Browsed
    <3>2. calls[d].stage # "free" /\ \A u \in Tabs : u # v => d \notin tabs[u].calls
      BY <1>5, <3>1 DEF Shape, Linked
    <3> QED
      BY <1>1, <2>2, <3>1, <3>2
  <2> QED
    BY <2>1, <2>2
<1>6. Linked'
  BY <1>5 DEF Linked
<1> QED
  BY <1>3, <1>4, <1>6 DEF Shape

\* A step that begins and drops nothing.
Looked(t, tab) ==
  /\ tabs' = [tabs EXCEPT ![t] = tab] /\ calls' = calls /\ UNCHANGED serverVars
  /\ tab.calls \subseteq tabs[t].calls

LEMMA LookedShape ==
  ASSUME Shape, NEW t \in Tabs, NEW tab \in TabType, Looked(t, tab)
  PROVE  Shape'
<1>1. /\ tabs' \in [Tabs -> TabType] /\ tabs'[t] = tab
      /\ \A u \in Tabs : u # t => tabs'[u] = tabs[u]
  BY DEF Looked, Shape, Types
<1>2. Types'
  BY <1>1 DEF Looked, Shape, Types, serverVars
<1>3. \A u \in Tabs : tabs'[u].calls \subseteq tabs[u].calls
  BY <1>1 DEF Looked
<1>4. Linked'
  BY <1>3 DEF Looked, Shape, Linked
<1>5. \A d \in Slots : Proper(calls'[d])
  BY DEF Looked, Shape
<1> QED
  BY <1>2, <1>4, <1>5 DEF Shape

Stepped(t, tab) ==
  \/ Looked(t, tab)
  \/ \E c \in Slots, q \in CallType : Proper(q) /\ Browsed(t, tab, c, q)

LEMMA SteppedShape ==
  ASSUME Shape, NEW t \in Tabs, NEW tab \in TabType, Stepped(t, tab)
  PROVE  Shape'
BY LookedShape, BrowsedShape DEF Stepped

\* Where a step may take the page.
Turned(t, tab) ==
  \/ tab.page \in {tabs[t].page, "success", "industry", "settings", "billing", "dunning"}
  \/ <<tabs[t].page, tab.page>> \in {<<"modules", "profile">>, <<"setup", "modules">>, <<"setup", "complete">>}
  \/ \E c \in tabs[t].calls :
       /\ calls[c].stage = "ok"
       /\ <<calls[c].from, tab.page>> \in {<<"industry", "profile">>, <<"profile", "modules">>,
                                         <<"modules", "setup">>, <<"setup", "complete">>}

\* Whom the guard may have let through.
Cleared(t, tab) ==
  tab.guard = "passed" /\ ~tab.open =>
    \/ tab.page \in {"success", "billing", "dunning"}
    \/ tab.page = tabs[t].page /\ ~RequiresPayment(status)
    \/ tab.page = tabs[t].page /\ tabs[t].guard = "passed" /\ ~tabs[t].open

LEMMA Mounted ==
  ASSUME Shape, NEW t \in Tabs, NEW tab \in TabType, tab.calls \subseteq tabs[t].calls,
         NEW c \in Slots, NEW p \in Steps \cup {"success", "settings", "dunning"},
         Mount(t, tab, c, p), UNCHANGED serverVars
  PROVE  \E new \in TabType : /\ new.page = p /\ new.guard = tab.guard /\ new.open = tab.open
                              /\ Stepped(t, new)
<1>1. tabs[t] \in TabType /\ calls[c] \in CallType /\ calls \in [Slots -> CallType]
  BY DEF Shape, Types
<1>2. CASE Mounts(p)
  <2>1. PICK kind \in Kinds : kind = (IF p = "success" THEN "billing" ELSE "complete") /\ p \in Sent(kind)
    BY <1>2 DEF Mounts, Kinds, Sent
  <2>2. Types
    BY DEF Shape
  <2>3. PICK q \in CallType : q = Request(kind, {}, {}, p) /\ Proper(q) /\ Began(q) /\ q.from = p
    <3>1. Request(kind, {}, {}, p) \in CallType /\ Proper(Request(kind, {}, {}, p))
      BY <2>1, <2>2, RequestType
    <3> QED
      BY <3>1 DEF Request, Began
  <2>4. PICK ld \in {"asked", "none"} : ld = IF p = "complete" THEN "asked" ELSE "none"
    OBVIOUS
  <2>5. PICK new \in TabType : new = [tab EXCEPT !.page = p, !.saver = c, !.calls = @ \cup {c},
                                                 !.failed = FALSE, !.load = ld]
    BY DEF TabType
  <2>6. new.page = p /\ new.guard = tab.guard /\ new.open = tab.open /\ new.calls = tab.calls \cup {c}
    BY <2>5 DEF TabType
  <2>7. calls[c].stage = "free" \/ c \in tabs[t].calls
    BY <1>2 DEF Mount, IsFreeSlot, FreeSlots
  <2>8. Browsed(t, new, c, q)
    <3>1. tabs' = [tabs EXCEPT ![t] = new]
      BY <1>2, <2>4, <2>5 DEF Mount
    <3>2. calls' = [calls EXCEPT ![c] = q]
      BY <1>2, <2>1, <2>3 DEF Mount
    <3> QED
      BY <3>1, <3>2, <2>3, <2>6, <2>7 DEF Browsed, Began
  <2> QED
    BY <2>3, <2>6, <2>8 DEF Stepped
<1>3. CASE ~Mounts(p)
  <2>1. PICK new \in TabType : new = [tab EXCEPT !.page = p, !.saver = 0, !.failed = FALSE, !.load = "none"]
    BY DEF TabType
  <2>2. new.page = p /\ new.guard = tab.guard /\ new.open = tab.open /\ new.calls = tab.calls
    BY <2>1 DEF TabType
  <2>3. tabs' = [tabs EXCEPT ![t] = new]
    BY <1>3, <2>1 DEF Mount
  <2>4. CASE c \in tabs[t].calls \ tab.calls
    <3>1. calls' = [calls EXCEPT ![c] = Free]
      BY <1>3, <2>4 DEF Mount
    <3>2. Browsed(t, new, c, Free)
      BY <3>1, <2>2, <2>3, <2>4 DEF Browsed
    <3> QED
      BY <3>2, <2>2, FreeType DEF Stepped
  <2>5. CASE c \notin tabs[t].calls \ tab.calls
    <3>1. calls' = calls
      BY <1>3, <2>5 DEF Mount
    <3>2. Looked(t, new)
      BY <3>1, <2>2, <2>3 DEF Looked
    <3> QED
      BY <3>2, <2>2 DEF Stepped
  <2> QED
    BY <2>4, <2>5
<1> QED
  BY <1>2, <1>3

LEMMA Pushed ==
  ASSUME Shape, NEW t \in Tabs, NEW tab \in TabType, tab.calls \subseteq tabs[t].calls,
         NEW c \in Slots, NEW p \in Steps \cup {"success", "settings", "dunning"},
         Push(t, tab, c, p), UNCHANGED serverVars
  PROVE  \E new \in TabType : new.page = p /\ new.guard = "checking" /\ Stepped(t, new)
<1>1. PICK asking \in TabType : asking = [tab EXCEPT !.guard = "checking"]
  BY DEF TabType
<1>2. asking.guard = "checking" /\ asking.calls = tab.calls
  BY <1>1 DEF TabType
<1>3. Mount(t, asking, c, p)
  BY <1>1 DEF Push
<1> QED
  BY <1>2, <1>3, Mounted

BrowserStep(t) ==
  \E tab \in TabType : Turned(t, tab) /\ Cleared(t, tab) /\ Stepped(t, tab)

\* A push to a page that Turned allows is a step; so is a quiet change.
LEMMA PushStep ==
  ASSUME Shape, NEW t \in Tabs, NEW tab \in TabType, tab.calls \subseteq tabs[t].calls,
         NEW c \in Slots, NEW p \in Steps \cup {"success", "settings", "dunning"},
         Push(t, tab, c, p), UNCHANGED serverVars,
         \A new : new.page = p => Turned(t, new)
  PROVE  BrowserStep(t)
<1>1. PICK new \in TabType : new.page = p /\ new.guard = "checking" /\ Stepped(t, new)
  BY Pushed
<1>2. Cleared(t, new)
  BY <1>1 DEF Cleared
<1> QED
  BY <1>1, <1>2 DEF BrowserStep

LEMMA LookStep ==
  ASSUME Shape, NEW t \in Tabs, NEW tab \in TabType, tab.calls \subseteq tabs[t].calls,
         Quiet(t, tab), UNCHANGED serverVars, Turned(t, tab), Cleared(t, tab)
  PROVE  BrowserStep(t)
BY DEF BrowserStep, Stepped, Looked, Quiet

LEMMA PressStep ==
  ASSUME Shape, NEW t \in Tabs, NEW kind \in Kinds, NEW packs \in SUBSET Packs,
         NEW chosen \in SUBSET Modules, NEW p \in Sent(kind), p = tabs[t].page,
         Press(t, Request(kind, packs, chosen, p))
  PROVE  BrowserStep(t)
<1>1. PICK c \in Slots :
        /\ IsFreeSlot(c)
        /\ calls' = [calls EXCEPT ![c] = Request(kind, packs, chosen, p)]
        /\ tabs' = [tabs EXCEPT ![t].saver = c, ![t].calls = @ \cup {c}, ![t].failed = FALSE]
  BY Zenon DEF Press
<1>2. Types /\ tabs \in [Tabs -> TabType] /\ tabs[t] \in TabType
  BY DEF Shape, Types
<1>3. PICK q \in CallType : q = Request(kind, packs, chosen, p) /\ Proper(q) /\ Began(q) /\ q.from = p
  <2>1. Request(kind, packs, chosen, p) \in CallType /\ Proper(Request(kind, packs, chosen, p))
    BY <1>2, RequestType
  <2> QED
    BY <2>1 DEF Request, Began
<1>4. PICK new \in TabType : new = [tabs[t] EXCEPT !.saver = c, !.calls = @ \cup {c}, !.failed = FALSE]
  BY <1>2 DEF TabType
<1>5. /\ new.page = tabs[t].page /\ new.guard = tabs[t].guard /\ new.open = tabs[t].open
      /\ new.calls = tabs[t].calls \cup {c}
  BY <1>2, <1>4 DEF TabType
<1>6. tabs' = [tabs EXCEPT ![t] = new]
  BY <1>1, <1>2, <1>4 DEF TabType
<1>7. calls[c].stage = "free"
  BY <1>1 DEF IsFreeSlot, FreeSlots
<1>8. Browsed(t, new, c, q)
  BY <1>1, <1>3, <1>5, <1>6, <1>7 DEF Browsed, Press, Began
<1>9. Turned(t, new) /\ Cleared(t, new)
  BY <1>5 DEF Turned, Cleared
<1> QED
  BY <1>3, <1>8, <1>9 DEF BrowserStep, Stepped

\* The tab once the answer or the error of a request is there.
LEMMA TabWithout ==
  ASSUME Shape, NEW t \in Tabs, NEW c \in Slots
  PROVE  /\ \E tab \in TabType :
              /\ tab = [tabs[t] EXCEPT !.calls = @ \ {c}, !.saver = IF @ = c THEN 0 ELSE @,
                                       !.cached = calls[c].copy.completed]
              /\ tab.page = tabs[t].page /\ tab.guard = tabs[t].guard /\ tab.open = tabs[t].open
              /\ tab.calls = tabs[t].calls \ {c}
         /\ \E failed \in TabType :
              /\ failed = Failed(t, c)
              /\ failed.page = tabs[t].page /\ failed.guard = tabs[t].guard
              /\ failed.open = tabs[t].open /\ failed.calls = tabs[t].calls \ {c}
<1>1. tabs[t] \in TabType /\ calls[c].copy.completed \in BOOLEAN
  BY DEF Shape, Types, CallType, RowType
<1>2. PICK saver \in Slots \cup {0} : saver = IF tabs[t].saver = c THEN 0 ELSE tabs[t].saver
  BY <1>1 DEF TabType
<1>3. PICK failed \in BOOLEAN : failed = (tabs[t].failed \/ tabs[t].saver = c)
  BY <1>1 DEF TabType
<1>4. PICK rest \in SUBSET Slots : rest = tabs[t].calls \ {c}
  BY <1>1 DEF TabType
<1>5. PICK completed \in BOOLEAN : completed = calls[c].copy.completed
  BY <1>1
<1>6. PICK a \in TabType : a = [tabs[t] EXCEPT !.calls = rest, !.saver = saver, !.cached = completed]
  BY <1>1 DEF TabType
<1>7. PICK b \in TabType : b = [tabs[t] EXCEPT !.calls = rest, !.saver = saver, !.failed = failed]
  BY <1>1 DEF TabType
<1>8. a = [tabs[t] EXCEPT !.calls = @ \ {c}, !.saver = IF @ = c THEN 0 ELSE @,
                          !.cached = calls[c].copy.completed]
  BY <1>2, <1>4, <1>5, <1>6
<1>9. b = Failed(t, c)
  BY <1>2, <1>3, <1>4, <1>7 DEF Failed
<1>10. /\ a.page = tabs[t].page /\ a.guard = tabs[t].guard /\ a.open = tabs[t].open
       /\ a.calls = tabs[t].calls \ {c}
  BY <1>1, <1>4, <1>6 DEF TabType
<1>11. /\ b.page = tabs[t].page /\ b.guard = tabs[t].guard /\ b.open = tabs[t].open
       /\ b.calls = tabs[t].calls \ {c}
  BY <1>1, <1>4, <1>7 DEF TabType
<1> QED
  BY <1>6, <1>7, <1>8, <1>9, <1>10, <1>11

LEMMA VisitedTab ==
  ASSUME Shape, NEW t \in Tabs, NEW p \in {"success", "industry", "settings"}
  PROVE  LET tab == [Tab(p) EXCEPT !.cached = tabs[t].cached] IN
         tab \in TabType /\ tab.page = p /\ tab.guard = "loading" /\ tab.calls = {}
<1>1. PICK completed \in BOOLEAN : completed = tabs[t].cached
  BY DEF Shape, Types, TabType
<1>2. [Tab(p) EXCEPT !.cached = tabs[t].cached] = [Tab(p) EXCEPT !.cached = completed]
  BY <1>1
<1>3. Tab(p) \in TabType /\ Tab(p).page = p /\ Tab(p).guard = "loading" /\ Tab(p).calls = {}
  BY DEF Tab, TabType, Steps
<1> QED
  BY <1>2, <1>3 DEF TabType

LEMMA UseSteps ==
  ASSUME Shape, NEW t \in Tabs, Use(t)
  PROVE  BrowserStep(t)
<1>1. tabs[t] \in TabType
  BY DEF Shape, Types
<1>2. ASSUME NEW p \in {"success", "industry", "settings"},
             Quiet(t, [Tab(p) EXCEPT !.cached = tabs[t].cached]), UNCHANGED serverVars
      PROVE  BrowserStep(t)
  <2>1. PICK tab \in TabType : /\ tab = [Tab(p) EXCEPT !.cached = tabs[t].cached]
                               /\ tab.page = p /\ tab.guard = "loading" /\ tab.calls = {}
    BY VisitedTab
  <2>2. Turned(t, tab) /\ Cleared(t, tab)
    BY <2>1 DEF Turned, Cleared
  <2> QED
    BY <1>2, <2>1, <2>2, LookStep
<1>3. ASSUME NEW p \in {"success", "industry", "settings"}, Visit(t, p) PROVE BrowserStep(t)
  BY <1>2, <1>3 DEF Visit
<1>4. CASE PayPlan(t)
  BY <1>2, <1>4 DEF PayPlan
<1>5. CASE saveIndustry(t)
  <2>1. PICK packs \in SUBSET Packs : Press(t, Request("industry", packs, {}, "industry"))
    BY <1>5, Zenon DEF saveIndustry
  <2> QED
    BY <1>5, <2>1, PressStep DEF saveIndustry, Rendered, Kinds, Sent
<1>6. CASE saveProfile(t)
  BY <1>6, PressStep DEF saveProfile, Rendered, Kinds, Sent
<1>7. CASE saveModules(t)
  <2>1. PICK p \in {"modules", "settings"}, chosen \in SUBSET Modules :
          Rendered(t, p) /\ Press(t, Request("modules", {}, chosen, p))
    BY <1>7, Zenon DEF saveModules
  <2> QED
    BY <2>1, PressStep DEF Rendered, Kinds, Sent
<1>8. CASE skipSetup(t)
  BY <1>8, PressStep DEF skipSetup, Rendered, Kinds, Sent
<1>9. CASE tryAgain(t)
  BY <1>9, PressStep DEF tryAgain, Rendered, Kinds, Sent
<1>10. CASE saveSetup(t)
  <2>1. PICK c \in Slots : Push(t, tabs[t], c, "complete")
    BY <1>10 DEF saveSetup
  <2>2. \A new : new.page = "complete" => Turned(t, new)
    BY <1>10 DEF saveSetup, Rendered, Turned
  <2> QED
    BY <1>1, <1>10, <2>1, <2>2, PushStep DEF saveSetup, Steps
<1>11. CASE onBack(t)
  <2>1. PICK c \in Slots : Push(t, tabs[t], c, prevStep(tabs[t].page))
    BY <1>11 DEF onBack
  <2>2. /\ prevStep(tabs[t].page) \in Steps
        /\ \A new : new.page = prevStep(tabs[t].page) => Turned(t, new)
    BY <1>11, WizardFacts DEF onBack, Turned, Steps
  <2> QED
    BY <1>1, <1>11, <2>1, <2>2, PushStep DEF onBack
<1> QED
  BY <1>3, <1>4, <1>5, <1>6, <1>7, <1>8, <1>9, <1>10, <1>11 DEF Use

LEMMA GuardSteps ==
  ASSUME Shape, NEW t \in Tabs, SubscriptionGuard(t) \/ GuardFails(t)
  PROVE  BrowserStep(t)
<1> DEFINE tab == tabs[t]
<1>1. tab \in TabType /\ UNCHANGED serverVars
  BY DEF Shape, Types, SubscriptionGuard, GuardFails
\* The page is rendered for the first time, or stays.
<1>2. ASSUME NEW new \in TabType, new.page = tab.page, new.calls = tab.calls,
             new.open \/ ~RequiresPayment(status) \/ tab.page \in {"success", "billing", "dunning"},
             Quiet(t, new) \/ \E c \in Slots : Mount(t, new, c, tab.page)
      PROVE  BrowserStep(t)
  <2>2. CASE Quiet(t, new)
    <3>1. Turned(t, new) /\ Cleared(t, new)
      BY <1>2 DEF Turned, Cleared
    <3> QED
      BY <1>1, <1>2, <2>2, <3>1, LookStep
  <2>3. ASSUME NEW c \in Slots, Mount(t, new, c, tab.page) PROVE BrowserStep(t)
    <3>1. PICK there \in TabType : /\ there.page = tab.page /\ there.open = new.open
                                   /\ Stepped(t, there)
      BY <1>1, <1>2, <2>3, Mounted DEF TabType
    <3>2. Turned(t, there) /\ Cleared(t, there)
      BY <1>2, <3>1 DEF Turned, Cleared
    <3> QED
      BY <3>1, <3>2 DEF BrowserStep
  <2> QED
    BY <1>2, <2>2, <2>3
<1>3. CASE SubscriptionGuard(t) /\ Stays(t)
  <2>1. PICK new \in TabType : new = [tab EXCEPT !.guard = "passed", !.open = FALSE]
    BY <1>1 DEF TabType
  <2>4. new.page = tab.page /\ new.calls = tab.calls
    BY <1>1, <2>1 DEF TabType
  <2>2. Quiet(t, new) \/ \E c \in Slots : Mount(t, new, c, tab.page)
    BY <1>3, <2>1 DEF SubscriptionGuard
  <2>3. ~RequiresPayment(status) \/ tab.page \in {"success", "billing", "dunning"}
    BY <1>3 DEF Stays
  <2> QED
    BY <1>2, <2>2, <2>3, <2>4
<1>4. CASE SubscriptionGuard(t) /\ ~Stays(t)
  <2>1. PICK to \in {"dunning", "billing"} : to = IF RequiresDunning(status) THEN "dunning" ELSE "billing"
    OBVIOUS
  <2>2. PICK new \in TabType :
          new = [tab EXCEPT !.page = to, !.saver = 0, !.load = "none", !.failed = FALSE]
    BY <1>1 DEF TabType, Steps
  <2>3. new.page = to /\ new.calls = tab.calls
    BY <1>1, <2>2 DEF TabType
  <2>4. Quiet(t, new)
    BY <1>4, <2>1, <2>2 DEF SubscriptionGuard
  <2>5. Turned(t, new) /\ Cleared(t, new)
    BY <2>3 DEF Turned, Cleared
  <2> QED
    BY <1>1, <2>3, <2>4, <2>5, LookStep
<1>5. CASE GuardFails(t)
  <2>1. PICK new \in TabType : new = [tab EXCEPT !.guard = "passed", !.open = TRUE]
    BY <1>1 DEF TabType
  <2>3. new.page = tab.page /\ new.calls = tab.calls /\ new.open
    BY <1>1, <2>1 DEF TabType
  <2>2. Quiet(t, new) \/ \E c \in Slots : Mount(t, new, c, tab.page)
    BY <1>5, <2>1 DEF GuardFails
  <2> QED
    BY <1>2, <2>2, <2>3
<1> QED
  BY <1>3, <1>4, <1>5

LEMMA AnswerSteps ==
  ASSUME Shape, NEW t \in Tabs, NEW c \in Slots, Answered(t, c) \/ Rejected(t, c) \/ Lose(t, c)
  PROVE  BrowserStep(t)
<1>1. /\ tabs[t] \in TabType /\ calls[c] \in CallType /\ Proper(calls[c]) /\ UNCHANGED serverVars
      /\ c \in tabs[t].calls /\ calls[c].stage # "free"
  BY DEF Shape, Types, Linked, Answered, Rejected, Lose
<1>2. ASSUME NEW tab \in TabType, tab.calls = tabs[t].calls \ {c}, tab.page = tabs[t].page,
             tab.guard = tabs[t].guard, tab.open = tabs[t].open,
             tabs' = [tabs EXCEPT ![t] = tab], NEW q \in {Free, calls[c]},
             calls' = [calls EXCEPT ![c] = q]
      PROVE  BrowserStep(t)
  <2>1. Browsed(t, tab, c, q) /\ Proper(q) /\ q \in CallType
    BY <1>1, <1>2, FreeType DEF Browsed
  <2>2. Turned(t, tab) /\ Cleared(t, tab)
    BY <1>2 DEF Turned, Cleared
  <2> QED
    BY <2>1, <2>2 DEF BrowserStep, Stepped
<1>0. PICK failed \in TabType :
        /\ failed = Failed(t, c)
        /\ failed.page = tabs[t].page /\ failed.guard = tabs[t].guard
        /\ failed.open = tabs[t].open /\ failed.calls = tabs[t].calls \ {c}
  BY TabWithout, Zenon
<1>3. CASE Rejected(t, c)
  <2>1. calls' = [calls EXCEPT ![c] = Free] /\ tabs' = [tabs EXCEPT ![t] = failed]
    BY <1>0, <1>3 DEF Rejected
  <2> QED
    BY <1>0, <1>2, <2>1
<1>4. CASE Lose(t, c)
  <2>1. PICK q \in {Free, calls[c]} :
          q = IF calls[c].stage \in {"asked", "ok", "refused"} THEN Free ELSE calls[c]
    OBVIOUS
  <2>2. calls' = [calls EXCEPT ![c] = q] /\ tabs' = [tabs EXCEPT ![t] = failed]
    BY <1>0, <1>4, <2>1 DEF Lose
  <2> QED
    BY <1>0, <1>2, <2>2
<1>5. CASE Answered(t, c)
  <2>1. PICK tab \in TabType :
          /\ tab = [tabs[t] EXCEPT !.calls = @ \ {c}, !.saver = IF @ = c THEN 0 ELSE @,
                                   !.cached = calls[c].copy.completed]
          /\ tab.page = tabs[t].page /\ tab.guard = tabs[t].guard /\ tab.open = tabs[t].open
          /\ tab.calls = tabs[t].calls \ {c}
    BY TabWithout, Zenon
  <2>2. CASE tabs' = [tabs EXCEPT ![t] = tab] /\ calls' = [calls EXCEPT ![c] = Free]
    BY <1>2, <2>1, <2>2
  <2>3. CASE calls[c].from = "success" /\ Push(t, tab, c, "industry")
    <3>1. \A new : new.page = "industry" => Turned(t, new)
      BY DEF Turned
    <3> QED
      BY <1>1, <2>1, <2>3, <3>1, PushStep DEF Steps
  <2>4. CASE /\ calls[c].from \in {"industry", "profile", "modules", "setup"}
             /\ Push(t, tab, c, nextStep(calls[c].from))
    <3>1. /\ nextStep(calls[c].from) \in Steps
          /\ <<calls[c].from, nextStep(calls[c].from)>> \in
               {<<"industry", "profile">>, <<"profile", "modules">>,
                <<"modules", "setup">>, <<"setup", "complete">>}
      BY <2>4, WizardFacts DEF Steps
    <3>2. \A new : new.page = nextStep(calls[c].from) => Turned(t, new)
      BY <1>1, <1>5, <3>1 DEF Turned, Answered
    <3> QED
      BY <1>1, <2>1, <2>4, <3>1, <3>2, PushStep
  <2>5. calls[c].from \in {"success", "industry", "profile", "modules", "settings", "setup", "complete"}
    BY <1>1 DEF Proper, Kinds, Sent
  <2> QED
    BY <1>5, <2>1, <2>2, <2>3, <2>4, <2>5 DEF Answered
<1> QED
  BY <1>3, <1>4, <1>5

LEMMA ReactSteps ==
  ASSUME Shape, NEW t \in Tabs, React(t)
  PROVE  BrowserStep(t)
<1>1. tabs[t] \in TabType
  BY DEF Shape, Types
<1>2. CASE SeesPaid(t)
  <2>1. PICK c \in Slots : Push(t, tabs[t], c, "industry")
    BY <1>2, WizardFacts DEF SeesPaid
  <2>2. \A new : new.page = "industry" => Turned(t, new)
    BY DEF Turned
  <2> QED
    BY <1>1, <1>2, <2>1, <2>2, PushStep DEF SeesPaid, Steps
<1>3. CASE ServeStatus(t)
  <2>1. PICK to \in {"none", "completed", "open"} :
          to = IF ~seeded THEN "none" ELSE IF row.completed THEN "completed" ELSE "open"
    OBVIOUS
  <2>2. PICK new \in TabType : new = [tabs[t] EXCEPT !.load = to]
    BY <1>1 DEF TabType
  <2>3. Quiet(t, new) /\ UNCHANGED serverVars
    BY <1>3, <2>1, <2>2 DEF ServeStatus
  <2>4. /\ new.page = tabs[t].page /\ new.guard = tabs[t].guard /\ new.open = tabs[t].open
        /\ new.calls = tabs[t].calls
    BY <1>1, <2>2 DEF TabType
  <2> QED
    BY <2>3, <2>4, LookStep DEF Turned, Cleared
<1>4. CASE ApplyStatus(t)
  <2>1. PICK completed \in BOOLEAN : completed = (tabs[t].load = "completed")
    OBVIOUS
  <2>2. PICK over \in BOOLEAN : over = (tabs[t].overtaken \/ (tabs[t].cached /\ ~completed))
    BY <1>1 DEF TabType
  <2>3. PICK new \in TabType : new = [tabs[t] EXCEPT !.load = "none", !.cached = completed, !.overtaken = over]
    BY <1>1 DEF TabType
  <2>4. Quiet(t, new) /\ UNCHANGED serverVars
    BY <1>4, <2>1, <2>2, <2>3 DEF ApplyStatus
  <2>5. /\ new.page = tabs[t].page /\ new.guard = tabs[t].guard /\ new.open = tabs[t].open
        /\ new.calls = tabs[t].calls
    BY <1>1, <2>3 DEF TabType
  <2> QED
    BY <2>4, <2>5, LookStep DEF Turned, Cleared
<1> QED
  BY <1>2, <1>3, <1>4, GuardSteps, AnswerSteps DEF React

-----------------------------------------------------------------------------
(* The steps of the whole.                                                  *)

\* The part of the subscription in a step: none, or a checkout.
Aside == UNCHANGED subscriptionVars /\ (Move \/ UNCHANGED moves)
CheckedOut == \E s \in Subs : Checkout(s)

LEMMA UseAside ==
  ASSUME NEW t \in Tabs, Use(t)
  PROVE  Aside \/ CheckedOut
<1>1. CASE \E p \in {"success", "industry", "settings"} : Visit(t, p)
  BY <1>1 DEF Visit, Aside
<1>2. CASE PayPlan(t)
  BY <1>2 DEF PayPlan, CheckedOut
<1>3. CASE saveIndustry(t)
  BY <1>3 DEF saveIndustry, Press, Aside
<1>4. CASE saveProfile(t)
  BY <1>4 DEF saveProfile, Press, Aside
<1>7. CASE skipSetup(t)
  BY <1>7 DEF skipSetup, Press, Aside
<1>8. CASE tryAgain(t)
  BY <1>8 DEF tryAgain, Press, Aside
<1>5. CASE saveModules(t)
  BY <1>5 DEF saveModules, Press, Aside
<1>6. CASE saveSetup(t) \/ onBack(t)
  BY <1>6 DEF saveSetup, onBack, Aside
<1> QED
  BY <1>1, <1>2, <1>3, <1>4, <1>5, <1>6, <1>7, <1>8 DEF Use

LEMMA ReactAside ==
  ASSUME NEW t \in Tabs, React(t)
  PROVE  Aside
<1>1. CASE SubscriptionGuard(t) \/ GuardFails(t)
  BY <1>1 DEF SubscriptionGuard, GuardFails, Aside
<1>2. CASE SeesPaid(t) \/ ServeStatus(t) \/ ApplyStatus(t)
  BY <1>2 DEF SeesPaid, ServeStatus, ApplyStatus, Aside
<1>3. ASSUME NEW c \in Slots, Answered(t, c) \/ Rejected(t, c) \/ Lose(t, c) PROVE Aside
  BY <1>3 DEF Answered, Rejected, Lose, Aside
<1> QED
  BY <1>1, <1>2, <1>3 DEF React

LEMMA NextSteps ==
  ASSUME Shape, Next
  PROVE  \/ \E c \in Slots : (Serve(c) \/ ServerFails(c)) /\ Aside
         \/ \E t \in Tabs : BrowserStep(t) /\ (Aside \/ CheckedOut)
         \/ SubscriptionStep /\ UNCHANGED <<serverVars, calls, tabs>>
<1>1. ASSUME NEW t \in Tabs, Use(t) \/ React(t)
      PROVE  BrowserStep(t) /\ (Aside \/ CheckedOut)
  BY <1>1, UseSteps, ReactSteps, UseAside, ReactAside
<1>2. ASSUME NEW c \in Slots, Serve(c) \/ ServerFails(c) PROVE Aside
  BY <1>2 DEF Serve, ServerFails, Aside
<1> QED
  BY <1>1, <1>2 DEF Next

\* For a step that leaves the server and the browser alone.
LEMMA ShapeUntouched == Shape /\ UNCHANGED <<serverVars, calls, tabs>> => Shape'
BY DEF Shape, Types, Linked, serverVars

LEMMA ShapePreserved == Shape /\ [Next]_vars => Shape'
<1> SUFFICES ASSUME Shape, [Next]_vars PROVE Shape'
  OBVIOUS
<1>1. ASSUME NEW t \in Tabs, BrowserStep(t) PROVE Shape'
  BY <1>1, SteppedShape DEF BrowserStep
<1>2. CASE UNCHANGED <<serverVars, calls, tabs>>
  BY <1>2, ShapeUntouched
<1> QED
  BY <1>1, <1>2, NextSteps, ServeShape DEF vars

LEMMA ShapeStarts == Init => Shape
<1> SUFFICES ASSUME Init PROVE Shape
  OBVIOUS
<1>1. PICK p \in Packs : row = CreateInitialState(p) /\ enabled = Required[p]
  BY DEF Init
<1>2. row \in RowType
  BY <1>1 DEF CreateInitialState, RowType, Steps
<1>3. enabled \subseteq Modules
  BY <1>1, PacksAssumption
<1>4. calls = [c \in Slots |-> Free] /\ tabs = [t \in Tabs |-> Tab("billing")]
  BY DEF Init
<1>5. Tab("billing") \in TabType /\ Tab("billing").calls = {}
  BY DEF Tab, TabType, Steps
<1>6. Types
  BY <1>2, <1>3, <1>4, <1>5, FreeType DEF Init, Types
<1>7. Linked
  BY <1>4, <1>5 DEF Linked
<1>8. \A c \in Slots : Proper(calls[c])
  BY <1>4, FreeType
<1> QED
  BY <1>6, <1>7, <1>8 DEF Shape

LEMMA SubInvPreserved == Shape /\ SubInv /\ [Next]_vars => SubInv'
<1> SUFFICES ASSUME Shape, SubInv, [Next]_vars PROVE SubInv'
  OBVIOUS
<1>1. ASSUME Aside PROVE SubInv'
  <2>1. moves' \in Nat
    BY <1>1 DEF Aside, Move, SubInv, SubscriptionTypeOK
  <2> QED
    BY <1>1, <2>1, SubscriptionUntouched DEF Aside
<1>2. CASE UNCHANGED vars
  BY <1>1, <1>2 DEF vars, Aside
<1> QED
  BY <1>1, <1>2, NextSteps, SubscriptionPreserved DEF CheckedOut

LEMMA PaidForGood == Shape /\ SubInv /\ [Next]_vars /\ Paid => Paid'
BY NextSteps, PaidStays DEF Aside, CheckedOut, vars

\* Types, and what the page says of the wizard's place: for any constants.
THEOREM TypesHold == Spec => []TypeOK
<1>1. Init => Shape /\ SubInv
  BY ShapeStarts, SubscriptionStarts DEF Init
<1>2. Shape /\ SubInv /\ [Next]_vars => (Shape /\ SubInv)'
  BY ShapePreserved, SubInvPreserved
<1>3. Shape /\ SubInv => TypeOK
  BY DEF Shape, Types, SubInv, TypeOK
<1> QED
  BY <1>1, <1>2, <1>3, PTL DEF Spec

-----------------------------------------------------------------------------
(* The row.  What holds of it holds of every copy that may be written over  *)
(* it, whoever has written in between.                                      *)

LEMMA BrowserCalls ==
  ASSUME Shape, NEW t \in Tabs, BrowserStep(t)
  PROVE  /\ UNCHANGED serverVars
         /\ \A d \in Slots : calls'[d] \in {calls[d], Free} \/ Began(calls'[d])
<1>1. PICK tab \in TabType : Stepped(t, tab)
  BY DEF BrowserStep
<1>2. CASE Looked(t, tab)
  BY <1>2 DEF Looked
<1>3. ASSUME NEW c \in Slots, NEW q \in CallType, Browsed(t, tab, c, q)
      PROVE  /\ UNCHANGED serverVars
             /\ \A d \in Slots : calls'[d] \in {calls[d], Free} \/ Began(calls'[d])
  <2>1. \A d \in Slots : calls'[d] = IF d = c THEN q ELSE calls[d]
    BY <1>3 DEF Browsed, Shape, Types
  <2> QED
    BY <1>3, <2>1 DEF Browsed
<1> QED
  BY <1>1, <1>2, <1>3 DEF Stepped

LEMMA EditedWhole ==
  ASSUME Shape, NEW c \in Slots, calls[c].stage # "free", Sound(calls[c]), Whole(row)
  PROVE  Whole(Edited(c))
<1>1. calls[c] \in CallType /\ row \in RowType /\ calls[c].kind \in Kinds
  BY DEF Shape, Types, Proper
<1>2. \A ps \in SUBSET Packs : ps # {} => ResolveModulesForPacks(ps) # {}
  BY PacksAssumption, RequiredAssumption DEF ResolveModulesForPacks
<1>3. row.packs # {} /\ ResolveModulesForPacks(row.packs) # {}
  BY <1>1, <1>2 DEF RowType, Whole
<1>4. CASE calls[c].kind \in {"billing", "skip"}
  BY <1>1, <1>4 DEF Edited, CompleteBilling, SkipSetup, Whole, RowType
<1>5. CASE calls[c].kind = "industry"
  <2>1. calls[c].packs # {} /\ ResolveModulesForPacks(calls[c].packs) # {}
    BY <1>1, <1>2, <1>5 DEF Sound, CallType
  <2>2. PICK e : e = SaveIndustry(row, calls[c].packs)
    OBVIOUS
  <2>3. /\ e.packs = calls[c].packs /\ e.modules = ResolveModulesForPacks(calls[c].packs)
        /\ e.completed = row.completed /\ e.done = row.done \cup {"industry"}
    BY <1>1, <2>2 DEF SaveIndustry, RowType
  <2> QED
    BY <1>5, <2>1, <2>2, <2>3 DEF Edited, Whole
<1>6. CASE calls[c].kind = "profile"
  <2>1. PICK e : e = SaveProfile(row)
    OBVIOUS
  <2>2. /\ e.packs = row.packs /\ e.completed = row.completed /\ e.done = row.done \cup {"profile"}
        /\ e.modules = IF row.modules = {} THEN ResolveModulesForPacks(row.packs) ELSE row.modules
    BY <1>1, <2>1 DEF SaveProfile, RowType
  <2> QED
    BY <1>3, <1>6, <2>1, <2>2 DEF Edited, Whole
<1>7. CASE calls[c].kind = "modules"
  <2>1. PICK e : e = UpdateModules(row, calls[c].chosen)
    OBVIOUS
  <2>2. /\ e.packs = row.packs /\ e.completed = row.completed /\ e.done = row.done \cup {"modules"}
        /\ e.modules = calls[c].chosen \cup ResolveModulesForPacks(row.packs)
    BY <1>1, <2>1 DEF UpdateModules, RowType
  <2> QED
    BY <1>3, <1>7, <2>1, <2>2 DEF Edited, Whole
<1>8. CASE calls[c].kind = "complete"
  <2>1. PICK e : e = Complete(row)
    OBVIOUS
  <2>2. /\ e.packs = row.packs /\ e.completed = TRUE /\ e.done = row.done \cup {"complete"}
        /\ e.modules = IF row.modules = {} THEN ResolveModulesForPacks(row.packs) ELSE row.modules
    BY <1>1, <2>1 DEF Complete, RowType
  <2> QED
    BY <1>3, <1>8, <2>1, <2>2 DEF Edited, Whole
<1> QED
  BY <1>1, <1>4, <1>5, <1>6, <1>7, <1>8 DEF Kinds

\* A request that holds a copy has kept it, or has loaded and edited the row.
Kept(d) ==
  /\ Holds(d) /\ calls'[d].copy = calls[d].copy
  /\ calls[d].crossed => calls'[d].crossed
Loaded(d) ==
  /\ calls[d].stage \in {"asked", "checked"} /\ Sound(calls[d]) /\ calls'[d].copy = Edited(d)
  /\ calls[d].kind = "billing" => calls[d].stage = "checked"
  /\ row' = row
\* The row is left, or written by one request, and others that hold a copy are crossed.
Written ==
  \/ row' = row
  \/ \E c \in Slots :
       /\ Holds(c) /\ row' = calls[c].copy
       /\ \A d \in Slots : Holds(d)' => Kept(d) /\ (d = c \/ calls'[d].crossed)

LEMMA RowSteps ==
  ASSUME Shape, [Next]_vars
  PROVE  /\ Written
         /\ \A d \in Slots : Holds(d)' => Kept(d) \/ Loaded(d)
         /\ \A d \in Slots : calls'[d].stage = "checked" =>
              calls[d].stage = "checked" \/ IsSubscriptionActive(status)
<1>1. ASSUME NEW c \in Slots, Serve(c) \/ ServerFails(c)
      PROVE  /\ Written
             /\ \A d \in Slots : Holds(d)' => Kept(d) \/ Loaded(d)
             /\ \A d \in Slots : calls'[d].stage = "checked" =>
                  calls[d].stage = "checked" \/ IsSubscriptionActive(status)
  <2>1. PICK q \in CallType : ServedAs(c, q)
    BY <1>1, ServeSteps
  <2>2. Served(c, q)
    BY <2>1 DEF ServedAs, Served, Forgets, Settles, Loads, Saves, Provisions, Goes, Crossed
  <2>3. calls'[c] = q /\ \A d \in Slots : d # c =>
          (calls'[d] = calls[d] \/ (Holds(d) /\ calls'[d] = Crossed(calls[d])))
    BY <2>2, ServedOthers
  <2>4. \A d \in Slots : d # c => /\ calls'[d].stage = calls[d].stage
                                  /\ calls'[d].copy = calls[d].copy
                                  /\ calls[d].crossed => calls'[d].crossed
    BY <2>3, CrossedFields
  <2>5. ASSUME NEW d \in Slots, d # c, Holds(d)' PROVE Kept(d)
    <3>1. Holds(d)
      BY <2>4, <2>5 DEF Holds
    <3> QED
      BY <2>4, <2>5, <3>1, Zenon DEF Kept
  <2>6. Holds(c)' => Kept(c) \/ Loaded(c)
    <3>1. CASE Forgets(c, q) \/ Settles(c, q)
      BY <2>3, <3>1 DEF Forgets, Settles, Holds, Free
    <3>2. CASE Loads(c, q)
      BY <2>3, <3>2 DEF Loads, Loaded, serverVars
    <3>3. CASE Saves(c, q) \/ Provisions(c, q)
      BY <2>3, <3>3 DEF Saves, Provisions, Same, Kept, Holds
    <3> QED
      BY <2>1, <3>1, <3>2, <3>3 DEF ServedAs
  <2>7. calls'[c].stage = "checked" => IsSubscriptionActive(status)
    BY <2>1, <2>3 DEF ServedAs, Forgets, Settles, Loads, Saves, Provisions, Free
  <2>8. Written
    <3>1. CASE Saves(c, q)
      <4>1. \A d \in Slots : d # c /\ Holds(d) => calls'[d].crossed
        <5>1. \A d \in Slots : d # c /\ Holds(d) => calls'[d] = Crossed(calls[d])
          BY <3>1 DEF Saves, Goes, Crossed
        <5> QED
          BY <5>1, CrossedFields
      <4>2. Kept(c)
        BY <2>3, <3>1 DEF Saves, Same, Kept
      <4> QED
        BY <2>5, <3>1, <4>1, <4>2 DEF Written, Saves, Kept
    <3>2. CASE ~Saves(c, q)
      BY <2>1, <3>2 DEF ServedAs, Forgets, Settles, Loads, Provisions, Written, serverVars
    <3> QED
      BY <3>1, <3>2
  <2>9. ASSUME NEW d \in Slots, calls'[d].stage = "checked"
        PROVE  calls[d].stage = "checked" \/ IsSubscriptionActive(status)
    BY <2>4, <2>7, <2>9
  <2> QED
    BY <2>5, <2>6, <2>8, <2>9
<1>2. ASSUME NEW t \in Tabs, BrowserStep(t)
      PROVE  /\ row' = row
             /\ \A d \in Slots : Holds(d)' => Kept(d)
             /\ \A d \in Slots : calls'[d].stage = "checked" => calls[d].stage = "checked"
  BY <1>2, BrowserCalls DEF serverVars, Holds, Kept, Free, Began
<1>3. ASSUME UNCHANGED <<serverVars, calls, tabs>>
      PROVE  /\ row' = row
             /\ \A d \in Slots : Holds(d)' => Kept(d)
             /\ \A d \in Slots : calls'[d].stage = "checked" => calls[d].stage = "checked"
  BY <1>3 DEF serverVars, Holds, Kept
<1> QED
  BY <1>1, <1>2, <1>3, NextSteps DEF vars, Written

WholeInv == Whole(row) /\ \A c \in Slots : Holds(c) => Whole(calls[c].copy)

LEMMA WholePreserved == Shape /\ WholeInv /\ [Next]_vars => WholeInv'
<1> SUFFICES ASSUME Shape, WholeInv, [Next]_vars PROVE WholeInv'
  OBVIOUS
<1>1. Whole(row)'
  BY RowSteps DEF Written, WholeInv, Whole
<1>2. ASSUME NEW d \in Slots, Holds(d)' PROVE Whole(calls[d].copy)'
  <2>1. CASE Kept(d)
    BY <2>1 DEF Kept, WholeInv, Whole
  <2>2. CASE Loaded(d)
    BY <2>2, EditedWhole DEF Loaded, WholeInv, Whole
  <2> QED
    BY <1>2, <2>1, <2>2, RowSteps
<1> QED
  BY <1>1, <1>2 DEF WholeInv

LEMMA WholeStarts == Init => WholeInv
<1> SUFFICES ASSUME Init PROVE WholeInv
  OBVIOUS
<1>1. PICK p \in Packs : row = CreateInitialState(p)
  BY DEF Init
<1> QED
  BY <1>1 DEF CreateInitialState, WholeInv, Whole, Init, Holds, Free

(* The row never contradicts itself, in whatever order requests that load   *)
(* and write it in statements of their own come: loadState, saveState.      *)
THEOREM RowStaysWhole == Spec => []RowIsWhole
<1>1. Init => Shape /\ WholeInv
  BY ShapeStarts, WholeStarts
<1>2. Shape /\ WholeInv /\ [Next]_vars => (Shape /\ WholeInv)'
  BY ShapePreserved, WholePreserved
<1>3. WholeInv => RowIsWhole
  BY DEF WholeInv, RowIsWhole
<1> QED
  BY <1>1, <1>2, <1>3, PTL DEF Spec

-----------------------------------------------------------------------------
(* Payment: "billing" comes into the row through a request whose check has  *)
(* found the subscription active, and that needs a payment.                 *)
BilledInv ==
  /\ "billing" \in row.done => Paid
  /\ \A c \in Slots : Holds(c) /\ "billing" \in calls[c].copy.done => Paid
  /\ \A c \in Slots : calls[c].stage = "checked" => Paid

LEMMA EditedBilled ==
  ASSUME Shape, NEW c \in Slots, calls[c].stage # "free", "billing" \in Edited(c).done
  PROVE  calls[c].kind = "billing" \/ "billing" \in row.done
BY DEF Shape, Types, Proper, Kinds, RowType, Edited, CompleteBilling, SaveIndustry, SaveProfile,
       UpdateModules, SkipSetup, Complete

LEMMA BilledPreserved == Shape /\ SubInv /\ BilledInv /\ [Next]_vars => BilledInv'
<1> SUFFICES ASSUME Shape, SubInv, BilledInv, [Next]_vars, ~Paid' PROVE BilledInv'
  BY DEF BilledInv
<1>1. ~Paid
  BY PaidForGood
<1>2. "billing" \notin row'.done
  BY <1>1, RowSteps DEF Written, BilledInv
<1>3. ASSUME NEW d \in Slots, Holds(d)' PROVE "billing" \notin calls'[d].copy.done
  <2>1. CASE Kept(d)
    BY <1>1, <2>1 DEF Kept, BilledInv
  <2>2. CASE Loaded(d)
    BY <1>1, <2>2, EditedBilled DEF Loaded, BilledInv
  <2> QED
    BY <1>3, <2>1, <2>2, RowSteps
<1>4. ASSUME NEW d \in Slots, calls'[d].stage = "checked" PROVE FALSE
  BY <1>1, <1>4, RowSteps DEF BilledInv, IsSubscriptionActive, SubInv, AccessWasPaidFor, RequiresPayment
<1> QED
  BY <1>2, <1>3, <1>4 DEF BilledInv

(* Nobody who never paid has the use of the program, nor the billing step   *)
(* in the row: HandleWebhook, CompleteBilling.                              *)
THEOREM BillingIsPaidFor == Spec => []BillingNeedsPayment
<1> DEFINE I == Shape /\ SubInv /\ BilledInv
<1>1. Init => I
  <2> SUFFICES ASSUME Init PROVE I
    OBVIOUS
  <2>1. PICK p \in Packs : row = CreateInitialState(p)
    BY DEF Init
  <2>2. BilledInv
    BY <2>1 DEF Init, BilledInv, Holds, Free, CreateInitialState
  <2> QED
    BY <2>2, ShapeStarts, SubscriptionStarts DEF Init
<1>2. I /\ [Next]_vars => I'
  BY ShapePreserved, SubInvPreserved, BilledPreserved
<1>3. I => BillingNeedsPayment
  BY DEF SubInv, BilledInv, BillingNeedsPayment
<1> QED
  BY <1>1, <1>2, <1>3, PTL DEF Spec

(* Webhooks in their order bring the status that Stripe has: HandleWebhook. *)
THEOREM StatusComesRight == Spec => []StatusFollowsStripe
<1>1. Init => Shape /\ SubInv
  BY ShapeStarts, SubscriptionStarts DEF Init
<1>2. Shape /\ SubInv /\ [Next]_vars => (Shape /\ SubInv)'
  BY ShapePreserved, SubInvPreserved
<1> QED
  BY <1>1, <1>2, StatusInTheEnd, PTL DEF Spec

-----------------------------------------------------------------------------
(* A copy that nobody has crossed contains all that the row has recorded.   *)
LoneInv ==
  \A c \in Slots : Holds(c) /\ ~calls[c].crossed => Progress(row) \subseteq Progress(calls[c].copy)

LEMMA EditedProgress ==
  ASSUME Shape, NEW c \in Slots, calls[c].stage # "free"
  PROVE  Progress(row) \subseteq Progress(Edited(c))
<1> DEFINE e == Edited(c)
<1>1. /\ row.done \subseteq e.done
      /\ row.profile => e.profile
      /\ row.skipped => e.skipped
      /\ row.completed => e.completed
  BY DEF Shape, Types, Proper, Kinds, RowType, Edited, CompleteBilling, SaveIndustry, SaveProfile,
         UpdateModules, SkipSetup, Complete
<1> HIDE DEF e
<1>2. \A r : Progress(r) = r.done \cup {f \in {"profile"} : r.profile} \cup {f \in {"skipped"} : r.skipped}
                                   \cup {f \in {"completed"} : r.completed}
  BY DEF Progress
<1>3. Progress(row) \subseteq Progress(e)
  BY <1>1, <1>2
<1> QED
  BY <1>3 DEF e

LEMMA LonePreserved == Shape /\ LoneInv /\ [Next]_vars => LoneInv'
<1> SUFFICES ASSUME Shape, LoneInv, [Next]_vars, NEW d \in Slots, Holds(d)', ~calls'[d].crossed
             PROVE  Progress(row') \subseteq Progress(calls'[d].copy)
  BY DEF LoneInv, Progress
<1>1. CASE Loaded(d)
  BY <1>1, EditedProgress DEF Loaded
<1>2. CASE Kept(d)
  BY <1>2, RowSteps DEF Written, Kept, LoneInv
<1> QED
  BY <1>1, <1>2, RowSteps

(* One request at a time loses nothing: loadState, saveState.               *)
THEOREM LoneSavesLoseNothing == Spec => LoneSaveKeepsProgress
<1>1. Init => Shape /\ LoneInv
  BY ShapeStarts DEF Init, LoneInv, Holds, Free
<1>2. Shape /\ LoneInv /\ [Next]_vars => (Shape /\ LoneInv)'
  BY ShapePreserved, LonePreserved
<1>3. LoneInv /\ [Next]_vars =>
        [\A c \in Slots :
           Holds(c) /\ ~calls[c].crossed /\ row' = calls[c].copy /\ row' # row =>
             Progress(row) \subseteq Progress(row')]_vars
  BY DEF LoneInv
<1> QED
  BY <1>1, <1>2, <1>3, PTL DEF Spec, LoneSaveKeepsProgress

-----------------------------------------------------------------------------
(* Provisioning: what is no longer to do has been done, while nobody        *)
(* crosses.                                                                 *)
Enabling(q, on) == (q.copy.modules \cap Registered) \ q.todo \subseteq on
Disabling(q, on) == q.slipped \/ on \cap Registered \subseteq q.copy.modules \cup q.todo
ProvisionInv ==
  \A c \in Slots : calls[c].stage = "provisioning" /\ ~calls[c].crossed =>
    /\ Enabling(calls[c], enabled) /\ Disabling(calls[c], enabled)
    /\ calls[c].kind # "complete" => row = calls[c].copy

\* The other requests, of a step that is not their own.
LEMMA OthersProvision ==
  ASSUME Shape, NEW c \in Slots, NEW q \in CallType, ServedAs(c, q),
         NEW d \in Slots, d # c, calls'[d].stage = "provisioning", ~calls'[d].crossed
  PROVE  calls'[d] = calls[d] /\ row' = row /\ enabled' = enabled
<1>1. Served(c, q)
  BY DEF ServedAs, Served, Forgets, Settles, Loads, Saves, Provisions, Goes, Crossed
<1>2. calls'[d] = calls[d] /\ Holds(d)
  BY <1>1, ServedOthers, CrossedFields DEF Holds
<1>3. ~Goes(c, q)
  <2>1. Goes(c, q) => calls'[d] = Crossed(calls[d])
    BY <1>2 DEF Goes, Crossed
  <2> QED
    BY <2>1, CrossedFields
<1> QED
  BY <1>2, <1>3 DEF ServedAs, Forgets, Settles, Loads, Saves, Provisions, serverVars

LEMMA ProvisionPreserved == Shape /\ ProvisionInv /\ [Next]_vars => ProvisionInv'
<1> SUFFICES ASSUME Shape, ProvisionInv, [Next]_vars, NEW d \in Slots,
                    calls'[d].stage = "provisioning", ~calls'[d].crossed
             PROVE  /\ Enabling(calls'[d], enabled') /\ Disabling(calls'[d], enabled')
                    /\ calls'[d].kind # "complete" => row' = calls'[d].copy
  BY DEF ProvisionInv, Enabling, Disabling
<1>1. ASSUME calls'[d] = calls[d], row' = row, enabled' = enabled
      PROVE  /\ Enabling(calls'[d], enabled') /\ Disabling(calls'[d], enabled')
             /\ calls'[d].kind # "complete" => row' = calls'[d].copy
  BY <1>1 DEF ProvisionInv
<1>2. ASSUME NEW q \in CallType, ServedAs(d, q)
      PROVE  /\ Enabling(calls'[d], enabled') /\ Disabling(calls'[d], enabled')
             /\ calls'[d].kind # "complete" => row' = calls'[d].copy
  <2>1. calls'[d] = q
    <3>1. Served(d, q)
      BY <1>2 DEF ServedAs, Served, Forgets, Settles, Loads, Saves, Provisions, Goes, Crossed
    <3> QED
      BY <3>1, ServedOthers
  <2>2. CASE Forgets(d, q) \/ Settles(d, q)
    BY <2>1, <2>2 DEF Forgets, Settles, Free
  <2>3. CASE Loads(d, q) \/ Saves(d, q)
    <3>1. q.todo = Registered /\ (q.kind # "complete" => row' = q.copy)
      BY <2>1, <2>3 DEF Loads, Saves
    <3>2. enabled' \cap Registered \subseteq q.copy.modules \cup q.todo
      BY <3>1
    <3>3. (q.copy.modules \cap Registered) \ q.todo \subseteq enabled'
      BY <3>1
    <3> QED
      BY <2>1, <3>1, <3>2, <3>3 DEF Enabling, Disabling
  <2>4. CASE Provisions(d, q)
    <3>1. /\ calls[d].stage = "provisioning" /\ ~calls[d].crossed /\ q.copy = calls[d].copy
          /\ q.kind = calls[d].kind /\ row' = row
      BY <2>1, <2>4 DEF Provisions, Same
    <3>2. /\ Enabling(calls[d], enabled) /\ Disabling(calls[d], enabled)
          /\ calls[d].kind # "complete" => row = calls[d].copy
      BY <3>1 DEF ProvisionInv
    <3>3. PICK id \in calls[d].todo :
             /\ q.todo = calls[d].todo \ {id}
             /\ \/ /\ enabled' = IF id \in calls[d].copy.modules THEN enabled \cup {id} ELSE enabled \ {id}
                   /\ q.slipped = calls[d].slipped
                \/ /\ enabled' = enabled
                   /\ id \notin calls[d].copy.modules /\ q.slipped
      BY <2>4 DEF Provisions
    <3>4. Enabling(q, enabled')
      BY <3>1, <3>2, <3>3 DEF Enabling
    <3>5. Disabling(q, enabled')
      <4>1. CASE q.slipped
        BY <4>1 DEF Disabling
      <4>2. CASE ~q.slipped
        <5>1. enabled \cap Registered \subseteq calls[d].copy.modules \cup calls[d].todo
          BY <3>2, <3>3, <4>2 DEF Disabling
        <5>2. enabled' = IF id \in calls[d].copy.modules THEN enabled \cup {id} ELSE enabled \ {id}
          BY <3>3, <4>2
        <5>3. enabled' \cap Registered \subseteq q.copy.modules \cup q.todo
          BY <3>1, <3>3, <5>1, <5>2
        <5> QED
          BY <5>3 DEF Disabling
      <4> QED
        BY <4>1, <4>2
    <3> QED
      BY <2>1, <3>1, <3>2, <3>4, <3>5
  <2> QED
    BY <1>2, <2>2, <2>3, <2>4 DEF ServedAs
<1>3. ASSUME NEW c \in Slots, Serve(c) \/ ServerFails(c)
      PROVE  /\ Enabling(calls'[d], enabled') /\ Disabling(calls'[d], enabled')
             /\ calls'[d].kind # "complete" => row' = calls'[d].copy
  <2>1. PICK q \in CallType : ServedAs(c, q)
    BY <1>3, ServeSteps
  <2> QED
    BY <1>1, <1>2, <2>1, OthersProvision
<1>4. ASSUME NEW t \in Tabs, BrowserStep(t)
      PROVE  calls'[d] = calls[d] /\ row' = row /\ enabled' = enabled
  BY <1>4, BrowserCalls DEF serverVars, Free, Began
<1>5. ASSUME UNCHANGED <<serverVars, calls, tabs>>
      PROVE  calls'[d] = calls[d] /\ row' = row /\ enabled' = enabled
  BY <1>5 DEF serverVars
<1> QED
  BY <1>1, <1>3, <1>4, <1>5, NextSteps DEF vars

(* "ok" means provisioned: provisionPlugins, UpdateModules, Complete.       *)
THEOREM OkIsProvisioned == Spec => OkMeansProvisioned
<1>1. Init => Shape /\ ProvisionInv
  BY ShapeStarts DEF Init, ProvisionInv, Free
<1>2. Shape /\ ProvisionInv /\ [Next]_vars => (Shape /\ ProvisionInv)'
  BY ShapePreserved, ProvisionPreserved
<1> DEFINE A(d) ==
      /\ row'.modules \cap Registered \subseteq enabled'
      /\ calls[d].slipped \/ enabled' \cap Registered \subseteq row'.modules
<1>3. ASSUME Shape, ProvisionInv, [Next]_vars, NEW d \in Slots,
             calls[d].stage = "provisioning", calls'[d].stage = "ok", ~calls[d].crossed
      PROVE  A(d)
  <2>1. ASSUME NEW c \in Slots, NEW q \in CallType, ServedAs(c, q) PROVE A(d)
    <3>1. Served(c, q)
      BY <2>1 DEF ServedAs, Served, Forgets, Settles, Loads, Saves, Provisions, Goes, Crossed
    <3>2. d = c /\ calls'[d] = q
      BY <1>3, <3>1, ServedOthers, CrossedFields
    <3>3. Settles(d, q) \/ Saves(d, q)
      BY <1>3, <2>1, <3>2 DEF ServedAs, Forgets, Loads, Provisions, Free
    <3>4. /\ Enabling(calls[d], enabled) /\ Disabling(calls[d], enabled)
          /\ calls[d].kind # "complete" => row = calls[d].copy
      BY <1>3 DEF ProvisionInv
    <3>5. calls[d].todo = {} /\ enabled' = enabled /\ row' = calls[d].copy
      BY <1>3, <3>2, <3>3, <3>4 DEF Settles, Saves, Same, serverVars
    <3>6. row'.modules \cap Registered \subseteq enabled'
      BY <3>4, <3>5 DEF Enabling
    <3>7. calls[d].slipped \/ enabled' \cap Registered \subseteq row'.modules
      <4>1. calls[d].slipped \/ enabled \cap Registered \subseteq calls[d].copy.modules \cup calls[d].todo
        BY <3>4 DEF Disabling
      <4>2. CASE enabled \cap Registered \subseteq calls[d].copy.modules \cup calls[d].todo
        BY <3>5, <4>2
      <4> QED
        BY <4>1, <4>2
    <3> QED
      BY <3>6, <3>7
  <2>2. ASSUME NEW t \in Tabs, BrowserStep(t) PROVE FALSE
    BY <1>3, <2>2, BrowserCalls DEF Free, Began
  <2> QED
    BY <1>3, <2>1, <2>2, NextSteps, ServeSteps DEF vars
<1>4. Shape /\ ProvisionInv /\ [Next]_vars =>
        [\A c \in Slots :
           calls[c].stage = "provisioning" /\ calls'[c].stage = "ok" /\ ~calls[c].crossed => A(c)]_vars
  BY <1>3
<1> QED
  BY <1>1, <1>2, <1>4, PTL DEF Spec, OkMeansProvisioned

-----------------------------------------------------------------------------
(* The pages: a page, and a request sent from it, are behind the steps that *)
(* the server has carried out.                                              *)
Behind(s) ==
  CASE s = "billing" -> {"industry", "profile", "modules", "setup", "complete"}
    [] s = "industry" -> {"profile", "modules", "setup", "complete"}
    [] s = "profile" -> {"modules", "setup", "complete"}
    [] s = "modules" -> {"setup", "complete"}

Saved == {"industry", "profile", "modules"}

LEMMA ReachFacts ==
  ASSUME NEW t \in Tabs, NEW s \in Saved \cup {"billing"}
  PROVE  ReachedBy(t, s) <=> tabs[t].page \in Behind(s)
<1>1. /\ StepsAfter("billing") = 2 .. 6 /\ StepsAfter("industry") = 3 .. 6
      /\ StepsAfter("profile") = 4 .. 6 /\ StepsAfter("modules") = 5 .. 6
  BY DEF StepsAfter, Wizard
<1>2. /\ Wizard[2] = "industry" /\ Wizard[3] = "profile"
      /\ Wizard[4] = "modules" /\ Wizard[5] = "setup" /\ Wizard[6] = "complete"
  BY DEF Wizard
<1>3. {Wizard[i] : i \in StepsAfter(s)} = Behind(s)
  <2>1. 2 .. 6 = {2, 3, 4, 5, 6} /\ 3 .. 6 = {3, 4, 5, 6} /\ 4 .. 6 = {4, 5, 6} /\ 5 .. 6 = {5, 6}
    OBVIOUS
  <2>2. CASE s = "billing"
    BY <1>1, <1>2, <2>1, <2>2 DEF Behind
  <2>3. CASE s = "industry"
    BY <1>1, <1>2, <2>1, <2>3 DEF Behind
  <2>4. CASE s = "profile"
    BY <1>1, <1>2, <2>1, <2>4 DEF Behind
  <2>5. CASE s = "modules"
    BY <1>1, <1>2, <2>1, <2>5 DEF Behind
  <2> QED
    BY <2>2, <2>3, <2>4, <2>5 DEF Saved
<1> QED
  BY <1>3 DEF ReachedBy

AdvanceInv ==
  /\ \A t \in Tabs, s \in Saved : tabs[t].page \in Behind(s) => s \in accepted
  /\ \A c \in Slots, s \in Saved : calls[c].stage # "free" /\ calls[c].from \in Behind(s) => s \in accepted
  /\ \A c \in Slots : calls[c].stage \in {"ok", "provisioning"} /\ calls[c].kind \in Saved =>
       calls[c].kind \in accepted
  /\ \A t \in Tabs :
       tabs[t].guard = "passed" /\ ~tabs[t].open /\ tabs[t].page \in Behind("billing") => Paid

LEMMA ServerAdvances ==
  ASSUME Shape, AdvanceInv, NEW c \in Slots, Serve(c) \/ ServerFails(c), Paid => Paid'
  PROVE  AdvanceInv'
<1>1. PICK q \in CallType : ServedAs(c, q)
  BY ServeSteps
<1>2. Served(c, q)
  BY <1>1 DEF ServedAs, Served, Forgets, Settles, Loads, Saves, Provisions, Goes, Crossed
<1>3. /\ calls'[c] = q
      /\ \A d \in Slots : d # c => /\ calls'[d].stage = calls[d].stage
                                   /\ calls'[d].kind = calls[d].kind
                                   /\ calls'[d].from = calls[d].from
  BY <1>2, ServedOthers, CrossedFields
<1>4. accepted \subseteq accepted'
  BY <1>1 DEF ServedAs, Forgets, Settles, Loads, Saves, Provisions, serverVars
<1>5. tabs' = tabs
  BY DEF Serve, ServerFails
<1>6. q.stage # "free" => q.from = calls[c].from /\ calls[c].stage # "free"
  BY <1>1 DEF ServedAs, Forgets, Settles, Loads, Saves, Provisions, Same, Free, Holds
<1>7. q.stage \in {"ok", "provisioning"} /\ q.kind \in Saved => q.kind \in accepted'
  <2>1. CASE Saves(c, q)
    BY <2>1 DEF Saves
  <2>2. CASE Provisions(c, q)
    BY <1>4, <2>2 DEF Provisions, Same, AdvanceInv
  <2>3. CASE Forgets(c, q) \/ Loads(c, q)
    BY <2>3 DEF Forgets, Loads, Free, Saved
  <2>4. CASE Settles(c, q)
    BY <1>4, <2>4 DEF Settles, Same, AdvanceInv, Saved
  <2> QED
    BY <1>1, <2>1, <2>2, <2>3, <2>4 DEF ServedAs
<1> QED
  BY <1>3, <1>4, <1>5, <1>6, <1>7 DEF AdvanceInv

LEMMA BrowserAdvances ==
  ASSUME Shape, SubInv, AdvanceInv, NEW t \in Tabs, BrowserStep(t), Paid => Paid'
  PROVE  AdvanceInv'
<1>1. PICK tab \in TabType : Turned(t, tab) /\ Cleared(t, tab) /\ Stepped(t, tab)
  BY DEF BrowserStep
<1>2. /\ accepted' = accepted /\ tabs' = [tabs EXCEPT ![t] = tab]
      /\ \A d \in Slots : calls'[d] \in {calls[d], Free} \/ (Began(calls'[d]) /\ calls'[d].from = tab.page)
  <2>1. CASE Looked(t, tab)
    BY <2>1 DEF Looked, serverVars
  <2>2. ASSUME NEW c \in Slots, NEW q \in CallType, Browsed(t, tab, c, q)
        PROVE  /\ accepted' = accepted /\ tabs' = [tabs EXCEPT ![t] = tab]
               /\ \A d \in Slots : calls'[d] \in {calls[d], Free}
                                     \/ (Began(calls'[d]) /\ calls'[d].from = tab.page)
    <3>1. \A d \in Slots : calls'[d] = IF d = c THEN q ELSE calls[d]
      BY <2>2 DEF Browsed, Shape, Types
    <3> QED
      BY <2>2, <3>1 DEF Browsed, serverVars
  <2> QED
    BY <1>1, <2>1, <2>2 DEF Stepped
<1>3. tabs'[t] = tab /\ \A u \in Tabs : u # t => tabs'[u] = tabs[u]
  BY <1>2 DEF Shape, Types
<1>4. ASSUME NEW s \in Saved, tab.page \in Behind(s) PROVE s \in accepted
  <2>1. CASE tab.page \in {tabs[t].page, "success", "industry", "settings", "billing", "dunning"}
    BY <1>4, <2>1 DEF AdvanceInv, Saved, Behind
  <2>2. CASE <<tabs[t].page, tab.page>> \in
               {<<"modules", "profile">>, <<"setup", "modules">>, <<"setup", "complete">>}
    BY <1>4, <2>2 DEF AdvanceInv, Saved, Behind
  <2>3. ASSUME NEW c \in tabs[t].calls, calls[c].stage = "ok",
               <<calls[c].from, tab.page>> \in {<<"industry", "profile">>, <<"profile", "modules">>,
                                               <<"modules", "setup">>, <<"setup", "complete">>}
        PROVE  s \in accepted
    <3>1. c \in Slots
      BY DEF Shape, Types, TabType
    <3>2. calls[c].kind \in Kinds /\ calls[c].from \in Sent(calls[c].kind)
      BY <2>3, <3>1 DEF Shape, Proper
    <3>3. calls[c].from \in Saved => calls[c].kind = calls[c].from
      BY <3>2 DEF Kinds, Sent, Saved
    <3>4. calls[c].from = s \/ calls[c].from \in Behind(s)
      BY <1>4, <2>3 DEF Saved, Behind
    <3> QED
      BY <2>3, <3>1, <3>3, <3>4 DEF AdvanceInv
  <2> QED
    BY <1>1, <2>1, <2>2, <2>3 DEF Turned
<1>5. tab.guard = "passed" /\ ~tab.open /\ tab.page \in Behind("billing") => Paid
  BY <1>1 DEF Cleared, AdvanceInv, Behind, SubInv, AccessWasPaidFor
<1>6. \A u \in Tabs, s \in Saved : tabs'[u].page \in Behind(s) => s \in accepted'
  BY <1>2, <1>3, <1>4 DEF AdvanceInv
<1>7. \A d \in Slots, s \in Saved : calls'[d].stage # "free" /\ calls'[d].from \in Behind(s) => s \in accepted'
  BY <1>2, <1>4 DEF AdvanceInv, Free
<1>8. \A d \in Slots : calls'[d].stage \in {"ok", "provisioning"} /\ calls'[d].kind \in Saved =>
        calls'[d].kind \in accepted'
  BY <1>2 DEF AdvanceInv, Free, Began
<1>9. \A u \in Tabs :
        tabs'[u].guard = "passed" /\ ~tabs'[u].open /\ tabs'[u].page \in Behind("billing") => Paid'
  BY <1>3, <1>5 DEF AdvanceInv
<1> QED
  BY <1>6, <1>7, <1>8, <1>9 DEF AdvanceInv, Behind

(* Nobody is shown a later page of the wizard before the server has carried *)
(* out the steps before it, nor without payment: use-onboarding.ts,         *)
(* subscription-guard.tsx.                                                  *)
THEOREM PagesFollowTheServer == Spec => []AdvancedOnlyAfterSave
<1> DEFINE I == Shape /\ SubInv /\ AdvanceInv
<1>1. Init => I
  <2> SUFFICES ASSUME Init PROVE I
    OBVIOUS
  <2>1. \A t \in Tabs : tabs[t] = Tab("billing")
    BY DEF Init
  <2>2. \A c \in Slots : calls[c] = Free
    BY DEF Init
  <2>3. AdvanceInv
    BY <2>1, <2>2 DEF AdvanceInv, Tab, Free, Behind, Saved
  <2> QED
    BY <2>3, ShapeStarts, SubscriptionStarts DEF Init
<1>2. I /\ [Next]_vars => I'
  <2> SUFFICES ASSUME I, [Next]_vars PROVE I'
    OBVIOUS
  <2>1. Paid => Paid'
    BY PaidForGood
  <2>2. ASSUME UNCHANGED <<serverVars, calls, tabs>> PROVE AdvanceInv'
    <3>1. accepted' = accepted /\ calls' = calls /\ tabs' = tabs
      BY <2>2 DEF serverVars
    <3>2. \A u \in Tabs, s \in Saved : tabs'[u].page \in Behind(s) => s \in accepted'
      BY <3>1 DEF AdvanceInv
    <3>3. \A d \in Slots, s \in Saved :
            calls'[d].stage # "free" /\ calls'[d].from \in Behind(s) => s \in accepted'
      BY <3>1 DEF AdvanceInv
    <3>4. \A d \in Slots : calls'[d].stage \in {"ok", "provisioning"} /\ calls'[d].kind \in Saved =>
            calls'[d].kind \in accepted'
      BY <3>1 DEF AdvanceInv
    <3>5. \A u \in Tabs : tabs'[u].guard = "passed" /\ ~tabs'[u].open
                           /\ tabs'[u].page \in Behind("billing") => Paid'
      BY <2>1, <3>1 DEF AdvanceInv
    <3> QED
      BY <3>2, <3>3, <3>4, <3>5 DEF AdvanceInv, Behind
  <2>3. AdvanceInv'
    BY <2>1, <2>2, ServerAdvances, BrowserAdvances, NextSteps DEF vars
  <2> QED
    BY <2>3, ShapePreserved, SubInvPreserved
<1>3. I => AdvancedOnlyAfterSave
  <2> SUFFICES ASSUME I, NEW t \in Tabs
               PROVE  /\ \A s \in Saved : ReachedBy(t, s) => s \in accepted
                      /\ tabs[t].guard = "passed" /\ ~tabs[t].open /\ ReachedBy(t, "billing") => Paid
    BY DEF AdvancedOnlyAfterSave, Saved
  <2> QED
    BY ReachFacts DEF AdvanceInv
<1> QED
  BY <1>1, <1>2, <1>3, PTL DEF Spec

-----------------------------------------------------------------------------
(* The last page: the request it waits for is its own and under way, and    *)
(* when it is over, it says so.  Answers to requests of the pages before    *)
(* lead away from it; those of "success" and "settings" do not, but these   *)
(* pages are only left with nothing under way.                              *)
Lone == {"success", "settings"}
Entries == {"billing", "success", "industry", "settings", "dunning"}

Settled(t) ==
  /\ tabs[t].guard = "loading" => tabs[t].calls = {} /\ tabs[t].page \in Entries
  /\ tabs[t].page \in Lone => tabs[t].guard # "checking"
  /\ \A c \in tabs[t].calls, p \in Lone : calls[c].from = p <=> tabs[t].page = p
  /\ tabs[t].page = "success" => tabs[t].calls \subseteq {tabs[t].saver}
  /\ tabs[t].page = "complete" =>
       IF tabs[t].saver # 0
       THEN tabs[t].saver \in tabs[t].calls /\ calls[tabs[t].saver].from = "complete"
       ELSE tabs[t].cached \/ tabs[t].failed \/ tabs[t].overtaken

\* What is said to be complete is complete.
Completing ==
  \A c \in Slots :
    calls[c].kind = "complete" /\ calls[c].stage \in {"loaded", "provisioning", "ok"} =>
      calls[c].copy.completed

SettleInv == Completing /\ \A t \in Tabs : Settled(t)

LEMMA ServerSettles ==
  ASSUME Shape, SettleInv, NEW c \in Slots, Serve(c) \/ ServerFails(c)
  PROVE  SettleInv'
<1>1. PICK q \in CallType : ServedAs(c, q)
  BY ServeSteps
<1>2. Served(c, q)
  BY <1>1 DEF ServedAs, Served, Forgets, Settles, Loads, Saves, Provisions, Goes, Crossed
<1>3. /\ calls'[c] = q
      /\ \A d \in Slots : d # c => /\ calls'[d].stage = calls[d].stage
                                   /\ calls'[d].kind = calls[d].kind
                                   /\ calls'[d].from = calls[d].from
                                   /\ calls'[d].copy = calls[d].copy
  BY <1>2, ServedOthers, CrossedFields
<1>4. tabs' = tabs
  BY DEF Serve, ServerFails
<1>5. q.kind = "complete" /\ q.stage \in {"loaded", "provisioning", "ok"} => q.copy.completed
  <2>1. CASE Loads(c, q)
    <3>1. q.kind = "complete" => q.copy = Complete(row) /\ row \in RowType
      BY <2>1 DEF Loads, Same, Edited, Shape, Types
    <3> QED
      BY <3>1 DEF Complete, RowType
  <2>2. CASE Saves(c, q) \/ Provisions(c, q)
    BY <2>2 DEF Saves, Provisions, Same, Holds, SettleInv, Completing
  <2>3. CASE Forgets(c, q) \/ Settles(c, q)
    BY <2>3 DEF Forgets, Settles, Free
  <2> QED
    BY <1>1, <2>1, <2>2, <2>3 DEF ServedAs
<1>6. Completing'
  BY <1>3, <1>5 DEF SettleInv, Completing
<1>7. ASSUME NEW t \in Tabs, NEW d \in tabs[t].calls PROVE calls'[d].from = calls[d].from
  <2>1. d \in Slots
    BY DEF Shape, Types, TabType
  <2>2. CASE d = c
    BY <1>1, <1>3, <2>1, <2>2 DEF ServedAs, Forgets, Settles, Loads, Saves, Provisions, Same
  <2> QED
    BY <1>3, <2>1, <2>2
<1>8. ASSUME NEW t \in Tabs PROVE Settled(t)'
  BY <1>4, <1>7 DEF SettleInv, Settled
<1> QED
  BY <1>6, <1>8 DEF SettleInv

\* A step of the browser leaves other tabs and their requests alone.
LEMMA BrowserLeaves ==
  ASSUME Shape, NEW t \in Tabs, BrowserStep(t)
  PROVE  \A u \in Tabs : u # t =>
           tabs'[u] = tabs[u] /\ \A d \in tabs[u].calls : calls'[d] = calls[d]
<1>1. PICK tab \in TabType : Stepped(t, tab)
  BY DEF BrowserStep
<1> SUFFICES ASSUME NEW u \in Tabs, u # t
             PROVE  tabs'[u] = tabs[u] /\ \A d \in tabs[u].calls : calls'[d] = calls[d]
  OBVIOUS
<1>2. CASE Looked(t, tab)
  BY <1>2 DEF Looked, Shape, Types
<1>3. ASSUME NEW c \in Slots, NEW q \in CallType, Browsed(t, tab, c, q)
      PROVE  tabs'[u] = tabs[u] /\ \A d \in tabs[u].calls : calls'[d] = calls[d]
  <2>1. c \notin tabs[u].calls
    BY <1>3 DEF Browsed, Shape, Linked
  <2>2. tabs[u].calls \subseteq Slots
    BY DEF Shape, Types, TabType
  <2> QED
    BY <1>3, <2>1, <2>2 DEF Browsed, Shape, Types
<1> QED
  BY <1>1, <1>2, <1>3 DEF Stepped

\* A page of the wizard is rendered, at once or by a push.
LEMMA MountSettles ==
  ASSUME Shape, NEW t \in Tabs, Settled(t), NEW tab \in TabType, tab.calls \subseteq tabs[t].calls,
         tab.guard # "loading", NEW c \in Slots, NEW p \in Steps \cup {"success", "settings", "dunning"},
         Mount(t, tab, c, p),
         p \in Lone => tab.calls = {} /\ tab.guard # "checking",
         p \notin Lone => \A d \in tab.calls : calls[d].from \notin Lone
  PROVE  Settled(t)'
<1>1. tabs[t] \in TabType /\ tabs \in [Tabs -> TabType] /\ calls \in [Slots -> CallType]
      /\ tab.calls \subseteq Slots
  BY DEF Shape, Types, TabType
<1>2. CASE Mounts(p)
  <2>1. /\ tabs'[t].page = p /\ tabs'[t].guard = tab.guard /\ tabs'[t].saver = c
        /\ tabs'[t].calls = tab.calls \cup {c}
    <3>1. PICK ld : tabs' = [tabs EXCEPT ![t] =
            [tab EXCEPT !.page = p, !.saver = c, !.calls = @ \cup {c}, !.failed = FALSE, !.load = ld]]
      BY <1>2, Zenon DEF Mount
    <3> QED
      BY <1>1, <3>1 DEF TabType
  <2>2. calls'[c].from = p /\ \A d \in tab.calls : d # c => calls'[d] = calls[d]
    <3>1. PICK kind : calls' = [calls EXCEPT ![c] = Request(kind, {}, {}, p)]
      BY <1>2, Zenon DEF Mount
    <3>2. calls'[c] = Request(kind, {}, {}, p) /\ \A d \in tab.calls : d # c => calls'[d] = calls[d]
      BY <1>1, <3>1
    <3> QED
      BY <3>2 DEF Request
  <2>3. p \in {"success", "complete"}
    BY <1>2 DEF Mounts
  <2>4. p = "success" => tab.calls = {}
    BY DEF Lone
  <2>5. ASSUME NEW d \in tabs'[t].calls, NEW l \in Lone PROVE calls'[d].from = l <=> p = l
    BY <2>1, <2>2, <2>3, <2>4 DEF Lone
  <2>6. p = "success" => tabs'[t].calls \subseteq {tabs'[t].saver}
    BY <2>1, <2>4
  <2>7. p \in Lone => tabs'[t].guard # "checking"
    BY <2>1
  <2>8. p = "complete" => calls'[tabs'[t].saver].from = "complete" /\ tabs'[t].saver \in tabs'[t].calls
    BY <2>1, <2>2
  <2>9. c # 0 /\ tabs'[t].guard # "loading"
    BY <2>1, SlotsAssumption
  <2> QED
    BY <2>1, <2>5, <2>6, <2>7, <2>8, <2>9 DEF Settled
<1>3. CASE ~Mounts(p)
  <2>0. tabs' = [tabs EXCEPT ![t] =
                  [tab EXCEPT !.page = p, !.saver = 0, !.failed = FALSE, !.load = "none"]]
    BY <1>3 DEF Mount
  <2>1. /\ tabs'[t].page = p /\ tabs'[t].guard = tab.guard /\ tabs'[t].calls = tab.calls
    BY <1>1, <2>0 DEF TabType
  <2>2. \A d \in tab.calls : calls'[d] = calls[d]
    BY <1>1, <1>3 DEF Mount
  <2>3. p \notin {"success", "complete"}
    BY <1>3 DEF Mounts
  <2>4. \A d \in tabs'[t].calls, l \in Lone : calls'[d].from = l <=> p = l
    BY <2>1, <2>2, <2>3
  <2> QED
    BY <2>1, <2>3, <2>4 DEF Settled
<1> QED
  BY <1>2, <1>3

LEMMA PushSettles ==
  ASSUME Shape, NEW t \in Tabs, Settled(t), NEW tab \in TabType, tab.calls \subseteq tabs[t].calls,
         NEW c \in Slots, NEW p \in Steps, Push(t, tab, c, p),
         \A d \in tab.calls : calls[d].from \notin Lone
  PROVE  Settled(t)'
<1>1. PICK asking \in TabType : asking = [tab EXCEPT !.guard = "checking"]
  BY DEF TabType
<1>2. asking.guard = "checking" /\ asking.calls = tab.calls
  BY <1>1 DEF TabType
<1>3. Mount(t, asking, c, p) /\ p \notin Lone
  BY <1>1 DEF Push, Steps, Lone
<1> QED
  BY <1>2, <1>3, MountSettles

\* A request is begun from the page on display.
LEMMA PressSettles ==
  ASSUME Shape, NEW t \in Tabs, Settled(t), NEW kind, NEW packs, NEW chosen, NEW p,
         Rendered(t, p), p # "success", Press(t, Request(kind, packs, chosen, p))
  PROVE  Settled(t)'
<1>1. PICK c \in Slots :
        /\ IsFreeSlot(c)
        /\ calls' = [calls EXCEPT ![c] = Request(kind, packs, chosen, p)]
        /\ tabs' = [tabs EXCEPT ![t].saver = c, ![t].calls = @ \cup {c}, ![t].failed = FALSE]
  BY Zenon DEF Press
<1>2. tabs \in [Tabs -> TabType] /\ tabs[t] \in TabType /\ calls \in [Slots -> CallType]
      /\ tabs[t].calls \subseteq Slots
  BY DEF Shape, Types, TabType
<1>3. tabs' = [tabs EXCEPT ![t] = [tabs[t] EXCEPT !.saver = c, !.calls = @ \cup {c}, !.failed = FALSE]]
  BY <1>1, <1>2 DEF TabType
<1>4. /\ tabs'[t].page = p /\ tabs'[t].guard = tabs[t].guard /\ tabs'[t].saver = c
      /\ tabs'[t].calls = tabs[t].calls \cup {c}
  BY <1>2, <1>3 DEF TabType, Rendered
<1>5. calls'[c] = Request(kind, packs, chosen, p) /\ \A d \in tabs[t].calls : d # c => calls'[d] = calls[d]
  BY <1>1, <1>2
<1>6. calls'[c].from = p
  BY <1>5 DEF Request
<1>7. ASSUME NEW d \in tabs'[t].calls, NEW l \in Lone PROVE calls'[d].from = l <=> p = l
  BY <1>4, <1>5, <1>6 DEF Settled, Rendered
<1>8. c # 0 /\ tabs'[t].guard # "loading"
  BY <1>4, SlotsAssumption DEF Rendered
<1>9. p \in Lone => tabs'[t].guard # "checking"
  BY <1>4 DEF Settled, Rendered
<1> QED
  BY <1>4, <1>6, <1>7, <1>8, <1>9 DEF Settled

LEMMA UseSettles ==
  ASSUME Shape, NEW t \in Tabs, Settled(t), Use(t)
  PROVE  Settled(t)'
<1>1. tabs[t] \in TabType /\ tabs \in [Tabs -> TabType]
  BY DEF Shape, Types
<1>2. ASSUME NEW p \in {"success", "industry", "settings"},
             Quiet(t, [Tab(p) EXCEPT !.cached = tabs[t].cached])
      PROVE  Settled(t)'
  <2>1. tabs'[t].page = p /\ tabs'[t].guard = "loading" /\ tabs'[t].calls = {}
    BY <1>1, <1>2 DEF Quiet, Tab
  <2> QED
    BY <2>1 DEF Settled, Entries
<1>3. ASSUME NEW p \in {"success", "industry", "settings"}, Visit(t, p) PROVE Settled(t)'
  BY <1>2, <1>3 DEF Visit
<1>4. CASE PayPlan(t)
  BY <1>2, <1>4 DEF PayPlan
<1>5. CASE saveIndustry(t)
  <2>1. PICK packs : Press(t, Request("industry", packs, {}, "industry"))
    BY <1>5, Zenon DEF saveIndustry
  <2> QED
    BY <1>5, <2>1, PressSettles DEF saveIndustry
<1>6. CASE saveProfile(t)
  BY <1>6, PressSettles DEF saveProfile
<1>7. CASE saveModules(t)
  <2>1. PICK p \in {"modules", "settings"}, chosen \in SUBSET Modules :
          Rendered(t, p) /\ Press(t, Request("modules", {}, chosen, p))
    BY <1>7, Zenon DEF saveModules
  <2> QED
    BY <2>1, PressSettles
<1>8. CASE skipSetup(t)
  BY <1>8, PressSettles DEF skipSetup
<1>9. CASE tryAgain(t)
  BY <1>9, PressSettles DEF tryAgain
<1>10. tabs[t].page \notin Lone => \A d \in tabs[t].calls : calls[d].from \notin Lone
  BY DEF Settled
<1>11. CASE saveSetup(t)
  <2>1. PICK c \in Slots : Push(t, tabs[t], c, "complete")
    BY <1>11 DEF saveSetup
  <2> QED
    BY <1>1, <1>10, <1>11, <2>1, PushSettles DEF saveSetup, Rendered, Steps, Lone
<1>12. CASE onBack(t)
  <2>1. PICK c \in Slots : Push(t, tabs[t], c, prevStep(tabs[t].page))
    BY <1>12 DEF onBack
  <2>2. prevStep(tabs[t].page) \in Steps /\ tabs[t].page \notin Lone
    BY <1>12, WizardFacts DEF onBack, Steps, Lone
  <2> QED
    BY <1>1, <1>10, <2>1, <2>2, PushSettles
<1> QED
  BY <1>3, <1>4, <1>5, <1>6, <1>7, <1>8, <1>9, <1>11, <1>12 DEF Use

\* The guard lets the page be rendered, or sends the tab to another.
LEMMA GuardSettles ==
  ASSUME Shape, NEW t \in Tabs, Settled(t), SubscriptionGuard(t) \/ GuardFails(t)
  PROVE  Settled(t)'
<1> DEFINE tab == tabs[t]
<1>1. tab \in TabType /\ tabs \in [Tabs -> TabType]
  BY DEF Shape, Types
<1>2. ASSUME NEW new \in TabType, NEW open \in BOOLEAN,
             new = [tab EXCEPT !.guard = "passed", !.open = open],
             IF tab.guard = "loading" THEN \E c \in Slots : Mount(t, new, c, tab.page)
             ELSE Quiet(t, new)
      PROVE  Settled(t)'
  <2>1. /\ new.page = tab.page /\ new.guard = "passed" /\ new.calls = tab.calls
        /\ new.saver = tab.saver /\ new.cached = tab.cached /\ new.failed = tab.failed
        /\ new.overtaken = tab.overtaken
    BY <1>1, <1>2 DEF TabType
  <2>2. CASE tab.guard = "loading"
    <3>1. PICK c \in Slots : Mount(t, new, c, tab.page)
      BY <1>2, <2>2
    <3>2. tab.calls = {} /\ tab.page \in Steps \cup {"success", "settings", "dunning"}
      BY <1>1, <2>2 DEF Settled, TabType
    <3> QED
      BY <2>1, <3>1, <3>2, MountSettles
  <2>3. CASE tab.guard # "loading"
    <3>1. tabs'[t] = new /\ calls' = calls
      BY <1>1, <1>2, <2>3 DEF Quiet
    <3> QED
      BY <2>1, <3>1 DEF Settled
  <2> QED
    BY <2>2, <2>3
<1>3. CASE SubscriptionGuard(t) /\ Stays(t)
  <2>1. PICK new \in TabType : new = [tab EXCEPT !.guard = "passed", !.open = FALSE]
    BY <1>1 DEF TabType
  <2> QED
    BY <1>2, <1>3, <2>1 DEF SubscriptionGuard
<1>4. CASE GuardFails(t)
  <2>1. PICK new \in TabType : new = [tab EXCEPT !.guard = "passed", !.open = TRUE]
    BY <1>1 DEF TabType
  <2> QED
    BY <1>2, <1>4, <2>1 DEF GuardFails
<1>5. CASE SubscriptionGuard(t) /\ ~Stays(t)
  <2>1. PICK to \in {"dunning", "billing"} : to = IF RequiresDunning(status) THEN "dunning" ELSE "billing"
    OBVIOUS
  <2>2. /\ tabs' = [tabs EXCEPT ![t] =
                     [tab EXCEPT !.page = to, !.saver = 0, !.load = "none", !.failed = FALSE]]
        /\ calls' = calls /\ tab.guard # "passed"
    BY <1>5, <2>1 DEF SubscriptionGuard, Quiet
  <2>3. tabs'[t].page = to /\ tabs'[t].calls = tab.calls /\ tabs'[t].guard = tab.guard
    BY <1>1, <2>2 DEF TabType
  <2>4. tab.page # "success"
    BY <1>5 DEF Stays
  <2>5. tab.page = "settings" => tab.calls = {}
    BY <1>1, <2>2 DEF Settled, TabType, Lone
  <2>6. to \notin Lone /\ to # "complete" /\ to \in Entries
    BY DEF Lone, Entries
  <2>7. ASSUME NEW d \in tab.calls, NEW l \in Lone PROVE calls[d].from # l
    BY <2>4, <2>5, <2>7 DEF Settled, Lone
  <2> QED
    BY <2>2, <2>3, <2>6, <2>7 DEF Settled, Lone
<1> QED
  BY <1>3, <1>4, <1>5

\* An answer, an error or a broken connection ends a request.
LEMMA AnswerSettles ==
  ASSUME Shape, Completing, NEW t \in Tabs, Settled(t), NEW c \in Slots,
         Answered(t, c) \/ Rejected(t, c) \/ Lose(t, c)
  PROVE  Settled(t)'
<1> DEFINE tab == tabs[t]
<1>1. /\ tab \in TabType /\ tabs \in [Tabs -> TabType] /\ calls \in [Slots -> CallType]
      /\ c \in tab.calls /\ calls[c] \in CallType /\ Proper(calls[c]) /\ calls[c].stage # "free"
      /\ tab.calls \subseteq Slots
  BY DEF Shape, Types, TabType, Linked, Answered, Rejected, Lose
<1>2. PICK saver \in Slots \cup {0} : saver = IF tab.saver = c THEN 0 ELSE tab.saver
  BY <1>1 DEF TabType
\* The page stays, and is told if it is the one that waited.
<1>3. ASSUME NEW new \in TabType, tabs' = [tabs EXCEPT ![t] = new],
             new.page = tab.page, new.guard = tab.guard, new.calls = tab.calls \ {c},
             new.saver = saver, new.overtaken = tab.overtaken,
             NEW q, calls' = [calls EXCEPT ![c] = q],
             tab.page = "complete" =>
               IF tab.saver = c THEN new.cached \/ new.failed
               ELSE new.failed = tab.failed /\ (new.cached = tab.cached \/ new.cached)
      PROVE  Settled(t)'
  <2>1. tabs'[t] = new /\ \A d \in new.calls : calls'[d] = calls[d]
    BY <1>1, <1>3
  <2>2. tab.guard # "loading"
    BY <1>1 DEF Settled
  <2>3. tab.page = "success" => new.calls \subseteq {new.saver}
    BY <1>1, <1>2, <1>3 DEF Settled
  <2>4. ASSUME NEW d \in new.calls, NEW l \in Lone PROVE calls'[d].from = l <=> new.page = l
    BY <1>3, <2>1 DEF Settled
  <2>5. ASSUME new.page = "complete", new.saver # 0
        PROVE  new.saver \in new.calls /\ calls'[new.saver].from = "complete"
    BY <1>2, <1>3, <2>1, <2>5 DEF Settled
  <2>6. ASSUME new.page = "complete", new.saver = 0
        PROVE  new.cached \/ new.failed \/ new.overtaken
    <3>1. tab.saver = c \/ tab.saver = 0
      BY <1>2, <1>3, <2>6
    <3> QED
      BY <1>1, <1>3, <2>6, <3>1, SlotsAssumption DEF Settled
  <2> QED
    BY <1>3, <2>1, <2>2, <2>3, <2>4, <2>5, <2>6 DEF Settled
<1>4. PICK rest \in SUBSET Slots : rest = tab.calls \ {c}
  BY <1>1
<1>5. CASE Rejected(t, c) \/ Lose(t, c)
  <2>1. PICK failed \in BOOLEAN : failed = (tab.failed \/ tab.saver = c)
    BY <1>1 DEF TabType
  <2>2. PICK new \in TabType : new = [tab EXCEPT !.calls = rest, !.saver = saver, !.failed = failed]
    BY <1>1 DEF TabType
  <2>3. /\ new.page = tab.page /\ new.guard = tab.guard /\ new.calls = rest /\ new.saver = saver
        /\ new.overtaken = tab.overtaken /\ new.cached = tab.cached /\ new.failed = failed
    BY <1>1, <2>2 DEF TabType
  <2>4. tabs' = [tabs EXCEPT ![t] = new]
    BY <1>2, <1>4, <1>5, <2>1, <2>2 DEF Rejected, Lose, Failed
  <2>5. PICK q : calls' = [calls EXCEPT ![c] = q]
    BY <1>5 DEF Rejected, Lose
  <2>6. IF tab.saver = c THEN failed ELSE failed = tab.failed
    BY <1>1, <2>1 DEF TabType
  <2> QED
    BY <1>3, <1>4, <2>3, <2>4, <2>5, <2>6
<1>6. CASE Answered(t, c)
  <2>1. PICK completed \in BOOLEAN : completed = calls[c].copy.completed
    BY <1>1 DEF CallType, RowType
  <2>2. PICK new \in TabType : new = [tab EXCEPT !.calls = rest, !.saver = saver, !.cached = completed]
    BY <1>1 DEF TabType
  <2>3. /\ new.page = tab.page /\ new.guard = tab.guard /\ new.calls = rest /\ new.saver = saver
        /\ new.overtaken = tab.overtaken /\ new.cached = completed /\ new.failed = tab.failed
    BY <1>1, <2>2 DEF TabType
  <2>4. new = [tabs[t] EXCEPT !.calls = @ \ {c}, !.saver = IF @ = c THEN 0 ELSE @,
                              !.cached = calls[c].copy.completed]
    BY <1>2, <1>4, <2>1, <2>2
  <2>5. calls[c].stage = "ok" /\ (calls[c].from = "complete" => completed)
    <3>1. calls[c].from = "complete" => calls[c].kind = "complete"
      BY <1>1 DEF Proper, Kinds, Sent
    <3> QED
      BY <1>6, <2>1, <3>1 DEF Answered, Completing
  <2>6. calls[c].from \in {"success", "industry", "profile", "modules", "settings", "setup", "complete"}
    BY <1>1 DEF Proper, Kinds, Sent
  <2>7. CASE calls[c].from \in {"settings", "complete"} \/ (calls[c].from = "success" /\ tab.saver # c)
    <3>1. tabs' = [tabs EXCEPT ![t] = new] /\ calls' = [calls EXCEPT ![c] = Free]
      BY <1>6, <2>4, <2>7 DEF Answered, Mounts
    <3>2. tab.page = "complete" => calls[c].from = "complete"
      BY <1>1, <2>7 DEF Settled, Lone
    <3> QED
      BY <1>3, <1>4, <2>3, <2>5, <3>1, <3>2
  <2>8. CASE calls[c].from = "success" /\ tab.saver = c
    <3>1. Push(t, new, c, "industry")
      BY <1>6, <2>4, <2>8 DEF Answered, Mounts
    <3>2. new.calls = {}
      BY <1>1, <1>4, <2>3, <2>8 DEF Settled, Lone
    <3> QED
      BY <3>1, <3>2, PushSettles DEF Steps
  <2>9. CASE calls[c].from \in {"industry", "profile", "modules", "setup"}
    <3>1. Push(t, new, c, nextStep(calls[c].from))
      BY <1>6, <2>4, <2>9 DEF Answered, Mounts
    <3>2. nextStep(calls[c].from) \in Steps
      BY <2>9, WizardFacts DEF Steps
    <3>3. tab.page \notin Lone
      BY <1>1, <2>9 DEF Settled, Lone
    <3>4. new.calls \subseteq tab.calls /\ \A d \in new.calls : calls[d].from \notin Lone
      BY <1>4, <2>3, <3>3 DEF Settled
    <3> QED
      BY <3>1, <3>2, <3>4, PushSettles
  <2> QED
    BY <2>6, <2>7, <2>8, <2>9
<1> QED
  BY <1>5, <1>6

LEMMA StatusSettles ==
  ASSUME Shape, NEW t \in Tabs, Settled(t), ServeStatus(t) \/ ApplyStatus(t)
  PROVE  Settled(t)'
<1> DEFINE tab == tabs[t]
<1>1. tab \in TabType /\ tabs \in [Tabs -> TabType]
  BY DEF Shape, Types
<1>2. CASE ServeStatus(t)
  <2>1. PICK to : tabs' = [tabs EXCEPT ![t] = [tab EXCEPT !.load = to]] /\ calls' = calls
    BY <1>2 DEF ServeStatus, Quiet
  <2>2. /\ tabs'[t].page = tab.page /\ tabs'[t].guard = tab.guard /\ tabs'[t].calls = tab.calls
        /\ tabs'[t].saver = tab.saver /\ tabs'[t].cached = tab.cached
        /\ tabs'[t].failed = tab.failed /\ tabs'[t].overtaken = tab.overtaken
    BY <1>1, <2>1 DEF TabType
  <2> QED
    BY <2>1, <2>2 DEF Settled
<1>3. CASE ApplyStatus(t)
  <2>1. PICK completed \in BOOLEAN : completed = (tab.load = "completed")
    OBVIOUS
  <2>2. PICK over \in BOOLEAN : over = (tab.overtaken \/ (tab.cached /\ ~completed))
    BY <1>1 DEF TabType
  <2>3. /\ tabs' = [tabs EXCEPT ![t] = [tab EXCEPT !.load = "none", !.cached = completed,
                                                    !.overtaken = over]]
        /\ calls' = calls
    BY <1>3, <2>1, <2>2 DEF ApplyStatus, Quiet
  <2>4. /\ tabs'[t].page = tab.page /\ tabs'[t].guard = tab.guard /\ tabs'[t].calls = tab.calls
        /\ tabs'[t].saver = tab.saver /\ tabs'[t].cached = completed
        /\ tabs'[t].failed = tab.failed /\ tabs'[t].overtaken = over
    BY <1>1, <2>3 DEF TabType
  <2>5. tab.cached \/ tab.failed \/ tab.overtaken => completed \/ tab.failed \/ over
    BY <2>2
  <2> QED
    BY <2>3, <2>4, <2>5 DEF Settled
<1> QED
  BY <1>2, <1>3

LEMMA BrowserSettles ==
  ASSUME Shape, SettleInv, NEW t \in Tabs, Use(t) \/ React(t)
  PROVE  SettleInv'
<1>1. BrowserStep(t)
  BY UseSteps, ReactSteps
<1>2. Settled(t)'
  <2>1. Settled(t) /\ Completing
    BY DEF SettleInv
  <2>2. CASE SeesPaid(t)
    <3>1. PICK c \in Slots : Push(t, tabs[t], c, "industry")
      BY <2>2, WizardFacts DEF SeesPaid
    <3>2. tabs[t] \in TabType /\ \A d \in tabs[t].calls : calls[d].from \notin Lone
      BY <2>1, <2>2 DEF SeesPaid, Rendered, Settled, Lone, Shape, Types
    <3> QED
      BY <2>1, <3>1, <3>2, PushSettles DEF Steps
  <2> QED
    BY <2>1, <2>2, UseSettles, GuardSettles, AnswerSettles, StatusSettles DEF React
<1>3. ASSUME NEW u \in Tabs, u # t PROVE Settled(u)'
  <2>1. Settled(u) /\ tabs'[u] = tabs[u] /\ \A d \in tabs[u].calls : calls'[d] = calls[d]
    BY <1>1, <1>3, BrowserLeaves DEF SettleInv
  <2> QED
    BY <2>1 DEF Settled
<1>4. Completing'
  BY <1>1, BrowserCalls DEF SettleInv, Completing, Free, Began
<1> QED
  BY <1>2, <1>3, <1>4 DEF SettleInv

(* The last page welcomes the tenant or says what failed, unless its load   *)
(* was answered before the completion and applied after it, whatever is     *)
(* lost or late, and whichever requests of other pages are still under way: *)
(* complete/page.tsx, use-onboarding.ts.                                    *)
THEOREM LastPageSettles == Spec => []CompletePageSettles
<1> DEFINE I == Shape /\ SettleInv
<1>1. Init => I
  <2> SUFFICES ASSUME Init PROVE I
    OBVIOUS
  <2>1. \A t \in Tabs : tabs[t] = Tab("billing")
    BY DEF Init
  <2>2. \A t \in Tabs : Settled(t)
    BY <2>1 DEF Settled, Tab, Lone, Entries
  <2>3. Completing
    BY DEF Init, Completing, Free
  <2> QED
    BY <2>2, <2>3, ShapeStarts DEF SettleInv
<1>2. I /\ [Next]_vars => I'
  <2> SUFFICES ASSUME I, [Next]_vars PROVE I'
    OBVIOUS
  <2>1. ASSUME UNCHANGED <<serverVars, calls, tabs>> PROVE SettleInv'
    <3>1. Completing' /\ \A t \in Tabs : Settled(t)'
      BY <2>1 DEF SettleInv, Completing, Settled
    <3> QED
      BY <3>1 DEF SettleInv
  <2>2. SettleInv'
    BY <2>1, ServerSettles, BrowserSettles DEF Next, vars
  <2> QED
    BY <2>2, ShapePreserved
<1>3. I => CompletePageSettles
  BY DEF SettleInv, Settled, CompletePageSettles
<1> QED
  BY <1>1, <1>2, <1>3, PTL DEF Spec
=============================================================================
