--------------------------- MODULE CircuitBreaker ---------------------------
(***************************************************************************)
(* One resilience.CircuitBreaker: the "stripe" breaker of the API's Stripe *)
(* client or the "twilio" breaker of an SMS sender.  It is shared by every *)
(* request of every tenant, and it is not held during a call: a call that  *)
(* was admitted in one state may end in another.                           *)
(***************************************************************************)
EXTENDS Integers, FiniteSets

CONSTANTS
  Callers,    \* requests that may be inside Execute at the same time
  Threshold   \* failures that open the breaker; NewCircuitBreaker makes it >= 1

ASSUME ThresholdAssumption == Threshold \in Nat \ {0}

VARIABLES
  state,          \* CircuitBreaker.state
  failures,       \* CircuitBreaker.failures; only compared, so kept <= Threshold
  cooled,         \* resetTimeout has passed since lastFailure
  halfOpenBusy,   \* CircuitBreaker.halfOpenBusy
  running,        \* callers between beforeCall and afterCall
  probes,         \* history: those admitted in the present half-open period
  panicked        \* history: some call never reached afterCall

vars == <<state, failures, cooled, halfOpenBusy, running, probes, panicked>>

Init ==
  /\ state = "closed"
  /\ failures = 0
  /\ cooled = TRUE
  /\ halfOpenBusy = FALSE
  /\ running = {}
  /\ probes = {}
  /\ panicked = FALSE

-----------------------------------------------------------------------------
(* maybeTransitionToHalfOpen: the state the breaker is in by now.           *)
Turns == state = "open" /\ cooled
StateNow == IF Turns THEN "half-open" ELSE state
BusyNow == halfOpenBusy /\ ~Turns

Admit_NoBusyCheck(c) ==
  /\ c \notin running
  /\ StateNow # "open"
  /\ state' = StateNow
  /\ halfOpenBusy' = (BusyNow \/ StateNow = "half-open")
  /\ running' = running \cup {c}
  /\ probes' = IF StateNow = "half-open" THEN probes \cup {c} ELSE probes
  /\ UNCHANGED <<failures, cooled, panicked>>

(* beforeCall lets the call through.                                        *)
Admit(c) ==
  /\ c \notin running
  /\ StateNow = "closed" \/ (StateNow = "half-open" /\ ~BusyNow)
  /\ state' = StateNow
  /\ halfOpenBusy' = (StateNow = "half-open" \/ halfOpenBusy)
  /\ running' = running \cup {c}
  /\ probes' = IF StateNow = "half-open" THEN probes \cup {c} ELSE probes
  /\ UNCHANGED <<failures, cooled, panicked>>

(* State(), which the tests call: it too moves an open breaker on.          *)
Observe ==
  /\ state' = StateNow
  /\ halfOpenBusy' = BusyNow
  /\ UNCHANGED <<failures, cooled, running, probes, panicked>>

-----------------------------------------------------------------------------
(* The call is over, and if the breaker leaves half-open, so is the period. *)
EndCall(c, next) ==
  /\ c \in running
  /\ running' = running \ {c}
  /\ state' = next
  /\ probes' = IF next = "half-open" THEN probes \ {c} ELSE {}

Succeed_NotClosing(c) ==
  /\ EndCall(c, state)
  /\ failures' = 0
  /\ UNCHANGED <<cooled, halfOpenBusy, panicked>>

Succeed_KeepsCount(c) ==
  /\ EndCall(c, "closed")
  /\ halfOpenBusy' = (halfOpenBusy /\ state # "half-open")
  /\ UNCHANGED <<failures, cooled, panicked>>

(* afterCall(nil), in whatever state the breaker is by now.                 *)
Succeed(c) ==
  /\ EndCall(c, "closed")
  /\ halfOpenBusy' = (halfOpenBusy /\ state # "half-open")
  /\ failures' = 0
  /\ UNCHANGED <<cooled, panicked>>

(* afterCall(err).  A late failure of an open breaker restarts its timer.   *)
Fail(c) ==
  /\ failures' = IF failures < Threshold THEN failures + 1 ELSE Threshold
  /\ EndCall(c, IF state = "half-open" \/ failures' >= Threshold THEN "open" ELSE state)
  /\ cooled' = FALSE
  /\ halfOpenBusy' = (halfOpenBusy /\ state # "half-open")
  /\ UNCHANGED panicked

(* The call panics.  Execute has no deferred afterCall, and the API's       *)
(* recover middleware keeps the process running.                            *)
Panic(c) ==
  /\ EndCall(c, state)
  /\ panicked' = TRUE
  /\ UNCHANGED <<failures, cooled, halfOpenBusy>>

(* More than resetTimeout after the last failure.                           *)
CoolDown ==
  /\ ~cooled
  /\ cooled' = TRUE
  /\ UNCHANGED <<state, failures, halfOpenBusy, running, probes, panicked>>

-----------------------------------------------------------------------------
Next ==
  \/ \E c \in Callers : Admit(c) \/ Succeed(c) \/ Fail(c) \/ Panic(c)
  \/ Observe
  \/ CoolDown

(* Calls end, as the HTTP clients have timeouts, and time passes.  Nobody   *)
(* is obliged to call.                                                      *)
Fairness ==
  /\ \A c \in Callers : WF_vars(Succeed(c) \/ Fail(c) \/ Panic(c))
  /\ WF_vars(CoolDown)

Spec == Init /\ [][Next]_vars
FairSpec == Spec /\ Fairness

-----------------------------------------------------------------------------
(* The types of the variables.                                              *)
TypeOK ==
  /\ state \in {"closed", "open", "half-open"}
  /\ failures \in 0 .. Threshold
  /\ cooled \in BOOLEAN
  /\ halfOpenBusy \in BOOLEAN
  /\ running \subseteq Callers
  /\ probes \subseteq running
  /\ panicked \in BOOLEAN

(* A recovering service is tried by one call at a time: between two changes *)
(* of state a half-open breaker lets a single call through, although calls  *)
(* admitted earlier may end meanwhile and clear halfOpenBusy.               *)
OneProbePerPeriod ==
  \A c, d \in probes : c = d

(* A closed breaker always has a failure to spare: whichever calls end late *)
(* and in whichever order, Threshold failures without a success never leave *)
(* it closed.                                                               *)
ClosedHasMargin ==
  state = "closed" => failures < Threshold

(* A half-open breaker is busy because of a call that is still running, and *)
(* will tell how it went.  Only a panic can make it refuse without one.     *)
BusyMeansProbing ==
  state = "half-open" /\ halfOpenBusy /\ ~panicked => probes # {}

(* Refusing calls comes to an end: no service stays cut off for ever,       *)
(* unless a call panicked.                                                  *)
Refusing ==
  \/ state = "open" /\ ~cooled
  \/ state = "half-open" /\ halfOpenBusy
RefusalEnds == Refusing ~> ~Refusing \/ panicked

(* An open breaker stays open until the reset timeout is over.  The code    *)
(* does not keep it: a call admitted before the breaker opened closes it    *)
(* when it succeeds late.                                                   *)
OpenUntilCooled ==
  [][state = "open" /\ state' # "open" => cooled]_vars
=============================================================================
