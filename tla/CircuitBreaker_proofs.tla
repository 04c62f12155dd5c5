------------------------ MODULE CircuitBreaker_proofs ------------------------
(***************************************************************************)
(* Proofs about the circuit breaker, for every threshold and any number of *)
(* overlapping calls.                                                      *)
(*                                                                         *)
(* What ties halfOpenBusy, which a late call may clear, to the one probe   *)
(* of a period is that clearing it always ends the period as well.         *)
(***************************************************************************)
EXTENDS CircuitBreaker, TLAPS

\* What the failure count knows of the state.
CountInv ==
  /\ state \in {"closed", "open", "half-open"}
  /\ failures \in 0 .. Threshold
  /\ ClosedHasMargin

\* Outside half-open there is no probe and the flag is down; a probe holds it.
ProbeInv ==
  /\ halfOpenBusy \in BOOLEAN /\ cooled \in BOOLEAN /\ panicked \in BOOLEAN
  /\ running \subseteq Callers /\ probes \subseteq running
  /\ state # "half-open" => probes = {} /\ ~halfOpenBusy
  /\ probes # {} => halfOpenBusy
  /\ OneProbePerPeriod /\ BusyMeansProbing

\* The count: only failures and successes touch it.
LEMMA CountStep == CountInv /\ [Next]_vars => CountInv'
<1> SUFFICES ASSUME CountInv, [Next]_vars PROVE CountInv'
  OBVIOUS
<1> USE ThresholdAssumption DEF CountInv, ClosedHasMargin, EndCall
<1>1. ASSUME NEW c \in Callers, Admit(c) PROVE CountInv'
  BY <1>1 DEF Admit, StateNow, Turns
<1>2. ASSUME NEW c \in Callers, Succeed(c) PROVE CountInv'
  BY <1>2 DEF Succeed
<1>3. ASSUME NEW c \in Callers, Fail(c) PROVE CountInv'
  BY <1>3 DEF Fail
<1>4. ASSUME NEW c \in Callers, Panic(c) PROVE CountInv'
  BY <1>4 DEF Panic
<1>5. CASE Observe
  BY <1>5 DEF Observe, StateNow, Turns
<1>6. CASE CoolDown \/ UNCHANGED vars
  BY <1>6 DEF CoolDown, vars
<1> QED
  BY <1>1, <1>2, <1>3, <1>4, <1>5, <1>6 DEF Next

\* The probes: a call that ends takes the period with it.
LEMMA ProbeStep == ProbeInv /\ [Next]_vars => ProbeInv'
<1> SUFFICES ASSUME ProbeInv, [Next]_vars PROVE ProbeInv'
  OBVIOUS
<1> USE DEF ProbeInv, OneProbePerPeriod, BusyMeansProbing
<1>1. ASSUME NEW c \in Callers, Admit(c) PROVE ProbeInv'
  <2>1. CASE StateNow = "closed"
    <3>1. state = "closed" /\ state' = "closed"
      BY <1>1, <2>1 DEF Admit, StateNow
    <3>2. probes = {} /\ probes' = {} /\ ~halfOpenBusy'
      BY <1>1, <2>1, <3>1 DEF Admit
    <3> QED
      BY <1>1, <3>1, <3>2 DEF Admit
  <2>2. CASE StateNow = "half-open" /\ ~BusyNow
    <3>1. probes = {}
      BY <2>2 DEF StateNow, BusyNow, Turns
    <3>2. probes' = {c} /\ halfOpenBusy' = TRUE /\ state' = "half-open"
      BY <1>1, <2>2, <3>1 DEF Admit
    <3> QED
      BY <1>1, <3>2 DEF Admit
  <2> QED
    BY <1>1, <2>1, <2>2 DEF Admit
<1>2. ASSUME NEW c \in Callers, Succeed(c) PROVE ProbeInv'
  <2>1. state' = "closed" /\ probes' = {} /\ ~halfOpenBusy'
    BY <1>2 DEF Succeed, EndCall
  <2> QED
    BY <1>2, <2>1 DEF Succeed, EndCall
<1>3. ASSUME NEW c \in Callers, Fail(c) PROVE ProbeInv'
  <2>1. state' # "half-open" /\ probes' = {} /\ ~halfOpenBusy'
    BY <1>3 DEF Fail, EndCall
  <2>2. running' \subseteq Callers /\ cooled' = FALSE /\ halfOpenBusy' \in BOOLEAN
        /\ UNCHANGED panicked
    BY <1>3 DEF Fail, EndCall
  <2> QED
    BY <2>1, <2>2
<1>4. ASSUME NEW c \in Callers, Panic(c) PROVE ProbeInv'
  <2>1. state' = state /\ panicked' = TRUE /\ UNCHANGED <<cooled, halfOpenBusy>>
    BY <1>4 DEF Panic, EndCall
  <2>2. probes' \subseteq probes \ {c} /\ running' = running \ {c}
    BY <1>4 DEF Panic, EndCall
  <2> QED
    BY <2>1, <2>2
<1>5. CASE Observe
  <2>1. CASE Turns
    <3>1. probes' = {} /\ ~halfOpenBusy' /\ halfOpenBusy' \in BOOLEAN
      BY <1>5, <2>1 DEF Observe, BusyNow, Turns
    <3> QED
      BY <1>5, <3>1 DEF Observe
  <2>2. CASE ~Turns
    BY <1>5, <2>2 DEF Observe, StateNow, BusyNow
  <2> QED
    BY <2>1, <2>2
<1>6. CASE CoolDown
  BY <1>6 DEF CoolDown
<1>7. CASE UNCHANGED vars
  BY <1>7 DEF vars
<1> QED
  BY <1>1, <1>2, <1>3, <1>4, <1>5, <1>6, <1>7 DEF Next

IInv == CountInv /\ ProbeInv

LEMMA Inductive == Spec => []IInv
<1>1. Init => CountInv
  BY ThresholdAssumption DEF Init, CountInv, ClosedHasMargin
<1>2. Init => ProbeInv
  BY DEF Init, ProbeInv, OneProbePerPeriod, BusyMeansProbing
<1> QED
  BY <1>1, <1>2, CountStep, ProbeStep, PTL DEF Spec, IInv

\* A half-open period tries the service with one call.
THEOREM SingleProbe == Spec => []OneProbePerPeriod
<1>1. IInv => OneProbePerPeriod
  BY DEF IInv, ProbeInv
<1> QED
  BY <1>1, Inductive, PTL

\* A closed breaker has a failure to spare.
THEOREM ClosedMargin == Spec => []ClosedHasMargin
<1>1. IInv => ClosedHasMargin
  BY DEF IInv, CountInv
<1> QED
  BY <1>1, Inductive, PTL

\* A busy half-open breaker waits for a call that is still running.
THEOREM BusyIsProbing == Spec => []BusyMeansProbing
<1>1. IInv => BusyMeansProbing
  BY DEF IInv, ProbeInv
<1> QED
  BY <1>1, Inductive, PTL
=============================================================================
