---------------------------- MODULE MCOnboarding ----------------------------
(* Two packs, each of which requires one module and leaves the other free.  *)
EXTENDS Onboarding, TLC

CONSTANTS cleaning, construction, crm, jobcosting

TwoPacks == [p \in {cleaning, construction} |-> IF p = cleaning THEN {crm} ELSE {jobcosting}]

\* The packs may change places, with their modules.
Symmetry == {f \in Permutations(Packs \cup Modules) : \A p \in Packs :
               f[p] \in Packs /\ Required[f[p]] = {f[m] : m \in Required[p]}}
=============================================================================
