----------------------------- MODULE CallOutcome -----------------------------
(***************************************************************************)
(* What a signed call to Iris promises its caller, whatever happened on    *)
(* the way: how the error classes of errors.go relate to the side effect   *)
(* of the protected request on Iris.                                       *)
(*                                                                         *)
(*   "ok"        a success value: Iris performed the operation             *)
(*   "notSent"   ErrNotSent: it is certain that nothing was performed      *)
(*   "invalid"   an unclassified failure raised before anything was sent   *)
(*   "http"      an HTTPError: Iris answered, so nothing is under way      *)
(*   "transport" ErrTransport: unknown; it may even be performed later     *)
(***************************************************************************)
EXTENDS Naturals

CONSTANT Calls

VARIABLES applied,  \* how often Iris performed the operation of a call
          result    \* the class of what the call returned, "none" before

outcomeVars == <<applied, result>>

Results == {"ok", "notSent", "invalid", "http", "transport"}

OutcomeInit ==
    /\ applied = [c \in Calls |-> 0]
    /\ result = [c \in Calls |-> "none"]

\* Iris performs the operation: once at most, and never after the caller was
\* told something definite.
Apply(c) ==
    /\ applied[c] = 0
    /\ result[c] \in {"none", "transport"}
    /\ applied' = [applied EXCEPT ![c] = 1]
    /\ UNCHANGED result

\* The call returns. Success is reported only for a performed operation, and
\* a failure "before sending" only for one that was not.
Report(c, r) ==
    /\ result[c] = "none"
    /\ r = "ok" => applied[c] = 1
    /\ r \in {"notSent", "invalid"} => applied[c] = 0
    /\ result' = [result EXCEPT ![c] = r]
    /\ UNCHANGED applied

OutcomeNext ==
    \E c \in Calls : Apply(c) \/ \E r \in Results : Report(c, r)

OutcomeSpec == OutcomeInit /\ [][OutcomeNext]_outcomeVars
=============================================================================
