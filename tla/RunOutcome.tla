----------------------------- MODULE RunOutcome -----------------------------
(***************************************************************************)
(* What execute_async promises its caller, whatever the pipeline does: a   *)
(* request that was begun gets one answer, and keeps it.                   *)
(***************************************************************************)
CONSTANTS Run, Result

VARIABLE answer  \* "idle" before the call, "running", then a Result

Init == answer = [r \in Run |-> "idle"]

Begin(r) ==
  /\ answer[r] = "idle"
  /\ answer' = [answer EXCEPT ![r] = "running"]

\* The completion callback, from inside the call or later.
Complete(r, res) ==
  /\ answer[r] \in {"idle", "running"}
  /\ answer' = [answer EXCEPT ![r] = res]

Next == \E r \in Run : Begin(r) \/ \E res \in Result : Complete(r, res)

Spec == Init /\ [][Next]_answer
=============================================================================
