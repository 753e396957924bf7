--------------------------- MODULE ActionVerdicts ---------------------------
(***************************************************************************)
(* What the control plane and an agent promise about actions, without the  *)
(* messages between them: an action is carried out at most once, and never *)
(* after it was declared failed; what is declared of it is the result that *)
(* its executor gave, or that its time was over, and is declared once.  An *)
(* action whose time is over may still be carried out.                     *)
(***************************************************************************)
CONSTANTS
  Requests  \* the actions

VARIABLES
  verdict,  \* what is declared of each action, "open" while nothing is
  result    \* what the executor answered for each action, "none" before it did

vars == <<verdict, result>>

Init ==
  /\ verdict = [r \in Requests |-> "open"]
  /\ result = [r \in Requests |-> "none"]

\* An action is carried out, unless it was before or was declared failed without it.
Run(r) ==
  /\ result[r] = "none"
  /\ verdict[r] # "failed"
  /\ \E state \in {"succeeded", "failed"} : result' = [result EXCEPT ![r] = state]
  /\ UNCHANGED verdict

\* What may be declared of an action: the executor's own result, if there is one; a
\* failure if there is none yet; or that its time is over.
Declarable(r) == {"lapsed"} \cup (IF result[r] = "succeeded" THEN {"succeeded"} ELSE {"failed"})

\* Actions of which nothing was declared get a verdict: one by a result, or many by
\* a hello.
Declare ==
  /\ \A r \in Requests :
       verdict'[r] # verdict[r] => verdict[r] = "open" /\ verdict'[r] \in Declarable(r)
  /\ verdict' = [r \in Requests |-> verdict'[r]]
  /\ UNCHANGED result

Next == Declare \/ \E r \in Requests : Run(r)

Spec == Init /\ [][Next]_vars
=============================================================================
