----------------------------- MODULE ProviderCall -----------------------------
(***************************************************************************)
(* What the outcome of one external write promises, whichever protocol     *)
(* carries it: "failed" says that the provider has not been changed and    *)
(* will not be, as far as this end can know, "uncertain" says nothing.     *)
(* ProviderDelivery implements it.                                         *)
(***************************************************************************)
CONSTANT Op

VARIABLES
  answer,   \* [Op -> {"none", "succeeded", "failed", "uncertain"}]
  effect    \* the operations that can be known to have changed the provider

vars == <<answer, effect>>

Init == answer = [o \in Op |-> "none"] /\ effect = {}

\* The provider may act long after the client has given up.
TakeEffect(o) ==
  /\ answer[o] \in {"none", "uncertain"}
  /\ effect' = effect \cup {o} /\ UNCHANGED answer

\* Another client puts back what the operations have changed, or an answer that
\* is not the provider's hides it.
Undo == effect' \subseteq effect /\ UNCHANGED answer

Tell(o, a) ==
  /\ answer[o] = "none" /\ (a = "failed" => o \notin effect)
  /\ answer' = [answer EXCEPT ![o] = a] /\ UNCHANGED effect

Next ==
  \/ Undo
  \/ \E o \in Op : \/ TakeEffect(o)
                   \/ \E a \in {"succeeded", "failed", "uncertain"} : Tell(o, a)

Spec == Init /\ [][Next]_vars
=============================================================================
