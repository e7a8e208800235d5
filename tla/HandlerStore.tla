----------------------------- MODULE HandlerStore -----------------------------
(***************************************************************************)
(* What a store of message handlers promises: the handlers of each filter, *)
(* in the order they were added, without a word on how they are found.     *)
(***************************************************************************)
EXTENDS Sequences

CONSTANTS Filters, Handlers

VARIABLE handlers       \* the handlers of each filter

Init == handlers = [f \in Filters |-> <<>>]

Add(f, h) == handlers' = [handlers EXCEPT ![f] = Append(@, h)]

Remove(f) == handlers' = [handlers EXCEPT ![f] = <<>>]

Clear == handlers' = [f \in Filters |-> <<>>]

Next ==
    \/ \E f \in Filters, h \in Handlers : Add(f, h)
    \/ \E f \in Filters : Remove(f)
    \/ Clear

Spec == Init /\ [][Next]_handlers
==============================================================================
