---------------------------- MODULE CleanReport ----------------------------
(* What a campaign's reader is promised by a run that says COMPLETED: when it
   was said every variant showed the price the run was for, unless somebody
   else had changed or deleted it, and from then on only somebody else changes
   one, until the next run begins. *)
CONSTANT Variants

VARIABLES
    live,  \* the price Shopify shows
    said   \* which kind of run last said it finished clean, "none" while none stands

Others == {"edit", "gone"}
Goal(k) == IF k = "APPLY" THEN "sale" ELSE "base"

Init == /\ live = [v \in Variants |-> "base"]
        /\ said = "none"

Write == /\ said = "none" /\ said' = said
         /\ \E v \in Variants, price \in {"base", "sale", "odd"} : live' = [live EXCEPT ![v] = price]

Outside == /\ \E v \in Variants, price \in Others : live' = [live EXCEPT ![v] = price]
           /\ said' = said

Say(k) == /\ said = "none" /\ said' = k
          /\ \A v \in Variants : live[v] \in {Goal(k)} \cup Others
          /\ live' = live

Begin == said # "none" /\ said' = "none" /\ live' = live

Next == Write \/ Outside \/ Say("APPLY") \/ Say("REVERT") \/ Begin

Spec == Init /\ [][Next]_<<live, said>>
=============================================================================
