------------------------------ MODULE RunRows ------------------------------
(* What `campaign_runs` promises everybody who reads it: a row opens once, at
   most one row of a whole-campaign run is open at any time, a row that has
   ended stays as it ended, and every row ends. *)
CONSTANTS Full, Scoped

VARIABLE rows

Calls == Full \cup Scoped
Ends == {"COMPLETED", "PARTIAL", "FAILED", "CANCELLED"}

Init == rows = [p \in Calls |-> "NONE"]

Open(p) == /\ rows[p] = "NONE"
           /\ p \in Full => \A f \in Full : rows[f] # "EXECUTING"
           /\ rows' = [rows EXCEPT ![p] = "EXECUTING"]

Close(p) == /\ rows[p] = "EXECUTING"
            /\ \E end \in Ends : rows' = [rows EXCEPT ![p] = end]

Next == \E p \in Calls : Open(p) \/ Close(p)

Spec == Init /\ [][Next]_rows /\ \A p \in Calls : WF_rows(Close(p))

(* The safety part alone, which the prover can reach. *)
SafeSpec == Init /\ [][Next]_rows
=============================================================================
