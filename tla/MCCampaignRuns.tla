--------------------------- MODULE MCCampaignRuns ---------------------------
(* Small instances of CampaignRuns. *)
EXTENDS CampaignRuns, TLC
CONSTANTS f1, f2, f3, s1, s2

OneFull == {f1}
TwoFull == {f1, f2}
ThreeFull == {f1, f2, f3}
NoScoped == {}
OneScoped == {s1}
TwoScoped == {s1, s2}

(* A call's local values while the code can still read them.  States that differ
   only in the others have the same future, so TLC need not tell them apart. *)
Current(local, dead, p, needed) == IF needed THEN local[p] ELSE dead
Scratch(p) ==
    <<Current(seen, "-", p, pc[p] \in {"ticking", "handclaiming", "claiming", "finishing", "stopping", "releasing"}),
      Current(before, "-", p, pc[p] \notin {"idle", "ticking", "checked", "done", "dead", "finishing", "stopped", "stopping"}),
      Current(kind, "-", p, Live(p) \/ p \in jobs \/ pc[p] \notin {"idle", "done", "dead", "release", "releasing", "stopped", "stopping"}),
      Current(via, "-", p, pc[p] \in {"look", "gates", "plan"}),
      Current(handed, "-", p, p \in jobs \/ pc[p] \in {"handclaim", "handclaiming", "enqueue"}),
      p \in holding /\ pc[p] \notin {"done", "dead"}>>
Distinct == <<status, run, pc, jobs, reap, mover, crashes,
              heldFrom, [p \in Calls |-> Scratch(p)]>>

Symmetry == Permutations(Full) \cup Permutations(Scoped)
=============================================================================
