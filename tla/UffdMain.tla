------------------------------ MODULE UffdMain -------------------------------
(***************************************************************************)
(* The two programs of rung 3 from start to end.  toy-uffd-raw's main runs *)
(* demo (Restore) and, with --bench and only if the demo was right,        *)
(* bench_all (Placement); toy-uffd-crates is its demo.                     *)
(***************************************************************************)
EXTENDS Restore, Placement

VARIABLE wanted         \* --bench

mainVars == <<restoreVars, placementVars, wanted>>

Init == RestoreInit /\ PlacementInit /\ wanted \in BOOLEAN

\* demo()?; if bench { bench_all(..)? }
Demo == RestoreNext /\ UNCHANGED <<placementVars, wanted>>
Bench ==
    /\ program = "raw"
    /\ verdict = "ok"
    /\ wanted
    /\ PlacementNext
    /\ UNCHANGED <<restoreVars, wanted>>

Next == Demo \/ Bench

Spec == Init /\ [][Next]_mainVars

\* Every thread is scheduled.
FairSpec == Spec /\ RestoreFairness /\ WF_mainVars(Bench)

-----------------------------------------------------------------------------
\* main has returned.
Ended ==
    \/ verdict = "failed"
    \/ verdict = "ok" /\ (program = "raw" /\ wanted => BenchOver)

=============================================================================
