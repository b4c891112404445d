------------------------------- MODULE MCLease -------------------------------
(***************************************************************************)
(* Two deployments of LeaseScheduler in one run.  In the "tripwire"        *)
(* deployment a node may crash, and a cut may make it take a live peer for *)
(* dead; in the "election" deployment nobody crashes and nobody is taken   *)
(* for dead, and an administrator may release the lease.                   *)
(***************************************************************************)
EXTENDS LeaseScheduler

VARIABLE setting

\* A step of the election: no process crashes, and no node takes a peer for dead.
AllAlive == \A n \in Node : up'[n] = up[n] /\ down'[n] \subseteq down[n]

MCInit == Init /\ setting \in {"tripwire", "election"}

MCNext ==
    /\ Next /\ UNCHANGED setting
    /\ setting = "tripwire" => left'.release = left.release
    /\ setting = "election" => AllAlive

MCSpec == MCInit /\ [][MCNext]_<<vars, setting>>

\* Two-phase dispatch elects one winner (OneFiringNode), however acquisitions,
\* claims, a cut and a released lease interleave on nodes that are alive
\* (ProcessDueSchedules, the survivor rule of TaskRunStore).
OneWinner == TypeOK /\ (setting = "election" => OneFiringNode)

\* ... and the winner is never fenced, so the window has somebody to fire it
\* (FenceRunUuid after every apply).
WinnerUnfenced == setting = "election" => SurvivorUnfenced

\* The tripwire: where a live peer is taken for dead and two nodes fire one
\* window, the reconciled rows show it (FenceTaskRun after apply).
TripwireFires == setting = "tripwire" => DoubleFireSurfaces
=============================================================================
