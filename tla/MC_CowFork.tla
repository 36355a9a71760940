----------------------------- MODULE MC_CowFork -----------------------------
(***************************************************************************)
(* Model values for CowFork: three process slots, the first of which is   *)
(* init, and a fourth for the runs whose kthread slab is smaller than the  *)
(* process table.                                                          *)
(***************************************************************************)
EXTENDS CowFork

CONSTANTS p0, p1, p2, p3

MC_Procs == {p0, p1, p2}

MC_Procs4 == {p0, p1, p2, p3}
=============================================================================
