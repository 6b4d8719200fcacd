-------------------------- MODULE MCWorkbenchJobs --------------------------
(* Two jobs, one slot and one cancel request. *)
EXTENDS WorkbenchJobs

CONSTANTS j1, j2, c1

TwoJobs == {j1, j2}
OneCancel == {c1}
=============================================================================
