------------------------------ MODULE JobPool ------------------------------
(***************************************************************************)
(* What the process runner promises of its jobs, without threads, locks,   *)
(* flags and tables: a bounded number of them is inside at a time; a job's *)
(* subprocess is started once, inside, and is dead when the job leaves;    *)
(* and a job that left is never reported queued or running.                *)
(***************************************************************************)
EXTENDS Naturals, FiniteSets

CONSTANTS Jobs, MaxActive

VARIABLES
    stage,      \* how far each job has come
    sub,        \* its subprocess
    report      \* what its row says, "none" without a row

pvars == <<stage, sub, report>>

Inside == {j \in Jobs : stage[j] = "inside"}

Init ==
    /\ stage = [j \in Jobs |-> "new"]
    /\ sub = [j \in Jobs |-> "none"]
    /\ report = [j \in Jobs |-> "none"]

Admit(j) ==
    /\ stage[j] = "new"
    /\ stage' = [stage EXCEPT ![j] = "waiting"]
    /\ UNCHANGED <<sub, report>>

Enter(j) ==
    /\ stage[j] = "waiting"
    /\ Cardinality(Inside) < MaxActive
    /\ stage' = [stage EXCEPT ![j] = "inside"]
    /\ UNCHANGED <<sub, report>>

Spawn(j) ==
    /\ stage[j] = "inside" /\ sub[j] = "none"
    /\ sub' = [sub EXCEPT ![j] = "alive"]
    /\ UNCHANGED <<stage, report>>

\* It exits, or is killed.
Die(j) ==
    /\ sub[j] = "alive"
    /\ sub' = [sub EXCEPT ![j] = "dead"]
    /\ UNCHANGED <<stage, report>>

\* Cancelled before it entered, dropped before it was admitted, or at its end.
Leave(j) ==
    /\ stage[j] # "over" /\ sub[j] # "alive" /\ report[j] # "active"
    /\ stage' = [stage EXCEPT ![j] = "over"]
    /\ UNCHANGED <<sub, report>>

Tell(j, r) ==
    /\ stage[j] = "over" => r # "active"
    /\ report' = [report EXCEPT ![j] = r]
    /\ UNCHANGED <<stage, sub>>

Forget(S) ==
    /\ report' = [j \in Jobs |-> IF j \in S THEN "none" ELSE report[j]]
    /\ UNCHANGED <<stage, sub>>

Next ==
    \/ \E j \in Jobs :
          \/ Admit(j) \/ Enter(j) \/ Spawn(j) \/ Die(j) \/ Leave(j)
          \/ \E r \in {"active", "settled"} : Tell(j, r)
    \/ \E S \in SUBSET Jobs : Forget(S)

Spec == Init /\ [][Next]_pvars
=============================================================================
