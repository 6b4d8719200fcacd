-------------------------- MODULE SubmissionLedger --------------------------
(***************************************************************************)
(* What the receipts promise to the clients of the Workbench, without its  *)
(* calls, answers and stops: a key is taken once, for one content; it is   *)
(* then open until the endpoint takes effect or it closes without; a       *)
(* closed key never opens again; and a caller is told ok only of an effect *)
(* of the content it asked for.                                            *)
(***************************************************************************)
EXTENDS Naturals

CONSTANTS Contents, Keys, None

VARIABLES
    entry,      \* how far the submission under each key has come
    content,    \* what was submitted under it
    count,      \* how often it took effect
    told        \* keys and contents of which a caller read ok

lvars == <<entry, content, count, told>>

Init ==
    /\ entry = [k \in Keys |-> "free"]
    /\ content = [k \in Keys |-> None]
    /\ count = [k \in Keys |-> 0]
    /\ told = {}

Take(k, i) ==
    /\ entry[k] = "free"
    /\ entry' = [entry EXCEPT ![k] = "open"]
    /\ content' = [content EXCEPT ![k] = i]
    /\ UNCHANGED <<count, told>>

Effect(k) ==
    /\ entry[k] = "open"
    /\ entry' = [entry EXCEPT ![k] = "closed"]
    /\ count' = [count EXCEPT ![k] = @ + 1]
    /\ UNCHANGED <<content, told>>

\* The endpoint failed or refused, or the service stopped in the middle of these.
Close(S) ==
    /\ \A k \in S : entry[k] = "open"
    /\ entry' = [k \in Keys |-> IF k \in S THEN "closed" ELSE entry[k]]
    /\ UNCHANGED <<content, count, told>>

Tell(k, i) ==
    /\ entry[k] = "closed" /\ count[k] = 1 /\ content[k] = i
    /\ told' = told \cup {<<k, i>>}
    /\ UNCHANGED <<entry, content, count>>

Next ==
    \/ \E k \in Keys, i \in Contents : Take(k, i) \/ Tell(k, i)
    \/ \E k \in Keys : Effect(k)
    \/ \E S \in SUBSET Keys : Close(S)

Spec == Init /\ [][Next]_lvars
=============================================================================
