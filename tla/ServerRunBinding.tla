-------------------------- MODULE ServerRunBinding --------------------------
(***************************************************************************)
(* What the durable record of run creation promises, without its tables,   *)
(* locks and clients: every invocation has one fate, a bound one has a     *)
(* server run of its own, and a run's invocations are bound in order.      *)
(***************************************************************************)
EXTENDS Naturals

CONSTANTS Runs, Invocations, ServerRuns, MaxOrdinal, None

Ordinals == 1..MaxOrdinal
Place == [run : Runs, ordinal : Ordinals]
Fates == {"absent", "intended", "failed", "dispatched", "ambiguous",
          "bindable", "abandoned", "bound"}

VARIABLES
    fate,       \* how far each invocation has come
    place,      \* its run and its ordinal in the run
    server      \* the server run it is bound to

avars == <<fate, place, server>>

Init ==
    /\ fate = [i \in Invocations |-> "absent"]
    /\ place = [i \in Invocations |-> None]
    /\ server = [i \in Invocations |-> None]

Intend(i, p) ==
    /\ fate[i] = "absent"
    /\ \A j \in Invocations : place[j] # p
    /\ fate' = [fate EXCEPT ![i] = "intended"]
    /\ place' = [place EXCEPT ![i] = p]
    /\ UNCHANGED server

Move(i, from, to) ==
    /\ fate[i] = from
    /\ fate' = [fate EXCEPT ![i] = to]
    /\ UNCHANGED <<place, server>>

\* Only a dispatched invocation, or one an operator released, is bound; to a
\* server run nobody else has; and after all earlier invocations of its run.
Bind(i, x) ==
    /\ fate[i] \in {"dispatched", "bindable"}
    /\ \A j \in Invocations : server[j] # x
    /\ \A n \in 1..(place[i].ordinal - 1) :
          \E j \in Invocations :
              /\ fate[j] = "bound"
              /\ place[j] = [run |-> place[i].run, ordinal |-> n]
    /\ fate' = [fate EXCEPT ![i] = "bound"]
    /\ server' = [server EXCEPT ![i] = x]
    /\ UNCHANGED place

Next ==
    \E i \in Invocations :
        \/ \E p \in Place : Intend(i, p)
        \/ Move(i, "intended", "failed")
        \/ Move(i, "intended", "dispatched")
        \/ Move(i, "dispatched", "ambiguous")
        \/ Move(i, "ambiguous", "bindable")
        \/ Move(i, "ambiguous", "abandoned")
        \/ \E x \in ServerRuns : Bind(i, x)

Spec == Init /\ [][Next]_avars
=============================================================================
