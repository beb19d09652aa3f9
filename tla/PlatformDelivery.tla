-------------------------- MODULE PlatformDelivery --------------------------
(***************************************************************************)
(* What the running operator promises to those who push to the values      *)
(* branch, whatever its loops, its clone and its failures do: one delivery *)
(* at a time is under way, what is delivered comes from the branch, and    *)
(* neither the branch nor the platform ever goes back.  AplOperator        *)
(* implements it.                                                          *)
(***************************************************************************)
CONSTANTS
    Parts,   \* what is delivered separately
    Loops,   \* who delivers
    Nobody,
    First    \* what is on the branch from the start

VARIABLES
    branch,   \* the commits people have pushed
    platform, \* of those, the ones each part of the platform runs
    busy      \* the loop that delivers

vars == <<branch, platform, busy>>

Init ==
    /\ branch = {First}
    /\ platform = [p \in Parts |-> {}]
    /\ busy = Nobody

Push ==
    /\ branch \subseteq branch'
    /\ UNCHANGED <<platform, busy>>

Begin(l) ==
    /\ busy = Nobody
    /\ busy' = l
    /\ UNCHANGED <<branch, platform>>

\* A part moves on to more of the branch; the branch may have moved on already.
Deliver(p) ==
    /\ busy # Nobody
    /\ platform[p] \subseteq platform'[p] /\ platform'[p] \subseteq branch
    /\ platform' = [platform EXCEPT ![p] = platform'[p]]
    /\ UNCHANGED <<branch, busy>>

\* With success, a failure, or the end of the process.
End ==
    /\ busy # Nobody
    /\ busy' = Nobody
    /\ UNCHANGED <<branch, platform>>

Next ==
    \/ Push \/ End
    \/ \E l \in Loops : Begin(l)
    \/ \E p \in Parts : Deliver(p)

Spec == Init /\ [][Next]_vars
=============================================================================
