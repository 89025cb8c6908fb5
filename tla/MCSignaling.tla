----------------------------- MODULE MCSignaling -----------------------------
(* Processes of one name where two are expected, for TLC.                   *)
EXTENDS Signaling, TLC

CONSTANTS a1, b1, a2, b2, group, u1, u2, u3

MCNameOf == [p \in Processes |-> group]

\* The second generation is launched when the first has ended.
Sequential == a1 :> {} @@ b1 :> {} @@ a2 :> {a1, b1} @@ b2 :> {a1, b1}

\* Three processes may be launched at any time; the fourth waits for itself.
Overlapping == a1 :> {} @@ b1 :> {} @@ a2 :> {} @@ b2 :> {b2}

MCLaunches == {Sequential, Overlapping}
=============================================================================
