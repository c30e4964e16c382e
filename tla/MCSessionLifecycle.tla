------------------------- MODULE MCSessionLifecycle -------------------------
(***************************************************************************)
(* Small instances of SessionProperties for TLC.  A runner is a pair of    *)
(* its session and an index.                                               *)
(***************************************************************************)
EXTENDS SessionProperties, TLC

CONSTANTS s1, s2, m1, m2, c1, c2, r1, r2

OneSession == {s1}
TwoSessions == {s1, s2}
OneRunner == {r1}
TwoRunners == {r1, r2}
OneSessionRunner == r1 :> s1
SameSessionRunners == r1 :> s1 @@ r2 :> s1
OwnSessionRunners == r1 :> s1 @@ r2 :> s2

\* Which commands the managers run.
Rivals == m1 :> {"new", "stop"} @@ m2 :> {"prune"}
EveryCommand == m1 :> {"new", "list", "stop", "prune"}
CreateAndUninstall == m1 :> {"new"} @@ m2 :> {"uninstall", "finalize"}
CreateAndList == m1 :> {"new"} @@ m2 :> {"list", "uninstall"}
=============================================================================
