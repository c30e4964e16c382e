---------------------------- MODULE InstallContract ----------------------------
(***************************************************************************)
(* What installing promises: at any moment one release is installed, and   *)
(* the one before it is kept to go back to.  A change happens at once, and *)
(* nothing that happened is taken back but by another change.              *)
(***************************************************************************)
CONSTANTS Release, NoRelease

VARIABLES active,    \* the release the program would be, once recovered
          fallback   \* the one that rollback would activate

vars == <<active, fallback>>

Init ==
    /\ active \in Release \cup {NoRelease}
    /\ fallback \in Release \cup {NoRelease}
    /\ active = NoRelease => fallback = NoRelease
    /\ active \in Release => fallback # active

\* Install, upgrade and rollback alike.
Activate(tag) ==
    /\ active' = tag /\ tag # active
    /\ fallback' = active

Next == \E tag \in Release : Activate(tag)

Spec == Init /\ [][Next]_vars
=============================================================================
