--------------------------- MODULE SessionContract ---------------------------
(***************************************************************************)
(* What the session manager promises about a session and its backend,      *)
(* without processes, locks or files: a backend starts only under a claim  *)
(* on an open session, a claim stays outstanding until the exit of that    *)
(* very backend is acknowledged, and nothing ends cleanly or is removed    *)
(* while a claim is outstanding.                                           *)
(***************************************************************************)
CONSTANT Session

VARIABLES phase,    \* of each session
          child     \* the backend of each session and the claim on it

vars == <<phase, child>>

Settled == {"none", "acknowledged"}

ContractTypeOK ==
    /\ phase \in [Session -> {"absent", "open", "stopping", "ended", "failed"}]
    /\ child \in [Session -> {"none", "claimed", "alive", "gone", "acknowledged"}]

\* A session taken over from an older release is open or stopping, its backend alive.
Init ==
    /\ phase \in [Session -> {"absent", "open", "stopping"}]
    /\ child = [s \in Session |-> IF phase[s] = "absent" THEN "none" ELSE "alive"]

Phase(s, from, to) == phase[s] \in from /\ phase' = [phase EXCEPT ![s] = to]
Child(s, from, to) == child[s] \in from /\ child' = [child EXCEPT ![s] = to]

Publish(s) == Phase(s, {"absent"}, "open") /\ UNCHANGED child
RequestStop(s) == Phase(s, {"open"}, "stopping") /\ UNCHANGED child
Fail(s) == Phase(s, {"open"}, "failed") /\ UNCHANGED child
End(s) == Phase(s, {"open", "stopping"}, "ended") /\ child[s] \in Settled /\ UNCHANGED child

Claim(s) == phase[s] = "open" /\ Child(s, {"none"}, "claimed") /\ UNCHANGED phase
Spawn(s) == Child(s, {"claimed"}, "alive") /\ UNCHANGED phase
Exit(s) == Child(s, {"alive"}, "gone") /\ UNCHANGED phase

\* The acknowledgement ends an open session at once.
Acknowledge(s) ==
    /\ Child(s, {"claimed", "gone"}, "acknowledged")
    /\ \/ Phase(s, {"open", "stopping"}, "ended")
       \/ phase[s] \in {"stopping", "failed"} /\ UNCHANGED phase

\* Prune removes one session, a purge all of them.
Remove(removed) ==
    /\ \A s \in removed : phase[s] \in {"ended", "failed"} /\ child[s] \in Settled
    /\ phase' = [s \in Session |-> IF s \in removed THEN "absent" ELSE phase[s]]
    /\ child' = [s \in Session |-> IF s \in removed THEN "none" ELSE child[s]]

Next ==
    \/ \E s \in Session :
         \/ Publish(s) \/ RequestStop(s) \/ Fail(s) \/ End(s)
         \/ Claim(s) \/ Spawn(s) \/ Exit(s) \/ Acknowledge(s)
    \/ \E removed \in SUBSET Session : Remove(removed)

Spec == Init /\ [][Next]_vars
=============================================================================
