----------------------------- MODULE MCReqdump -----------------------------
(* Two slots; two slaves, one after the other on the same slot or both at  *)
(* once, with a reload or with a third one that finds a slot or none.      *)
EXTENDS Reqdump

Small == /\ accepted + reloads <= MaxSessions
         /\ accepted = MaxSessions => apc \in {"get", "crash"}

\* The state in which a teardown goes wrong is the last of its behaviour; only
\* a thread that has cancelled itself is followed further.
Clean == faults \subseteq {"self"}
=============================================================================
