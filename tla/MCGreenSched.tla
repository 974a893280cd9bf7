----------------------------- MODULE MCGreenSched -----------------------------
(* Small instances of GreenSched for TLC. *)
EXTENDS GreenSched
CONSTANTS s1, s2, s3, t1, t2

OneSched  == <<s1>>
TwoScheds == <<s1, s2>>
NoFriends == [s \in Scheds |-> None]
\* s2 runs pinned tasks only and sends the others to s1.
S2Special == [s \in Scheds |-> IF s = s2 THEN s1 ELSE None]

\* Bound of the runs on homes and friends and on growth: a pool is followed
\* through its shutdown when it has had no task, or one that no longer may yield or
\* block (it may be blocked).
ShutdownWithOne ==
  \/ opc \in {"open", "nn"}
  \/ \A t \in Tasks : tstate[t] = "unborn"
  \/ fuel = 0 /\ \E t \in Tasks : tstate[t] = "unborn"

\* The tasks of these two runs are alike, both may be spawned by the owner.
TaskSymmetry == Permutations(Tasks)
===============================================================================
