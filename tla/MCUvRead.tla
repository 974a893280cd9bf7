------------------------------ MODULE MCUvRead ------------------------------
(* Instances of UvRead for TLC. *)
EXTENDS UvRead
CONSTANTS h1, h2, h3

ThreeClones == {h1, h2, h3}

\* Whoever waits for access or for data on a closed stream, and whoever reads with
\* a timeout, returns: close_read and timer_cb reach every one of them.
ReadsReturn == ClosedReadsReturn /\ TimeoutsReturn
=============================================================================
