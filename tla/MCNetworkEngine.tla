--------------------------- MODULE MCNetworkEngine ---------------------------
(* Instances of NetworkEngine for TLC. *)
EXTENDS NetworkEngine, TLC

\* Client ids are interchangeable.
ClientSymmetry == Permutations(Client)

\* Behaviours in which no worker and no maintenance thread gets to run.  They touch
\* neither the rate limits nor the clock, so every sequence of admissions and
\* refusals is one of these behaviours; enough connections for the rate limits can
\* be followed in them.
AdmissionSpec == Init /\ [][TickClock \/ Start \/ Acceptance \/ Stop]_vars
=============================================================================
