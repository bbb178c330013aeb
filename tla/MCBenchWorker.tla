----------------------------- MODULE MCBenchWorker -----------------------------
(***************************************************************************)
(* Small instances of BenchWorker: two or three requests of one team, or   *)
(* of two teams.                                                           *)
(***************************************************************************)
EXTENDS BenchWorker

SameTeam == [m \in Messages |-> "red"]
OwnTeams == [m \in Messages |-> m]

AllBut(kinds) == FaultKinds \ kinds
\* Faults after which a request alone in its team still settles.
Survivable == AllBut({"release", "fail", "hour"})
=============================================================================
