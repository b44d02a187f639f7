------------------------------ MODULE MCPilot -------------------------------
(* Small instances of Pilot: a few attempts of one request.                *)
EXTENDS Pilot, TLC

\* Attempts are interchangeable.
AttemptSymmetry == Permutations(Pilots)
=============================================================================
