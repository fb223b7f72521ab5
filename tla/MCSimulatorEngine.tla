-------------------------- MODULE MCSimulatorEngine --------------------------
(* Values of the constants of SimulatorEngine for TLC. *)
EXTENDS SimulatorEngine, TLC

OneTenant == [s \in Session |-> CHOOSE t \in Tenant : TRUE]

\* One session is started for another tenant than the others.
TwoTenants ==
  LET odd == CHOOSE s \in Session : TRUE
      t   == CHOOSE x \in Tenant : TRUE
  IN [s \in Session |-> IF s = odd THEN t ELSE CHOOSE x \in Tenant : x # t]

Symmetry == Permutations(Session) \cup Permutations(ScanLane) \cup Permutations(StopLane)
=============================================================================
