-------------------------- MODULE MCGovernedActions --------------------------
(***************************************************************************)
(* Small instances of the governed action lane for TLC.                    *)
(***************************************************************************)
EXTENDS GovernedActions, TLC

CONSTANT r1   \* the request that the mixed instance makes additive

\* Every request of the instance is of one kind, needs one approver, may run
\* live and expires at the end of day 1.
KindAppend   == [r \in Requests |-> "append"]
KindRedeploy == [r \in Requests |-> "redeploy"]
KindMixed    == [r \in Requests |-> IF r = r1 THEN "additive" ELSE "redeploy"]
KindRollback == [r \in Requests |-> "rollback"]
OneApprover  == [r \in Requests |-> "Single Approval"]
DayZero      == [r \in Requests |-> 0]
DayOne       == [r \in Requests |-> 1]

Symmetry == Permutations(Procs) \cup Permutations(RowIds)
==============================================================================
