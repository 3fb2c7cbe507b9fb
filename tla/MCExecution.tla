---------------------------- MODULE MCExecution ----------------------------
EXTENDS Execution

\* A run has one job for each phase.
MCJob == {"plan", "apply"}

\* A new version is released between the plan and the apply.
MCOffered == [plan |-> {"v1"}, apply |-> {"v2"}]
=============================================================================
