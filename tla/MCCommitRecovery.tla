-------------------------- MODULE MCCommitRecovery --------------------------
EXTENDS CommitRecovery
=============================================================================
