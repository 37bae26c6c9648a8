------------------------------- MODULE MCIssues -------------------------------
EXTENDS Issues, TLC

\* Objects, sessions and transactions are interchangeable.
MCSymmetry == Permutations(Ref) \cup Permutations(Session) \cup Permutations(Tx)

=============================================================================
