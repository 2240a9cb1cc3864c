------------------------------ MODULE MCAuditLog ------------------------------
EXTENDS AuditLog, TLC

Symmetry == Permutations(Recorders)
=============================================================================
