-------------------------- MODULE MCAuditReconcile --------------------------
(* AuditReconcile with pages of one entry: a pull is interrupted between    *)
(* any two entries.                                                         *)
EXTENDS AuditReconcile
=============================================================================
