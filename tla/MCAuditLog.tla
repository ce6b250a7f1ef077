----------------------------- MODULE MCAuditLog -----------------------------
(* AuditLog with files of two lines, two rotations and six entries: the     *)
(* chain spans three files, with a fourth for a rotation that was undone.   *)
EXTENDS AuditLog
=============================================================================
