----------------------------- MODULE MCControl ------------------------------
(* Control, in two halves whose steps meet only in the sentinel of the whole *)
(* builder: one session of a low-priority lane under the budget of the whole *)
(* board with no kill, and one kill job with no cap.                         *)
EXTENDS Control

CONSTANT s1

=============================================================================
