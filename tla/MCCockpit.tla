----------------------------- MODULE MCCockpit ------------------------------
(* Three prompts: one that starts a turn, one that is queued in it and one  *)
(* that is sent when it has ended.                                          *)
EXTENDS Cockpit

CONSTANTS p1, p2, p3

=============================================================================
