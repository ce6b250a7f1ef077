---------------------------- MODULE MCActionPath ----------------------------
(* ActionPath with the windows scaled to skew 1, ttl 2 and preload 2 (the   *)
(* code has 60 s, 300 s and 300 s): one id, two requests and a clock that   *)
(* outruns every window.                                                    *)
EXTENDS ActionPath

CONSTANTS a, s1, s2

=============================================================================
