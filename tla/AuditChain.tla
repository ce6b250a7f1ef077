----------------------------- MODULE AuditChain -----------------------------
(***************************************************************************)
(* What the audit log promises (header of fleet/audit.mjs), whatever files *)
(* it is kept in: one chain of entries that only grows at its end.  An     *)
(* entry is safe once `append` has returned, and so is all before it; an   *)
(* entry whose append never returned may be lost by a crash.  Only an      *)
(* operator, who moves the log aside, starts over: that is another log.    *)
(***************************************************************************)
EXTENDS Naturals, Sequences, SequencesExt

VARIABLES chain,   \* the entries a verification of the log finds, in order
          safe,    \* how many of them will never be lost
          era      \* which log it is: another one each time it is moved aside

Init == chain = <<>> /\ safe = 0 /\ era = 0

\* Entries are written after the last one.
Extend == /\ IsStrictPrefix(chain, chain')
          /\ UNCHANGED safe

\* An append returns: all the entries up to its own are safe.
Ack == /\ safe < safe' /\ safe' <= Len(chain)
       /\ UNCHANGED chain

\* A crash loses entries, but no safe one.
Lose == /\ IsStrictPrefix(chain', chain)
        /\ safe <= Len(chain')
        /\ UNCHANGED safe

\* Whatever the program and the machine do.
Step == Extend \/ Ack \/ Lose

\* The operator's alone.
StartOver == chain' = <<>> /\ safe' = 0 /\ era' = 1 - era

Next == \/ Step /\ UNCHANGED era
        \/ StartOver

Spec == Init /\ [][Next]_<<chain, safe, era>>

=============================================================================
