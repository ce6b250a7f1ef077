---------------------------- MODULE MCApprovals -----------------------------
(* Approvals with four requests, three of them of one session and one of    *)
(* those without a transcript path; two are read and two held at once.  A   *)
(* timeout denies two of them and leaves the dialog to the others.          *)
EXTENDS Approvals, TLC

CONSTANTS h1, h2, h3, h4, a, b

MCSidOf == h1 :> a @@ h2 :> a @@ h3 :> a @@ h4 :> b

MCOnTimeout == h1 :> "deny" @@ h2 :> "dialog" @@ h3 :> "dialog" @@ h4 :> "deny"

=============================================================================
