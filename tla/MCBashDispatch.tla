--------------------------- MODULE MCBashDispatch ---------------------------
(* Instances of BashDispatch for TLC: sessions s1, s2 and calls c1, c2. *)
EXTENDS BashDispatch, TLC
CONSTANTS s1, s2, c1, c2

TwoCallsOneSession == (c1 :> s1) @@ (c2 :> s1)
OneCall            == (c1 :> s1)
=============================================================================
