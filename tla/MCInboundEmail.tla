--------------------------- MODULE MCInboundEmail ---------------------------
(***************************************************************************)
(* An instance of InboundEmail for TLC: two deliveries race for the first  *)
(* attempt at a message, in different envelopes, and one is left to        *)
(* recover it from the first of them.                                      *)
(***************************************************************************)
EXTENDS InboundEmail, TLC

CONSTANTS m, a1, a2, b1, x, y

Say(s, k, e) == [source |-> s, attempt |-> k, envelope |-> e]

Deliveries ==
  (a1 :> Say(m, 1, "e")) @@ (a2 :> Say(m, 1, "f")) @@ (b1 :> Say(m, 2, "e"))

\* Nothing tells one content from another but being the same or not.
EitherContent == Permutations({x, y})

=============================================================================
