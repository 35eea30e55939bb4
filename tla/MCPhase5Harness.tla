--------------------------- MODULE MCPhase5Harness ---------------------------
(* Two conditions and two seeds: alone, together, and in another order. *)
EXTENDS Phase5Harness

OneOrTwoSeeds == { <<1>>, <<2>>, <<1, 2>> }

=============================================================================
