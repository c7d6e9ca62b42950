--------------------------- MODULE MCScrabbleRoom ---------------------------
(* A small instance of ScrabbleRoom: alice connects twice, bob once. *)
EXTENDS ScrabbleRoom, TLC

CONSTANTS alice, bob, a1, a2, b1, x

MCOwner == (a1 :> alice) @@ (a2 :> alice) @@ (b1 :> bob)
=============================================================================
