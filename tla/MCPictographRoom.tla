-------------------------- MODULE MCPictographRoom --------------------------
(* A small instance of PictographRoom: alice connects twice, bob once. *)
EXTENDS PictographRoom, TLC

CONSTANTS alice, bob, a1, a2, b1

MCOwner == (a1 :> alice) @@ (a2 :> alice) @@ (b1 :> bob)
=============================================================================
