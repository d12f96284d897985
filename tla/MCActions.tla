----------------------------- MODULE MCActions -----------------------------
(* Two rooms, a door between them and a one-way passage from r1 to r2.     *)
EXTENDS Actions, TLC
CONSTANTS r1, r2, door, passage, c1, c2
MCParent == (door :> r1) @@ (passage :> r1)
MCMaxQueue == (c1 :> 2) @@ (c2 :> 1)
MCRoomCoins == (r1 :> 1) @@ (r2 :> 0)
MCTarget == (door :> r2) @@ (passage :> r2)
=============================================================================
