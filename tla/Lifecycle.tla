----------------------------- MODULE Lifecycle -----------------------------
(***************************************************************************)
(* What entity.h promises of an Entity's life (entity.h:120-123): it is    *)
(* created FLOAT, enters the active world tree at most once, leaves it at  *)
(* most once, and its memory is released only while it is outside the      *)
(* tree.  Several entities may move together: a container carries its      *)
(* contents with it.                                                       *)
(***************************************************************************)
CONSTANT Entities

VARIABLE state

States == {"FREE", "FLOAT", "ACTIVE", "DEAD"}

(* One hop of one life.  FREE is memory that holds no entity.              *)
Hop == { <<"FREE", "FLOAT">>, <<"FLOAT", "ACTIVE">>, <<"ACTIVE", "DEAD">>,
         <<"FLOAT", "FREE">>, <<"DEAD", "FREE">> }

Init == state = [e \in Entities |-> "FREE"]

Next == /\ state' \in [Entities -> States]
        /\ \A e \in Entities :
              state'[e] # state[e] => <<state[e], state'[e]>> \in Hop

Spec == Init /\ [][Next]_state
=============================================================================
