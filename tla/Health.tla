------------------------------- MODULE Health -------------------------------
(***************************************************************************)
(* Hit points, death, affects and fights: Creature::heal, damage and       *)
(* heartbeat (src/mud/creature.cc), the affects of caffect.cc and the      *)
(* attack action of combat.cc.  No command leads to an attack at present   *)
(* (commandAttack is in no command table): the fights here are those       *)
(* doAttack and doKill describe.                                           *)
(***************************************************************************)
EXTENDS Integers

CONSTANTS Players, Npcs,
          MaxHP,        \* what recalcHealth gives
          Damages,      \* what a round of blows may add up to
          Period,       \* rounds between two points healed, 50 - FORTITUDE/5
          Base, Mod,    \* a player's base Strength, and what "Strength" adds
          Duration,     \* of an affect, in heartbeats
          MaxBlows      \* bound on what happens to the creatures from outside

Creatures == Players \cup Npcs

VARIABLES hp,       \* health.cur
          dead,     \* Creature::dead
          gone,     \* destroyed
          round,    \* MUD::getRounds() % Period
          strength, \* effective_stats[STRENGTH] of a player
          left,     \* duration left of its affect, 0 for none
          blows     \* attacks, affects and edits so far

vars == <<hp, dead, gone, round, strength, left, blows>>

Init ==
    /\ hp = [c \in Creatures |-> MaxHP]
    /\ dead = [c \in Creatures |-> FALSE] /\ gone = [c \in Creatures |-> FALSE]
    /\ round = 0
    /\ strength = [p \in Players |-> Base] /\ left = [p \in Players |-> 0]
    /\ blows = 0

(* Faulty: only a creature with points left heals.                         *)
MutHealed(c, amount) ==
    IF hp[c] <= 0 THEN hp[c] ELSE IF hp[c] + amount > MaxHP THEN MaxHP ELSE hp[c] + amount

(* Creature::heal                                                          *)
Healed(c, amount) == IF hp[c] + amount > MaxHP THEN MaxHP ELSE hp[c] + amount

(* CreatureAffectStat: an affect sets the stat to the base value and the   *)
(* modifier; when it is removed, to the base value less the modifier.      *)
Applied(p) == [strength EXCEPT ![p] = Base + Mod]
Expires(p) == left[p] = 1 /\ ~gone[p]

(* Creature::heartbeat of all of them: a point is healed when the round    *)
(* comes, and every affect ages until its time is up.                      *)
Heartbeat ==
    /\ round' = (round + 1) % Period
    /\ hp' = [c \in Creatures |-> IF ~gone[c] /\ ~dead[c] /\ round' = 0 THEN Healed(c, 1) ELSE hp[c]]
    /\ left' = [p \in Players |-> IF left[p] > 0 /\ ~gone[p] THEN left[p] - 1 ELSE left[p]]
    /\ strength' = [p \in Players |-> IF Expires(p) THEN Base - Mod ELSE strength[p]]
    /\ UNCHANGED <<dead, gone, blows>>

Blow == blows < MaxBlows /\ blows' = blows + 1

(* addAffect, of every player who logs in.                                 *)
Strengthen(p) ==
    /\ Blow /\ ~gone[p] /\ left[p] = 0
    /\ left' = [left EXCEPT ![p] = Duration]
    /\ strength' = Applied(p)
    /\ UNCHANGED <<hp, dead, gone, round>>

(* Creature::damage and kill: the dead are left alone, an NPC that dies is *)
(* destroyed.                                                              *)
Damage(v, d) ==
    IF dead[v] THEN UNCHANGED <<hp, dead, gone>>
    ELSE /\ hp' = [hp EXCEPT ![v] = @ - d]
         /\ dead' = [dead EXCEPT ![v] = hp[v] - d <= 0]
         /\ gone' = [gone EXCEPT ![v] = hp[v] - d <= 0 /\ v \in Npcs]

(* ActionAttackCreature::start: not when dead, not oneself, no player      *)
(* another player.                                                         *)
Attack(a, v, d) ==
    /\ Blow /\ ~gone[a] /\ ~dead[a] /\ ~gone[v] /\ a # v
    /\ ~(a \in Players /\ v \in Players)
    /\ Damage(v, d)
    /\ UNCHANGED <<round, strength, left>>

(* Creature::loadNode, loadFinish: whatever number the file has, cut to    *)
(* the maximum by recalcHealth; it may be none or less.                    *)
LoadHP(c, n) ==
    /\ Blow /\ ~gone[c]
    /\ hp' = [hp EXCEPT ![c] = IF n > MaxHP THEN MaxHP ELSE n]
    /\ UNCHANGED <<dead, gone, round, strength, left>>

Next ==
    \/ Heartbeat
    \/ \E p \in Players : Strengthen(p)
    \/ \E a, v \in Creatures, d \in Damages : Attack(a, v, d)
    \/ \E c \in Creatures, n \in -1 .. MaxHP + 1 : LoadHP(c, n)

-----------------------------------------------------------------------------
(* A creature that is left alone ends up whole, whether a fight or a file  *)
(* left it wounded or without any points, unless it has died               *)
(* (creature.cc:423-435, 504-506): no value is a trap.                     *)
Whole == \A c \in Creatures : gone[c] \/ dead[c] \/ hp[c] = MaxHP
=============================================================================
