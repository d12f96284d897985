------------------------------ MODULE Creation ------------------------------
(***************************************************************************)
(* The dialogue that creates a character (src/mud/creation.cc), with the   *)
(* races of race.cc.  Session has the dialogue's effect on accounts and    *)
(* connections; here is what the character is made of.  Other connections  *)
(* take names meanwhile.                                                   *)
(***************************************************************************)
EXTENDS Naturals, FiniteSets

CONSTANTS Names, Races,
          Colors,        \* Colors[r][p]: what part p may look like in race r
          Stats,         \* CreatureStatID
          Base, RandInc, TokenInc, StatMax,  \* STAT_BASE and so on
          Tokens, Rolls  \* STAT_TOKENS; STAT_POINTS / STAT_RAND_INC

ASSUME CreationAssumption ==
    /\ IsFiniteSet(Stats)
    /\ Base \in Nat /\ RandInc \in Nat /\ TokenInc \in Nat
    /\ Tokens \in Nat \ {0} /\ Rolls \in Nat

Parts == {"skin", "eyes", "hair"}
NoName == "no name"
Unset == "unset"
Wild == "wild"  \* a member the constructor leaves as it was

VARIABLES state, name, race,
          gender, color,  \* of each part
          stats, tokens,
          taken,          \* names that exist: MPlayer.exists
          screen,         \* what the last display() told of the character
          created         \* the characters created, by name

creationVars == <<state, name, race, gender, color, stats, tokens, taken, screen, created>>

(* What every state is followed by, on yes or a choice, and on no.         *)
After == [NAME_CONFIRM |-> "RACE", RACE |-> "RACE_CONFIRM", RACE_CONFIRM |-> "GENDER",
          GENDER |-> "HEIGHT", HEIGHT |-> "BUILD", BUILD |-> "SKINCOLOR",
          SKINCOLOR |-> "EYECOLOR", EYECOLOR |-> "HAIRCOLOR", HAIRCOLOR |-> "HAIRSTYLE",
          HAIRSTYLE |-> "FORM_CONFIRM", FORM_CONFIRM |-> "STATS", STATS_CONFIRM |-> "FINAL_CONFIRM"]
Back == [NAME_CONFIRM |-> "NAME", RACE_CONFIRM |-> "RACE", FORM_CONFIRM |-> "GENDER",
         STATS_CONFIRM |-> "STATS", FINAL_CONFIRM |-> "NAME"]
PartOf == [SKINCOLOR |-> "skin", EYECOLOR |-> "eyes", HAIRCOLOR |-> "hair"]
Late == {"FINAL_CONFIRM", "CONTINUE", "RENAME", "RENAME_CONFIRM"}

(* All points of all the stats together.                                   *)
Points(s) == UNION {{i} \X (1 .. s[i]) : i \in Stats}
Total(s) == Cardinality(Points(s))

(* The points a character has before any token is spent, and after the     *)
(* last.                                                                   *)
Thrown == Cardinality(Stats) * Base + Rolls * RandInc
AllPoints == Thrown + Tokens * TokenInc

(* STATE_STATS: the points are thrown anew.                                *)
Rolled == {s \in [Stats -> {Base + n * RandInc : n \in 0 .. Rolls}] : Total(s) = Thrown}

(* display: the head of the screen, from whatever has a value by now.      *)
Display(s, n, r, g, c) ==
    screen' = (IF n # NoName THEN {"name"} \cup (IF r # Unset THEN {"race"} ELSE {}) ELSE {})
        \cup (IF g # Unset THEN {"gender"} ELSE {})
        \cup (IF c["skin"] # Unset THEN {p \in Parts : c[p] # Unset} ELSE {})
        \cup (IF s \in Late THEN {"stats"} ELSE {})

(* Faulty: a second throw of the points leaves the tokens as they are.     *)
MutEnterState(s, n, r, g, c) ==
    LET name1 == IF s = "NAME" THEN NoName ELSE n
        race1 == IF s = "RACE" THEN Unset ELSE r
    IN  /\ state' = s /\ name' = name1 /\ race' = race1 /\ gender' = g /\ color' = c
        /\ IF s = "STATS" THEN stats' \in Rolled /\ tokens' = (IF tokens = 0 THEN Tokens ELSE tokens)
           ELSE UNCHANGED <<tokens, stats>>
        /\ Display(s, name1, race1, g, c)

(* enter_state, with the name, gender and colours that were just set.      *)
EnterState(s, n, r, g, c) ==
    LET name1 == IF s = "NAME" THEN NoName ELSE n
        race1 == IF s = "RACE" THEN Unset ELSE r
    IN  /\ state' = s /\ name' = name1 /\ race' = race1 /\ gender' = g /\ color' = c
        /\ IF s = "STATS" THEN tokens' = Tokens /\ stats' \in Rolled ELSE UNCHANGED <<tokens, stats>>
        /\ Display(s, name1, race1, g, c)

Enter(s) == EnterState(s, name, race, gender, color)

CreationInit ==
    /\ state = "NAME" /\ name = NoName /\ race \in {Unset, Wild}
    /\ gender = Unset /\ color = [p \in Parts |-> Unset]
    /\ stats = [s \in Stats |-> 0] /\ tokens = 0
    /\ taken = {} /\ screen = {} /\ created = {}

(* STATE_NAME, STATE_RENAME: a valid name that does not exist.             *)
ChooseName(n) ==
    /\ state \in {"NAME", "RENAME"} /\ n \notin taken
    /\ EnterState(IF state = "NAME" THEN "NAME_CONFIRM" ELSE "RENAME_CONFIRM", n, race, gender, color)
    /\ UNCHANGED <<taken, created>>

(* The confirmations, all but the last.                                    *)
Confirm(yes) ==
    /\ state \in DOMAIN Back /\ (yes => state # "FINAL_CONFIRM")
    /\ Enter(IF yes THEN After[state] ELSE Back[state])
    /\ UNCHANGED <<taken, created>>

ChooseRace(r) ==
    /\ state = "RACE"
    /\ EnterState("RACE_CONFIRM", name, r, gender, color)
    /\ UNCHANGED <<taken, created>>

ChooseGender ==
    /\ state = "GENDER"
    /\ EnterState("HEIGHT", name, race, "chosen", color)
    /\ UNCHANGED <<taken, created>>

(* Height, build and hair style are of the same choice for everyone.       *)
ChooseForm ==
    /\ state \in {"HEIGHT", "BUILD", "HAIRSTYLE"}
    /\ Enter(After[state])
    /\ UNCHANGED <<taken, created>>

ChooseColor(k) ==
    /\ state \in DOMAIN PartOf
    /\ k \in Colors[race][PartOf[state]]
    /\ EnterState(After[state], name, race, gender, [color EXCEPT ![PartOf[state]] = k])
    /\ UNCHANGED <<taken, created>>

(* STATE_STATS: a token for a stat, or all of it again.                    *)
SpendToken(s) ==
    /\ state = "STATS" /\ stats[s] < StatMax
    /\ stats' = [stats EXCEPT ![s] = @ + TokenInc] /\ tokens' = tokens - 1
    /\ state' = IF tokens = 1 THEN "STATS_CONFIRM" ELSE state
    /\ Display(state', name, race, gender, color)
    /\ UNCHANGED <<name, race, gender, color, taken, created>>

Reroll == state = "STATS" /\ Enter("STATS") /\ UNCHANGED <<taken, created>>

(* STATE_FINAL_CONFIRM: the name may have been taken since.                *)
FinalConfirm ==
    /\ state = "FINAL_CONFIRM"
    /\ IF name \in taken THEN Enter("RENAME") /\ UNCHANGED <<taken, created>>
       ELSE /\ created' = created \cup {[name |-> name, race |-> race, color |-> color, stats |-> stats]}
            /\ taken' = taken \cup {name}
            /\ Enter("CONTINUE")

(* The states process has no case for, and "quit" in any of them.          *)
Finish ==
    /\ state # "DONE" /\ state' = "DONE"
    /\ UNCHANGED <<name, race, gender, color, stats, tokens, taken, screen, created>>

(* Somebody else's character comes into being.                             *)
OtherTakes(n) ==
    /\ n \notin taken /\ taken' = taken \cup {n}
    /\ UNCHANGED <<state, name, race, gender, color, stats, tokens, screen, created>>

CreationNext ==
    \/ \E n \in Names : ChooseName(n) \/ OtherTakes(n)
    \/ \E yes \in BOOLEAN : Confirm(yes)
    \/ \E r \in Races : ChooseRace(r)
    \/ ChooseGender \/ ChooseForm \/ FinalConfirm \/ Reroll \/ Finish
    \/ \E k \in UNION {Colors[r][p] : r \in Races, p \in Parts} : ChooseColor(k)
    \/ \E s \in Stats : SpendToken(s)

CreationSpec == CreationInit /\ [][CreationNext]_creationVars

-----------------------------------------------------------------------------
(* "all characters will have the same total of attribute points"           *)
(* (creation.cc:490-491): however often its maker went back, threw the     *)
(* points again or changed race, a character has all its points and no     *)
(* more and looks like one of its race, and so it does on the screens that *)
(* show it.                                                                *)
ProfileRight ==
    /\ \A c \in created :
          /\ Total(c.stats) = AllPoints
          /\ c.race \in Races /\ \A p \in Parts : c.color[p] \in Colors[c.race][p]
    /\ "stats" \in screen => Total(stats) = AllPoints
=============================================================================
