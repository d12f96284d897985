-------------------------------- MODULE Find --------------------------------
(***************************************************************************)
(* How what a player names is found: Creature::clFindAny, clFindObject,    *)
(* clFindCreature and clFindPortal (src/mud/command.cc) over the searches  *)
(* of rooms, containers and bodies.  A name is typed as "<n>th <name>";    *)
(* of everything around only whether it goes by that name matters, so      *)
(* every list is one of things that do or do not.                          *)
(***************************************************************************)
EXTENDS Naturals, SequencesExt

CONSTANTS MaxList,  \* bound on the length of a list
          MaxIndex  \* bound on the number typed

Nothing == <<"nothing", 0>>
Unasked == [any |-> "unasked"]

VARIABLES creatures, objects, \* of the room: names, TRUE where they match
          tables,   \* what lies on the first object of the room
          held, worn,
          portals,  \* [match, disabled]
          index, mine, \* what was typed: which one, and "my"
          found     \* by each of the searches

vars == <<creatures, objects, tables, held, worn, portals, index, mine, found>>

Lists == UNION {[1 .. n -> BOOLEAN] : n \in 0 .. MaxList}
Few   == {<<>>, <<TRUE>>, <<FALSE, TRUE>>}

(* What a list holds of the name: the places that match.                   *)
Matching(where, list) ==
    [i \in 1 .. Len(SelectSeq(list, LAMBDA m : m)) |->
        <<where, CHOOSE p \in DOMAIN list :
            list[p] /\ Len(SelectSeq(SubSeq(list, 1, p), LAMBDA m : m)) = i>>]

(* Faulty: the match itself is not counted.                                *)
MutMatch(where, list, c) ==
    LET ms == Matching(where, list)
    IN  IF c <= Len(ms) THEN [found |-> ms[c], matches |-> c - 1]
        ELSE [found |-> Nothing, matches |-> Len(ms) - (IF Len(ms) > 1 THEN 1 ELSE 0)]

(* EList::match, Object::findObject: the c-th that matches, and how many   *)
(* were counted.                                                           *)
Match(where, list, c) ==
    LET ms == Matching(where, list)
    IN  IF c <= Len(ms) THEN [found |-> ms[c], matches |-> c]
        ELSE [found |-> Nothing, matches |-> Len(ms)]

(* A search list by list, the number going down by the matches of each.    *)
RECURSIVE Search(_, _)
Search(places, c) ==
    IF places = <<>> THEN [found |-> Nothing, left |-> c]
    ELSE LET m == Match(Head(places).where, Head(places).list, c)
         IN  IF m.found # Nothing THEN [found |-> m.found, left |-> c]
             ELSE Search(Tail(places), c - m.matches)

Place(where, list) == [where |-> where, list |-> list]

(* findHeld, findWorn: the first, whatever the number.                     *)
FirstOf(where, list) == Match(where, list, 1).found

(* findPortal, again and again while the portal found is disabled.         *)
RECURSIVE FindPortal(_)
FindPortal(c) ==
    LET ms == Matching("portal", [i \in DOMAIN portals |-> portals[i].match])
    IN  IF c > Len(ms) THEN Nothing
        ELSE IF portals[ms[c][2]].disabled THEN FindPortal(c + 1) ELSE ms[c]

(* clFindObject with all of GOC_FLOOR, GOC_SUB, GOC_HELD and GOC_WORN; my  *)
(* clears the floor alone.                                                 *)
FindObject(my, n) ==
    LET s == Search((IF my THEN <<>> ELSE <<Place("room", objects)>>) \o <<Place("table", tables)>>, n)
        h == FirstOf("held", held)
    IN  CASE s.found # Nothing -> s.found
          [] s.found = Nothing /\ h # Nothing -> h
          [] OTHER -> FirstOf("worn", worn)

(* clFindAny; my is a search of the equipment only.                        *)
FindAny ==
    IF mine
    THEN IF FirstOf("held", held) # Nothing THEN FirstOf("held", held) ELSE FirstOf("worn", worn)
    ELSE LET s == Search(<<Place("creature", creatures), Place("room", objects), Place("table", tables),
                           Place("held", held), Place("worn", worn)>>, index)
         IN  IF s.found # Nothing THEN s.found ELSE FindPortal(s.left)

Init ==
    /\ creatures \in Few /\ objects \in Lists /\ tables \in Lists
    /\ held \in Few /\ worn \in {<<>>, <<TRUE>>}
    /\ portals \in {<<>>} \cup [1 .. 2 -> [match : BOOLEAN, disabled : BOOLEAN]]
    /\ objects = <<>> => tables = <<>>
    /\ index = 0 /\ mine = FALSE /\ found = Unasked

(* A name is typed; each command asks one of the searches.                 *)
Ask(n, my) ==
    /\ index = 0 /\ index' = n /\ mine' = my
    /\ UNCHANGED <<creatures, objects, tables, held, worn, portals, found>>

Answer ==
    /\ index # 0 /\ found = Unasked
    /\ found' = [any |-> FindAny, object |-> FindObject(mine, index), portal |-> FindPortal(index)]
    /\ UNCHANGED <<creatures, objects, tables, held, worn, portals, index, mine>>

Next == Answer \/ \E n \in 1 .. MaxIndex, my \in BOOLEAN : Ask(n, my)

Spec == Init /\ [][Next]_vars

-----------------------------------------------------------------------------
(* Everything that goes by the name, in the order it is counted.           *)
All == Matching("creature", creatures) \o Matching("room", objects) \o Matching("table", tables)
          \o Matching("held", held) \o Matching("worn", worn)

(* The third sword is the third of all there is, in the room, on its       *)
(* tables, in the hands and on the body: no list is counted twice or       *)
(* skipped when the number runs over its end (command.cc:905-1020).        *)
FindsTheNth ==
    (found # Unasked /\ ~mine) =>
        IF index <= Len(All) THEN found.any = All[index]
        ELSE \/ found.any = Nothing
             \/ /\ found.any[1] = "portal" /\ ~portals[found.any[2]].disabled
                /\ found.any[2] >= index - Len(All)
=============================================================================
