---------------------------- MODULE WorldProofs ----------------------------
(***************************************************************************)
(* Proofs about World for any objects, creatures and rooms: every living   *)
(* object is in exactly one place, the place of its owner, and nothing     *)
(* alive lists anything dead.                                              *)
(***************************************************************************)
EXTENDS World, TLAPS

(* The three ways of listing an object, one by one.                        *)
InRoom(o, r)    == o \in objects[r]
InObject(o, p)  == o \in children[p]
InSlot(o, c, s) == equipment[c][s] = o

PlacesTyped ==
    /\ state \in [Objects \cup Creatures -> {"FREE", "ACTIVE", "DEAD"}]
    /\ owner \in [Objects -> Owners \cup {Null}]
    /\ objects \in [Rooms -> SUBSET Objects]
    /\ children \in [Objects -> SUBSET Objects]
    /\ equipment \in [Creatures -> [Slots -> Objects \cup {Null}]]
    /\ up \in BOOLEAN

Waiting == [do : {"get", "put", "wear", "remove", "drop"}, obj : Objects,
            to : Objects \cup {Null}]
Fits(act) == act \in Waiting /\ (act.do = "put" => act.to \in Objects)

(* Living creatures are somewhere, and what waits in a queue is an action. *)
CreaturesTyped ==
    /\ location \in [Creatures -> Rooms \cup {Null}]
    /\ queue \in [Creatures -> Waiting \cup {Null}]
    /\ \A c \in Creatures : /\ Live(c) => location[c] \in Rooms
                            /\ queue[c] # Null => Fits(queue[c])

(* OnePlace, place by place.                                               *)
Placed ==
    \A o \in Objects : Live(o) =>
        /\ owner[o] \in Owners
        /\ \A r \in Rooms : InRoom(o, r) <=> owner[o] = r
        /\ \A p \in Objects : InObject(o, p) <=> owner[o] = p
        /\ \A c \in Creatures : (\E s \in Slots : InSlot(o, c, s)) <=> owner[o] = c
        /\ \A c \in Creatures, s, t \in Slots : InSlot(o, c, s) /\ InSlot(o, c, t) => s = t

(* The owner of a living object is a room or alive.                        *)
OwnersLive == \A o \in Objects : Live(o) => owner[o] \in Rooms \/ Live(owner[o])

(* What is not alive is in no living place, and free memory in none.       *)
DeadUnlisted ==
    \A o \in Objects : ~Live(o) =>
        /\ \A r \in Rooms : ~InRoom(o, r)
        /\ \A p \in Objects : Live(p) \/ state[o] = "FREE" => ~InObject(o, p)
        /\ \A c \in Creatures, s \in Slots : Live(c) \/ state[o] = "FREE" => ~InSlot(o, c, s)

(* Free memory lists nothing.                                              *)
FreeIsBlank ==
    /\ \A p \in Objects : state[p] = "FREE" => children[p] = {}
    /\ \A c \in Creatures : state[c] = "FREE" => equipment[c] = Nothing

Good == Placed /\ OwnersLive /\ DeadUnlisted /\ FreeIsBlank

(* The inductive invariant.                                                *)
IInv == PlacesTyped /\ CreaturesTyped /\ (up => Good)

-----------------------------------------------------------------------------
(* Good says what Whereabouts says, and more.                              *)
LEMMA GoodIsWhereabouts == PlacesTyped /\ Good => Whereabouts
<1> SUFFICES ASSUME PlacesTyped, Good PROVE Whereabouts
  OBVIOUS
<1>1. ListsLive
  BY DEF ListsLive, Good, DeadUnlisted, InRoom, InObject, InSlot, PlacesTyped, Equipped
<1>2. ASSUME NEW o \in Objects, Live(o)
      PROVE  \E q \in Listed(o) : Listed(o) = {q} /\ q[1] = owner[o]
  <2>1. /\ owner[o] \in Rooms \cup Creatures \cup Objects
        /\ \A r \in Rooms : o \in objects[r] <=> owner[o] = r
        /\ \A p \in Objects : o \in children[p] <=> owner[o] = p
        /\ \A c \in Creatures : (\E s \in Slots : equipment[c][s] = o) <=> owner[o] = c
        /\ \A c \in Creatures, s, t \in Slots : equipment[c][s] = o /\ equipment[c][t] = o => s = t
    BY <1>2 DEF Good, Placed, InRoom, InObject, InSlot, Owners
  <2>2. Listed(o) = {<<r, "objects">> : r \in {x \in Rooms : owner[o] = x}}
                      \cup {<<p, "children">> : p \in {x \in Objects : owner[o] = x}}
                      \cup {q \in Creatures \X Slots : equipment[q[1]][q[2]] = o}
    BY <2>1 DEF Listed
  <2>3. CASE owner[o] \in Rooms
    <3>1. \A q \in Creatures \X Slots : equipment[q[1]][q[2]] # o
      BY <2>1, <2>3, WorldAssumption
    <3>2. Listed(o) = {<<owner[o], "objects">>}
      BY <2>2, <2>3, <3>1, WorldAssumption
    <3> QED BY <3>2
  <2>4. CASE owner[o] \in Objects
    <3>1. \A q \in Creatures \X Slots : equipment[q[1]][q[2]] # o
      BY <2>1, <2>4, WorldAssumption
    <3>2. Listed(o) = {<<owner[o], "children">>}
      BY <2>2, <2>4, <3>1, WorldAssumption
    <3> QED BY <3>2
  <2>5. CASE owner[o] \in Creatures
    <3>1. PICK s \in Slots : equipment[owner[o]][s] = o
      BY <2>1, <2>5
    <3>2. {q \in Creatures \X Slots : equipment[q[1]][q[2]] = o} = {<<owner[o], s>>}
      BY <2>1, <2>5, <3>1
    <3>3. Listed(o) = {<<owner[o], s>>}
      BY <2>2, <2>5, <3>2, WorldAssumption
    <3> QED BY <3>3
  <2> QED BY <2>1, <2>3, <2>4, <2>5
<1> QED BY <1>1, <1>2 DEF Whereabouts, OnePlace

(* Inside(o) is o and whatever is in something inside o, nothing else.     *)
LEMMA InsideFacts ==
    ASSUME NEW o \in Objects, children \in [Objects -> SUBSET Objects]
    PROVE  /\ o \in Inside(o) /\ Inside(o) \subseteq Objects
           /\ \A p \in Inside(o) : children[p] \subseteq Inside(o)
           /\ \A x \in Inside(o) \ {o} : \E p \in Inside(o) : x \in children[p]
<1>1. o \in Inside(o) /\ Inside(o) \subseteq Objects
  BY DEF Inside
<1>2. ASSUME NEW p \in Inside(o), NEW x \in children[p] PROVE x \in Inside(o)
  BY <1>2 DEF Inside, Closed
<1>3. ASSUME NEW x \in Inside(o) \ {o} PROVE \E p \in Inside(o) : x \in children[p]
  <2> DEFINE T == {y \in Inside(o) : y = o \/ \E p \in Inside(o) : y \in children[p]}
  <2>1. o \in T /\ Closed(T) /\ T \in SUBSET Objects
    BY <1>1, <1>2 DEF Closed
  <2>2. x \in T
    BY <1>3, <2>1 DEF Inside
  <2> QED BY <2>2
<1> QED BY <1>1, <1>2, <1>3

(* Whatever is inside a living object is alive.                            *)
LEMMA InsideLive ==
    ASSUME PlacesTyped, Good, NEW o \in Objects, Live(o)
    PROVE  \A x \in Inside(o) : Live(x)
<1> DEFINE T == {x \in Objects : Live(x)}
<1>1. Closed(T)
  BY DEF Closed, PlacesTyped, Good, DeadUnlisted, InObject
<1> QED BY <1>1 DEF Inside

-----------------------------------------------------------------------------
(* An owner that lets go of o loses o and nothing else; if o was alive, it *)
(* is then nowhere.                                                        *)
LEMMA Released ==
    ASSUME PlacesTyped, NEW o \in Objects
    PROVE  /\ ReleasedRooms(o) \in [Rooms -> SUBSET Objects]
           /\ ReleasedChildren(o) \in [Objects -> SUBSET Objects]
           /\ ReleasedEquipment(o) \in [Creatures -> [Slots -> Objects \cup {Null}]]
           /\ \A r \in Rooms : \A y \in Objects :
                y \in ReleasedRooms(o)[r] <=> InRoom(y, r) /\ (y = o => owner[o] # r)
           /\ \A p \in Objects : \A y \in Objects :
                y \in ReleasedChildren(o)[p] <=> InObject(y, p) /\ (y = o => owner[o] # p)
           /\ \A c \in Creatures, s \in Slots : \A y \in Objects :
                ReleasedEquipment(o)[c][s] = y <=> InSlot(y, c, s) /\ (y = o => owner[o] # c)
           /\ \A c \in Creatures : equipment[c] = Nothing => ReleasedEquipment(o)[c] = Nothing
<1>1. \A c \in Creatures : ReleasedEquipment(o)[c] \in [Slots -> Objects \cup {Null}]
  BY DEF PlacesTyped, ReleasedEquipment
<1>2. ReleasedEquipment(o) \in [Creatures -> [Slots -> Objects \cup {Null}]]
  BY <1>1 DEF ReleasedEquipment
<1>3. \A c \in Creatures, s \in Slots : \A y \in Objects :
         ReleasedEquipment(o)[c][s] = y <=> InSlot(y, c, s) /\ (y = o => owner[o] # c)
  BY WorldAssumption DEF PlacesTyped, ReleasedEquipment, InSlot, Owners
<1>4. \A c \in Creatures : equipment[c] = Nothing => ReleasedEquipment(o)[c] = Nothing
  BY WorldAssumption DEF PlacesTyped, ReleasedEquipment, Nothing, Owners
<1> QED
  BY <1>2, <1>3, <1>4
  DEF PlacesTyped, ReleasedRooms, ReleasedChildren, InRoom, InObject

(* A step that gives the living object o to w, a room or something alive,  *)
(* and leaves every other object where it is.                              *)
LEMMA Moved ==
    ASSUME PlacesTyped, PlacesTyped', Good, NEW o \in Objects, Live(o),
           NEW w \in Owners, w \in Rooms \/ Live(w),
           state' = state, owner' = [owner EXCEPT ![o] = w],
           \A y \in Objects \ {o} :
              /\ \A r \in Rooms : InRoom(y, r)' <=> InRoom(y, r)
              /\ \A p \in Objects : InObject(y, p)' <=> InObject(y, p)
              /\ \A c \in Creatures, s \in Slots : InSlot(y, c, s)' <=> InSlot(y, c, s),
           \A r \in Rooms : InRoom(o, r)' <=> r = w,
           \A p \in Objects : InObject(o, p)' <=> p = w,
           \A c \in Creatures : (\E s \in Slots : InSlot(o, c, s)') <=> c = w,
           \A c \in Creatures, s, t \in Slots : InSlot(o, c, s)' /\ InSlot(o, c, t)' => s = t
    PROVE  Good'
<1>1. Placed'
  <2> SUFFICES ASSUME NEW y \in Objects, Live(y)'
               PROVE  /\ owner'[y] \in Owners
                      /\ \A r \in Rooms : InRoom(y, r)' <=> owner'[y] = r
                      /\ \A p \in Objects : InObject(y, p)' <=> owner'[y] = p
                      /\ \A c \in Creatures : (\E s \in Slots : InSlot(y, c, s)') <=> owner'[y] = c
                      /\ \A c \in Creatures, s, t \in Slots :
                            InSlot(y, c, s)' /\ InSlot(y, c, t)' => s = t
    BY DEF Placed
  <2>1. CASE y = o
    BY <2>1 DEF PlacesTyped
  <2>2. CASE y # o
    BY <2>2 DEF PlacesTyped, Good, Placed, Live
  <2> QED BY <2>1, <2>2
<1>2. OwnersLive'
  BY DEF Good, OwnersLive, Live, PlacesTyped
<1>3. DeadUnlisted'
  BY DEF Good, DeadUnlisted, Live
<1>4. FreeIsBlank'
  <2>1. ASSUME NEW p \in Objects, state'[p] = "FREE" PROVE children'[p] = {}
    <3>1. p # w
      BY <2>1, WorldAssumption DEF Live, Owners
    <3>2. \A y \in Objects : ~InObject(y, p)'
      BY <2>1, <3>1 DEF Good, FreeIsBlank, InObject
    <3> QED BY <3>2 DEF InObject, PlacesTyped
  <2>2. ASSUME NEW c \in Creatures, state'[c] = "FREE" PROVE equipment'[c] = Nothing
    <3>1. c # w
      BY <2>2, WorldAssumption DEF Live, Owners
    <3>2. \A y \in Objects, s \in Slots : ~InSlot(y, c, s)'
      BY <2>2, <3>1, WorldAssumption DEF Good, FreeIsBlank, InSlot, Nothing, Owners
    <3>3. equipment'[c] \in [Slots -> {Null}]
      BY <3>2 DEF InSlot, PlacesTyped
    <3> QED BY <3>3 DEF Nothing
  <2> QED BY <2>1, <2>2 DEF FreeIsBlank
<1> QED BY <1>1, <1>2, <1>3, <1>4 DEF Good

(* A step in which things only die: the living stay where they were, under *)
(* a living owner, and nothing alive lists the dead.                       *)
LEMMA Perished ==
    ASSUME PlacesTyped, PlacesTyped', Good,
           \A e \in Objects \cup Creatures : state'[e] = state[e] \/ (Live(e) /\ state'[e] = "DEAD"),
           \A y \in Objects : Live(y)' =>
              /\ owner'[y] = owner[y] /\ (owner[y] \in Rooms \/ Live(owner[y])')
              /\ \A r \in Rooms : InRoom(y, r)' <=> InRoom(y, r)
              /\ \A p \in Objects : InObject(y, p)' <=> InObject(y, p)
              /\ \A c \in Creatures, s \in Slots : InSlot(y, c, s)' <=> InSlot(y, c, s),
           \A y \in Objects : ~Live(y)' =>
              /\ \A r \in Rooms : ~InRoom(y, r)'
              /\ \A p \in Objects : Live(p)' => ~InObject(y, p)'
              /\ \A c \in Creatures, s \in Slots : Live(c)' => ~InSlot(y, c, s)',
           \A y \in Objects : state[y] = "FREE" =>
              /\ \A p \in Objects : InObject(y, p)' => InObject(y, p)
              /\ \A c \in Creatures, s \in Slots : InSlot(y, c, s)' => InSlot(y, c, s),
           \A p \in Objects : state[p] = "FREE" => children'[p] = children[p],
           \A c \in Creatures : state[c] = "FREE" => equipment'[c] = equipment[c]
    PROVE  Good'
<1>1. \A e \in Objects \cup Creatures : /\ Live(e)' => Live(e)
                                        /\ state'[e] = "FREE" => state[e] = "FREE"
  BY DEF Live
<1>2. Placed'
  BY <1>1 DEF Good, Placed
<1>3. OwnersLive'
  BY <1>1 DEF OwnersLive
<1>4. DeadUnlisted'
  BY <1>1 DEF Good, DeadUnlisted, Live
<1>5. FreeIsBlank'
  BY <1>1 DEF Good, FreeIsBlank
<1> QED BY <1>2, <1>3, <1>4, <1>5 DEF Good

-----------------------------------------------------------------------------
(* What setOwner does to the life of things: nothing, unless something     *)
(* living goes to somebody dead.                                           *)
LEMMA OwnerSet ==
    ASSUME PlacesTyped, NEW o \in Objects, NEW w \in Owners, SetOwner(o, w)
    PROVE  /\ state' \in [Objects \cup Creatures -> {"FREE", "ACTIVE", "DEAD"}]
           /\ owner' \in [Objects -> Owners \cup {Null}]
           /\ owner' = [owner EXCEPT ![o] = w]
           /\ ~Live(o) \/ w \in Rooms \/ Live(w) => state' = state
           /\ Live(o) /\ w \notin Rooms /\ ~Live(w) =>
                 state' = [x \in DOMAIN state |-> IF x \in Inside(o) THEN "DEAD" ELSE state[x]]
<1>1. state[o] # "FLOAT" /\ DOMAIN state = Objects \cup Creatures
  BY DEF PlacesTyped
<1>2. owner' = [owner EXCEPT ![o] = w] /\ owner' \in [Objects -> Owners \cup {Null}]
  BY DEF PlacesTyped, SetOwner
<1>3. ~Live(o) \/ w \in Rooms \/ Live(w) => state' = state
  BY <1>1 DEF PlacesTyped, SetOwner
<1>4. Live(o) /\ w \notin Rooms /\ ~Live(w) =>
         state' = [x \in DOMAIN state |-> IF x \in Inside(o) THEN "DEAD" ELSE state[x]]
  BY <1>1 DEF PlacesTyped, SetOwner
<1>5. state' \in [Objects \cup Creatures -> {"FREE", "ACTIVE", "DEAD"}]
  BY <1>1, <1>3, <1>4 DEF PlacesTyped
<1> QED BY <1>2, <1>3, <1>4, <1>5

(* A living object in a free slot of a living creature, Creature::hold and *)
(* Creature::wear alike.                                                   *)
LEMMA EquipStep ==
    ASSUME PlacesTyped, Good, NEW o \in Objects, Live(o), NEW c \in Creatures, Live(c),
           NEW k \in Slots, equipment[c][k] = Null,
           SetOwner(o, c), equipment' = [ReleasedEquipment(o) EXCEPT ![c][k] = o],
           objects' = ReleasedRooms(o), children' = ReleasedChildren(o), up' = up
    PROVE  PlacesTyped' /\ Good'
<1> DEFINE E == ReleasedEquipment(o)
<1>1. c \in Owners /\ c \notin Rooms /\ c \notin Objects /\ Null \notin Objects
  BY WorldAssumption DEF Owners
<1>2. /\ state' = state /\ owner' = [owner EXCEPT ![o] = c]
      /\ state' \in [Objects \cup Creatures -> {"FREE", "ACTIVE", "DEAD"}]
      /\ owner' \in [Objects -> Owners \cup {Null}]
  BY <1>1, OwnerSet
<1>3. /\ objects' \in [Rooms -> SUBSET Objects] /\ children' \in [Objects -> SUBSET Objects]
      /\ E \in [Creatures -> [Slots -> Objects \cup {Null}]]
      /\ \A r \in Rooms : \A y \in Objects :
            InRoom(y, r)' <=> InRoom(y, r) /\ (y = o => owner[o] # r)
      /\ \A p \in Objects : \A y \in Objects :
            InObject(y, p)' <=> InObject(y, p) /\ (y = o => owner[o] # p)
      /\ \A d \in Creatures, s \in Slots : \A y \in Objects :
            E[d][s] = y <=> InSlot(y, d, s) /\ (y = o => owner[o] # d)
  BY Released DEF InRoom, InObject
<1>4. \A d \in Creatures, s \in Slots :
         equipment'[d][s] = IF d = c /\ s = k THEN o ELSE E[d][s]
  BY <1>3
<1>5. equipment' \in [Creatures -> [Slots -> Objects \cup {Null}]]
  <2>1. [E[c] EXCEPT ![k] = o] \in [Slots -> Objects \cup {Null}]
    BY <1>3
  <2> QED BY <1>3, <2>1
<1>6. PlacesTyped'
  BY <1>2, <1>3, <1>5 DEF PlacesTyped
<1>7. \A d \in Creatures, s \in Slots : ~E[d][s] = o
  BY <1>3 DEF Good, Placed
<1>8. \A d \in Creatures, s \in Slots : InSlot(o, d, s)' <=> d = c /\ s = k
  BY <1>4, <1>7 DEF InSlot
<1>9. \A y \in Objects \ {o} : \A d \in Creatures, s \in Slots : InSlot(y, d, s)' <=> InSlot(y, d, s)
  BY <1>1, <1>3, <1>4 DEF InSlot
<1>10. /\ \A r \in Rooms : ~InRoom(o, r)'
       /\ \A p \in Objects : ~InObject(o, p)'
  BY <1>3 DEF Good, Placed
<1>11. \A y \in Objects \ {o} :
          /\ \A r \in Rooms : InRoom(y, r)' <=> InRoom(y, r)
          /\ \A p \in Objects : InObject(y, p)' <=> InObject(y, p)
          /\ \A d \in Creatures, s \in Slots : InSlot(y, d, s)' <=> InSlot(y, d, s)
  BY <1>3, <1>9
<1>12. /\ \A r \in Rooms : InRoom(o, r)' <=> r = c
       /\ \A p \in Objects : InObject(o, p)' <=> p = c
       /\ \A d \in Creatures : (\E s \in Slots : InSlot(o, d, s)') <=> d = c
       /\ \A d \in Creatures, s, t \in Slots : InSlot(o, d, s)' /\ InSlot(o, d, t)' => s = t
  BY <1>1, <1>8, <1>10
<1>13. state' = state /\ owner' = [owner EXCEPT ![o] = c] /\ c \in Owners
  BY <1>1, <1>2
<1> HIDE DEF E
<1> QED BY <1>6, <1>11, <1>12, <1>13, Moved, ZenonT(60)

(* Creature::hold with a free hand, of something living.                   *)
LEMMA HoldStep ==
    ASSUME PlacesTyped, Good, NEW o \in Objects, Live(o), NEW c \in Creatures, Live(c),
           ~HandsFull(c), Hold(c, o), up' = up
    PROVE  PlacesTyped' /\ Good'
<1>1. FreeHand(c) \in Slots /\ equipment[c][FreeHand(c)] = Null
  BY DEF HandsFull, FreeHand, Hands, Slots
<1> QED BY <1>1, EquipStep DEF Hold

(* Creature::wear of something living.                                     *)
LEMMA WearStep ==
    ASSUME PlacesTyped, Good, NEW o \in Objects, Live(o), NEW c \in Creatures, Live(c),
           CanWear(c, o), Wear(c, o), up' = up
    PROVE  PlacesTyped' /\ Good'
<1>1. SlotOf(o) \in Slots /\ equipment[c][SlotOf(o)] = Null
  BY DEF CanWear, Slots
<1> QED BY <1>1, EquipStep DEF Wear

(* Room::addObject of something living.                                    *)
LEMMA RoomStep ==
    ASSUME PlacesTyped, Good, NEW o \in Objects, Live(o), NEW q \in Rooms,
           AddToRoom(q, o), up' = up
    PROVE  PlacesTyped' /\ Good'
<1>1. q \in Owners /\ q \notin Objects /\ q \notin Creatures
  BY WorldAssumption DEF Owners
<1>2. /\ state' = state /\ owner' = [owner EXCEPT ![o] = q]
      /\ state' \in [Objects \cup Creatures -> {"FREE", "ACTIVE", "DEAD"}]
      /\ owner' \in [Objects -> Owners \cup {Null}]
  BY <1>1, OwnerSet DEF AddToRoom
<1>3. objects' \in [Rooms -> SUBSET Objects]
  BY Released DEF AddToRoom
<1>4. PlacesTyped'
  BY <1>2, <1>3, Released DEF PlacesTyped, AddToRoom
<1>5. \A y \in Objects : \A r \in Rooms :
         InRoom(y, r)' <=> IF y = o THEN (r = q \/ (InRoom(y, r) /\ owner[o] # r)) ELSE InRoom(y, r)
  BY Released DEF AddToRoom, InRoom
<1>6. /\ \A y \in Objects : \A p \in Objects :
            InObject(y, p)' <=> InObject(y, p) /\ (y = o => owner[o] # p)
      /\ \A y \in Objects : \A c \in Creatures, s \in Slots :
            InSlot(y, c, s)' <=> InSlot(y, c, s) /\ (y = o => owner[o] # c)
  BY Released DEF AddToRoom, InObject, InSlot
<1>7. /\ \A r \in Rooms : InRoom(o, r)' <=> r = q
      /\ \A p \in Objects : ~InObject(o, p)'
      /\ \A c \in Creatures, s \in Slots : ~InSlot(o, c, s)'
  BY <1>5, <1>6 DEF Good, Placed
<1>8. \A y \in Objects \ {o} :
         /\ \A r \in Rooms : InRoom(y, r)' <=> InRoom(y, r)
         /\ \A p \in Objects : InObject(y, p)' <=> InObject(y, p)
         /\ \A c \in Creatures, s \in Slots : InSlot(y, c, s)' <=> InSlot(y, c, s)
  BY <1>5, <1>6
<1>9. /\ \A p \in Objects : InObject(o, p)' <=> p = q
      /\ \A c \in Creatures : (\E s \in Slots : InSlot(o, c, s)') <=> c = q
      /\ \A c \in Creatures, s, t \in Slots : InSlot(o, c, s)' /\ InSlot(o, c, t)' => s = t
  BY <1>1, <1>7
<1>10. state' = state /\ owner' = [owner EXCEPT ![o] = q] /\ q \in Owners
  BY <1>1, <1>2
<1> QED BY <1>4, <1>7, <1>8, <1>9, <1>10, Moved

(* What is inside a living object lies, alive, in something inside it, and *)
(* no other living thing does.                                             *)
LEMMA InsideOwned ==
    ASSUME PlacesTyped, Good, NEW o \in Objects, Live(o)
    PROVE  /\ o \in Inside(o) /\ Inside(o) \subseteq Objects
           /\ \A y \in Inside(o) : Live(y) /\ (y # o => owner[y] \in Inside(o))
           /\ \A y \in Objects \ Inside(o) : Live(y) => owner[y] \notin Inside(o)
<1>1. /\ o \in Inside(o) /\ Inside(o) \subseteq Objects
      /\ \A p \in Inside(o) : children[p] \subseteq Inside(o)
      /\ \A x \in Inside(o) \ {o} : \E p \in Inside(o) : x \in children[p]
  BY InsideFacts DEF PlacesTyped
<1>2. \A y \in Inside(o) : Live(y)
  BY InsideLive
<1>3. \A y, p \in Objects : Live(y) => (y \in children[p] <=> owner[y] = p)
  BY DEF Good, Placed, InObject
<1>4. \A y \in Inside(o) : y # o => owner[y] \in Inside(o)
  BY <1>1, <1>2, <1>3
<1>5. \A y \in Objects \ Inside(o) : Live(y) => owner[y] \notin Inside(o)
  BY <1>1, <1>3
<1> QED BY <1>1, <1>2, <1>4, <1>5

(* A step that kills the living object o with what is in it, takes o from  *)
(* its owner and at most puts it into something dead: Entity::destroy, and *)
(* a put into a dead container.                                            *)
LEMMA DeathStep ==
    ASSUME PlacesTyped, PlacesTyped', Good, NEW o \in Objects, Live(o),
           state' = [x \in DOMAIN state |-> IF x \in Inside(o) THEN "DEAD" ELSE state[x]],
           \A y \in Objects : y # o => owner'[y] = owner[y],
           objects' = ReleasedRooms(o), equipment' = ReleasedEquipment(o),
           \A p, y \in Objects : InObject(y, p)' <=>
              (InObject(y, p) /\ (y = o => owner[o] # p)) \/ (y = o /\ state[p] = "DEAD" /\ InObject(o, p)')
    PROVE  Good'
<1>1. /\ o \in Inside(o) /\ Inside(o) \subseteq Objects
      /\ \A y \in Inside(o) : Live(y) /\ (y # o => owner[y] \in Inside(o))
      /\ \A y \in Objects \ Inside(o) : Live(y) => owner[y] \notin Inside(o)
  BY InsideOwned
<1>2. /\ \A e \in Objects \cup Creatures :
            state'[e] = IF e \in Inside(o) THEN "DEAD" ELSE state[e]
      /\ \A e \in Objects \cup Creatures : Live(e)' <=> Live(e) /\ e \notin Inside(o)
  BY DEF PlacesTyped, Live
<1>3. /\ \A y \in Objects : \A r \in Rooms :
            InRoom(y, r)' <=> InRoom(y, r) /\ (y = o => owner[o] # r)
      /\ \A y \in Objects : \A c \in Creatures, s \in Slots :
            InSlot(y, c, s)' <=> InSlot(y, c, s) /\ (y = o => owner[o] # c)
  BY Released DEF InRoom, InSlot
<1>4. /\ \A r \in Rooms : ~InRoom(o, r)'
      /\ \A p \in Objects : InObject(o, p)' => state[p] = "DEAD"
      /\ \A c \in Creatures, s \in Slots : ~InSlot(o, c, s)'
  BY <1>3 DEF Good, Placed
<1>5. \A e \in Objects \cup Creatures : state'[e] = state[e] \/ (Live(e) /\ state'[e] = "DEAD")
  BY <1>1, <1>2
<1>6. ASSUME NEW y \in Objects, Live(y)'
      PROVE  /\ owner'[y] = owner[y] /\ (owner[y] \in Rooms \/ Live(owner[y])')
             /\ \A r \in Rooms : InRoom(y, r)' <=> InRoom(y, r)
             /\ \A p \in Objects : InObject(y, p)' <=> InObject(y, p)
             /\ \A c \in Creatures, s \in Slots : InSlot(y, c, s)' <=> InSlot(y, c, s)
  <2>1. Live(y) /\ y \notin Inside(o) /\ y # o
    BY <1>1, <1>2, <1>6
  <2>2. owner[y] \in Rooms \/ Live(owner[y])'
    <3>1. owner[y] \in Owners /\ owner[y] \notin Inside(o) /\ (owner[y] \in Rooms \/ Live(owner[y]))
      BY <1>1, <2>1 DEF Good, Placed, OwnersLive
    <3>2. owner'[y] = owner[y]
      BY <2>1
    <3>3. owner[y] \in Rooms \/ state'[owner[y]] = "ACTIVE"
      BY <1>2, <3>1 DEF Owners, Live
    <3> QED BY <3>2, <3>3 DEF Live
  <2> QED BY <1>3, <2>1, <2>2
<1>7. ASSUME NEW y \in Objects, ~Live(y)'
      PROVE  /\ \A r \in Rooms : ~InRoom(y, r)'
             /\ \A p \in Objects : Live(p)' => ~InObject(y, p)'
             /\ \A c \in Creatures, s \in Slots : Live(c)' => ~InSlot(y, c, s)'
  <2>1. CASE y = o
    BY <1>2, <1>4, <2>1 DEF Live
  <2>2. CASE y # o /\ y \in Inside(o)
    <3>1. Live(y) /\ owner[y] \in Inside(o)
      BY <1>1, <2>2
    <3>2. /\ \A r \in Rooms : ~InRoom(y, r)
          /\ \A p \in Objects : InObject(y, p) => p \in Inside(o)
          /\ \A c \in Creatures, s \in Slots : ~InSlot(y, c, s)
      BY <1>1, <3>1, WorldAssumption DEF Good, Placed
    <3> QED BY <1>2, <1>3, <2>2, <3>2
  <2>3. CASE y \notin Inside(o)
    <3>1. ~Live(y) /\ y # o
      BY <1>1, <1>2, <1>7, <2>3
    <3> QED BY <1>2, <1>3, <3>1 DEF Good, DeadUnlisted
  <2> QED BY <2>1, <2>2, <2>3
<1>8. ASSUME NEW y \in Objects, state[y] = "FREE"
      PROVE  /\ \A p \in Objects : InObject(y, p)' => InObject(y, p)
             /\ \A c \in Creatures, s \in Slots : InSlot(y, c, s)' => InSlot(y, c, s)
  BY <1>3, <1>8 DEF Live
<1>9. ASSUME NEW p \in Objects, state[p] = "FREE" PROVE children'[p] = children[p]
  <2>1. children[p] = {}
    BY <1>9 DEF Good, FreeIsBlank
  <2>2. \A y \in Objects : ~InObject(y, p)'
    BY <1>9, <2>1 DEF InObject
  <2> QED BY <2>1, <2>2 DEF InObject, PlacesTyped
<1>10. ASSUME NEW c \in Creatures, state[c] = "FREE" PROVE equipment'[c] = equipment[c]
  BY <1>10, Released DEF Good, FreeIsBlank
<1> QED BY <1>5, <1>6, <1>7, <1>8, <1>9, <1>10, Perished

(* Entity::destroy.                                                        *)
LEMMA DestroyStep ==
    ASSUME PlacesTyped, Good, NEW o \in Objects, Live(o), Destroy(o),
           owner' = owner, up' = up
    PROVE  PlacesTyped' /\ Good'
<1>1. state' = [x \in DOMAIN state |-> IF x \in Inside(o) THEN "DEAD" ELSE state[x]]
  BY DEF Destroy
<1>2. state' \in [Objects \cup Creatures -> {"FREE", "ACTIVE", "DEAD"}]
  BY <1>1 DEF PlacesTyped
<1>3. PlacesTyped'
  BY <1>2, Released DEF PlacesTyped, Destroy
<1>4. \A p, y \in Objects : InObject(y, p)' <=> InObject(y, p) /\ (y = o => owner[o] # p)
  BY Released DEF InObject, Destroy
<1>5. \A p \in Objects : ~InObject(o, p)'
  BY <1>4 DEF Good, Placed
<1> QED BY <1>1, <1>3, <1>4, <1>5, DeathStep DEF Destroy

(* Object::addObject, unless it would bring the dead back to life.         *)
LEMMA PutStep ==
    ASSUME PlacesTyped, Good, NEW o \in Objects, NEW p \in Objects,
           state[o] # "FREE", state[p] # "FREE", ~(state[o] = "DEAD" /\ Live(p)),
           AddToObject(p, o), up' = up
    PROVE  PlacesTyped' /\ Good'
<1>1. p \in Owners /\ p \notin Rooms /\ p \notin Creatures
  BY WorldAssumption DEF Owners
<1>2. /\ state' \in [Objects \cup Creatures -> {"FREE", "ACTIVE", "DEAD"}]
      /\ owner' \in [Objects -> Owners \cup {Null}]
      /\ owner' = [owner EXCEPT ![o] = p]
      /\ ~Live(o) \/ Live(p) => state' = state
      /\ Live(o) /\ ~Live(p) =>
            state' = [x \in DOMAIN state |-> IF x \in Inside(o) THEN "DEAD" ELSE state[x]]
  <2>1. SetOwner(o, p)
    BY DEF AddToObject
  <2> QED BY <1>1, <2>1, OwnerSet
<1>3. /\ objects' = ReleasedRooms(o) /\ equipment' = ReleasedEquipment(o)
      /\ children' = [ReleasedChildren(o) EXCEPT ![p] = ReleasedChildren(o)[p] \cup {o}]
  BY DEF AddToObject
<1>4. children' \in [Objects -> SUBSET Objects]
  BY <1>3, Released
<1>5. PlacesTyped'
  BY <1>2, <1>3, <1>4, Released DEF PlacesTyped
<1>6. \A q, y \in Objects : InObject(y, q)' <=>
         (InObject(y, q) /\ (y = o => owner[o] # q)) \/ (y = o /\ q = p)
  BY <1>3, Released DEF InObject
<1>7. /\ \A y \in Objects : \A r \in Rooms :
            InRoom(y, r)' <=> InRoom(y, r) /\ (y = o => owner[o] # r)
      /\ \A y \in Objects : \A c \in Creatures, s \in Slots :
            InSlot(y, c, s)' <=> InSlot(y, c, s) /\ (y = o => owner[o] # c)
  BY <1>3, Released DEF InRoom, InSlot
<1>8. CASE Live(o) /\ Live(p)
  <2>1. /\ \A r \in Rooms : ~InRoom(o, r)'
        /\ \A q \in Objects : InObject(o, q)' <=> q = p
        /\ \A c \in Creatures, s \in Slots : ~InSlot(o, c, s)'
    BY <1>6, <1>7, <1>8 DEF Good, Placed
  <2>2. \A y \in Objects \ {o} :
           /\ \A r \in Rooms : InRoom(y, r)' <=> InRoom(y, r)
           /\ \A q \in Objects : InObject(y, q)' <=> InObject(y, q)
           /\ \A c \in Creatures, s \in Slots : InSlot(y, c, s)' <=> InSlot(y, c, s)
    BY <1>6, <1>7
  <2>3. /\ \A r \in Rooms : InRoom(o, r)' <=> r = p
        /\ \A c \in Creatures : (\E s \in Slots : InSlot(o, c, s)') <=> c = p
        /\ \A c \in Creatures, s, t \in Slots : InSlot(o, c, s)' /\ InSlot(o, c, t)' => s = t
    BY <1>1, <2>1
  <2>4. state' = state /\ owner' = [owner EXCEPT ![o] = p]
    BY <1>2, <1>8
  <2> QED BY <1>1, <1>5, <1>8, <2>1, <2>2, <2>3, <2>4, Moved
<1>9. CASE Live(o) /\ ~Live(p)
  <2>1. state[p] = "DEAD"
    BY <1>9 DEF PlacesTyped, Live
  <2>2. \A q, y \in Objects : InObject(y, q)' <=>
           (InObject(y, q) /\ (y = o => owner[o] # q)) \/ (y = o /\ state[q] = "DEAD" /\ InObject(o, q)')
    BY <1>6, <1>9, <2>1 DEF Good, Placed
  <2>3. \A y \in Objects : y # o => owner'[y] = owner[y]
    BY <1>2 DEF PlacesTyped
  <2> QED BY <1>2, <1>3, <1>5, <1>9, <2>2, <2>3, DeathStep
<1>10. CASE ~Live(o)
  <2>1. state[o] = "DEAD" /\ state[p] = "DEAD" /\ state' = state
    BY <1>2, <1>10 DEF PlacesTyped, Live
  <2>2. \A e \in Objects \cup Creatures : Live(e)' <=> Live(e)
    BY <2>1 DEF Live
  <2>3. ASSUME NEW y \in Objects, Live(y)'
        PROVE  /\ owner'[y] = owner[y] /\ (owner[y] \in Rooms \/ Live(owner[y])')
               /\ \A r \in Rooms : InRoom(y, r)' <=> InRoom(y, r)
               /\ \A q \in Objects : InObject(y, q)' <=> InObject(y, q)
               /\ \A c \in Creatures, s \in Slots : InSlot(y, c, s)' <=> InSlot(y, c, s)
    <3>1. y # o /\ Live(y) /\ owner'[y] = owner[y]
      BY <1>2, <1>10, <2>2, <2>3 DEF PlacesTyped
    <3>2. owner[y] \in Rooms \/ Live(owner[y])'
      BY <2>1, <3>1 DEF Good, OwnersLive, Live
    <3> QED BY <1>6, <1>7, <3>1, <3>2
  <2>4. ASSUME NEW y \in Objects, ~Live(y)'
        PROVE  /\ \A r \in Rooms : ~InRoom(y, r)'
               /\ \A q \in Objects : Live(q)' => ~InObject(y, q)'
               /\ \A c \in Creatures, s \in Slots : Live(c)' => ~InSlot(y, c, s)'
    BY <1>6, <1>7, <2>1, <2>2, <2>4 DEF Good, DeadUnlisted, Live
  <2>5. ASSUME NEW y \in Objects, state[y] = "FREE"
        PROVE  /\ \A q \in Objects : InObject(y, q)' => InObject(y, q)
               /\ \A c \in Creatures, s \in Slots : InSlot(y, c, s)' => InSlot(y, c, s)
    BY <1>6, <1>7, <2>1, <2>5
  <2>6. ASSUME NEW q \in Objects, state[q] = "FREE" PROVE children'[q] = children[q]
    <3>1. children[q] = {} /\ q # p
      BY <2>1, <2>6 DEF Good, FreeIsBlank
    <3>2. \A y \in Objects : ~InObject(y, q)'
      BY <1>6, <3>1 DEF InObject
    <3> QED BY <1>4, <3>1, <3>2 DEF InObject
  <2>7. ASSUME NEW c \in Creatures, state[c] = "FREE" PROVE equipment'[c] = equipment[c]
    BY <1>3, <2>7, Released DEF Good, FreeIsBlank
  <2>8. \A e \in Objects \cup Creatures : state'[e] = state[e] \/ (Live(e) /\ state'[e] = "DEAD")
    BY <2>1
  <2> QED BY <1>5, <2>3, <2>4, <2>5, <2>6, <2>7, <2>8, Perished
<1> QED BY <1>8, <1>9, <1>10

-----------------------------------------------------------------------------
(* A new object in a room.                                                 *)
LEMMA CreateStep ==
    ASSUME PlacesTyped, Good, NEW o \in Objects, NEW q \in Rooms, Create(o, q)
    PROVE  PlacesTyped' /\ Good'
<1>1. /\ q \in Owners /\ q \notin Objects /\ q \notin Creatures /\ o \notin Creatures
      /\ Null \notin Objects
  BY WorldAssumption DEF Owners
<1>2. PlacesTyped'
  BY <1>1 DEF PlacesTyped, Create
<1>3. /\ \A r \in Rooms : ~InRoom(o, r)
      /\ \A p \in Objects : ~InObject(o, p)
      /\ \A c \in Creatures, s \in Slots : ~InSlot(o, c, s)
      /\ children[o] = {}
  BY DEF Good, DeadUnlisted, FreeIsBlank, Create, Live
<1>4. /\ state' = [state EXCEPT ![o] = "ACTIVE"] /\ owner' = [owner EXCEPT ![o] = q]
      /\ children' = children /\ equipment' = equipment
      /\ \A y \in Objects : \A r \in Rooms : InRoom(y, r)' <=> InRoom(y, r) \/ (y = o /\ r = q)
      /\ \A y \in Objects : \A p \in Objects : InObject(y, p)' <=> InObject(y, p)
      /\ \A y \in Objects : \A c \in Creatures, s \in Slots : InSlot(y, c, s)' <=> InSlot(y, c, s)
  BY DEF Create, PlacesTyped, InRoom, InObject, InSlot
<1>5. \A e \in Objects \cup Creatures : state'[e] = IF e = o THEN "ACTIVE" ELSE state[e]
  BY <1>4 DEF PlacesTyped
<1>6. \A y \in Objects : owner'[y] = IF y = o THEN q ELSE owner[y]
  BY <1>4 DEF PlacesTyped
<1>7. Placed'
  BY <1>1, <1>3, <1>4, <1>5, <1>6 DEF Good, Placed, Live
<1>8. OwnersLive'
  BY <1>1, <1>5, <1>6 DEF Good, OwnersLive, Placed, Live, Owners
<1>9. DeadUnlisted'
  BY <1>1, <1>3, <1>4, <1>5 DEF Good, DeadUnlisted, Live, InObject
<1>10. FreeIsBlank'
  BY <1>1, <1>4, <1>5 DEF Good, FreeIsBlank
<1> QED BY <1>2, <1>7, <1>8, <1>9, <1>10 DEF Good

(* A creature enters the world, with or without an object of its own.      *)
LEMMA ArriveStep ==
    ASSUME PlacesTyped, Good, NEW d \in Creatures, NEW q \in Rooms,
           NEW o \in Objects \cup {Null}, Arrive(d, q, o)
    PROVE  PlacesTyped' /\ Good'
<1>1. d \in Owners /\ d \notin Objects /\ d \notin Rooms /\ Null \notin Owners
  BY WorldAssumption DEF Owners
<1> DEFINE k == IF CanWear(d, o) THEN SlotOf(o) ELSE "right_held"
<1>2. k \in Slots
  BY DEF CanWear, Slots, Hands
<1>3. /\ state[d] = "FREE" /\ equipment[d] = Nothing
      /\ objects' = objects /\ children' = children /\ up' = up
      /\ \A e \in Objects \cup Creatures :
            state'[e] = IF e = d \/ e = o THEN "ACTIVE" ELSE state[e]
      /\ state' \in [Objects \cup Creatures -> {"FREE", "ACTIVE", "DEAD"}]
  BY <1>1 DEF PlacesTyped, Good, FreeIsBlank, Arrive, Owners
<1>4. /\ \A y \in Objects : \A r \in Rooms : InRoom(y, r)' <=> InRoom(y, r)
      /\ \A y \in Objects : \A p \in Objects : InObject(y, p)' <=> InObject(y, p)
  BY <1>3 DEF InRoom, InObject
<1>5. \A y \in Objects, s \in Slots : ~InSlot(y, d, s)
  BY <1>1, <1>3 DEF InSlot, Nothing, Owners
<1>6. CASE o = Null
  <2>1. owner' = owner /\ equipment' = equipment
    BY <1>6 DEF Arrive
  <2>2. PlacesTyped'
    BY <1>3, <2>1 DEF PlacesTyped
  <2>3. /\ \A y \in Objects : Live(y)' <=> Live(y)
        /\ \A y \in Objects : state'[y] = state[y]
        /\ \A c \in Creatures : state'[c] = IF c = d THEN "ACTIVE" ELSE state[c]
        /\ \A y \in Objects : \A c \in Creatures, s \in Slots : InSlot(y, c, s)' <=> InSlot(y, c, s)
    BY <1>1, <1>3, <1>6, <2>1 DEF Live, Owners, InSlot
  <2>4. Placed'
    BY <1>4, <2>1, <2>3 DEF Good, Placed
  <2>5. OwnersLive'
    BY <1>3, <2>1, <2>3 DEF Good, OwnersLive, Placed, Live, Owners
  <2>6. DeadUnlisted'
    BY <1>4, <1>5, <2>3 DEF Good, DeadUnlisted, Live
  <2>7. FreeIsBlank'
    BY <1>3, <2>1, <2>3 DEF Good, FreeIsBlank
  <2> QED BY <2>2, <2>4, <2>5, <2>6, <2>7 DEF Good
<1>7. CASE o # Null
  <2>1. /\ o \in Objects /\ state[o] = "FREE" /\ children[o] = {} /\ o \notin Creatures
        /\ \A r \in Rooms : ~InRoom(o, r)
        /\ \A p \in Objects : ~InObject(o, p)
        /\ \A c \in Creatures, s \in Slots : ~InSlot(o, c, s)
    BY <1>7, WorldAssumption DEF Arrive, Good, DeadUnlisted, FreeIsBlank, Live
  <2>2. owner' = [owner EXCEPT ![o] = d] /\ equipment' = [equipment EXCEPT ![d][k] = o]
    BY <1>7 DEF Arrive
  <2>3. /\ \A y \in Objects : owner'[y] = IF y = o THEN d ELSE owner[y]
        /\ owner' \in [Objects -> Owners \cup {Null}]
    BY <1>1, <2>1, <2>2 DEF PlacesTyped
  <2> HIDE DEF k
  <2>4. [equipment[d] EXCEPT ![k] = o] \in [Slots -> Objects \cup {Null}]
    BY DEF PlacesTyped
  <2>5. equipment' \in [Creatures -> [Slots -> Objects \cup {Null}]]
    BY <2>2, <2>4 DEF PlacesTyped
  <2>6. PlacesTyped'
    BY <1>3, <2>3, <2>5 DEF PlacesTyped
  <2>7. \A c \in Creatures, s \in Slots :
           equipment'[c][s] = IF c = d /\ s = k THEN o ELSE equipment[c][s]
    BY <2>2 DEF PlacesTyped
  <2>8. \A y \in Objects : \A c \in Creatures, s \in Slots :
           InSlot(y, c, s)' <=> (y # o /\ InSlot(y, c, s)) \/ (y = o /\ c = d /\ s = k)
    BY <1>1, <1>5, <2>1, <2>7 DEF InSlot
  <2>9. Placed'
    <3> SUFFICES ASSUME NEW y \in Objects, Live(y)'
                 PROVE  /\ owner'[y] \in Owners
                        /\ \A r \in Rooms : InRoom(y, r)' <=> owner'[y] = r
                        /\ \A p \in Objects : InObject(y, p)' <=> owner'[y] = p
                        /\ \A c \in Creatures : (\E s \in Slots : InSlot(y, c, s)') <=> owner'[y] = c
                        /\ \A c \in Creatures, s, t \in Slots :
                              InSlot(y, c, s)' /\ InSlot(y, c, t)' => s = t
      BY DEF Placed
    <3>1. CASE y = o
      BY <1>1, <1>2, <1>4, <2>1, <2>3, <2>8, <3>1
    <3>2. CASE y # o
      <4>1. Live(y) /\ owner'[y] = owner[y]
        BY <1>1, <1>3, <2>3, <3>2 DEF Live, Owners
      <4> QED BY <1>4, <2>8, <3>2, <4>1 DEF Good, Placed
    <3> QED BY <3>1, <3>2
  <2>10. OwnersLive'
    BY <1>1, <1>3, <2>3 DEF Good, OwnersLive, Placed, Live, Owners
  <2>11. DeadUnlisted'
    <3>1. ASSUME NEW y \in Objects, ~Live(y)'
          PROVE  /\ \A r \in Rooms : ~InRoom(y, r)'
                 /\ \A p \in Objects : Live(p)' \/ state'[y] = "FREE" => ~InObject(y, p)'
                 /\ \A c \in Creatures, s \in Slots :
                       Live(c)' \/ state'[y] = "FREE" => ~InSlot(y, c, s)'
      <4>1. y # o /\ ~Live(y) /\ state'[y] = state[y]
        BY <1>1, <1>3, <3>1 DEF Live, Owners
      <4>2. \A p \in Objects : Live(p)' => p = o \/ Live(p)
        BY <1>1, <1>3 DEF Live, Owners
      <4>3. \A c \in Creatures : Live(c)' => c = d \/ Live(c)
        BY <1>3, <2>1 DEF Live
      <4>4. ~InObject(y, o)
        BY <2>1 DEF InObject
      <4>5. \A c \in Creatures, s \in Slots : InSlot(y, c, s)' => InSlot(y, c, s)
        BY <2>8, <4>1
      <4>6. \A p \in Objects : InObject(y, p)' <=> InObject(y, p)
        BY <1>4
      <4> QED BY <1>4, <1>5, <4>1, <4>2, <4>3, <4>4, <4>5, <4>6 DEF Good, DeadUnlisted
    <3> QED BY <3>1 DEF DeadUnlisted
  <2>12. FreeIsBlank'
    <3>1. \A c \in Creatures : c # d => equipment'[c] = equipment[c]
      BY <2>2 DEF PlacesTyped
    <3> QED BY <1>3, <3>1 DEF Good, FreeIsBlank
  <2> QED BY <2>6, <2>9, <2>10, <2>11, <2>12 DEF Good
<1> QED BY <1>6, <1>7

(* A creature leaves the world and takes what it has with it.              *)
LEMMA GoneStep ==
    ASSUME PlacesTyped, Good, NEW d \in Creatures, Gone(d)
    PROVE  PlacesTyped' /\ Good'
<1> DEFINE Dies(e) == e = d \/ e \in With(d)
<1>1. Live(d) /\ d \notin Objects /\ d \notin Rooms /\ Null \notin Objects
  BY WorldAssumption DEF Gone, Owners
<1>2. \A o \in Equipped(d) : o \in Objects /\ Live(o) /\ owner[o] = d
  <2>1. \A o \in Equipped(d) : o \in Objects /\ \E s \in Slots : InSlot(o, d, s)
    BY <1>1 DEF Equipped, PlacesTyped, InSlot
  <2> QED BY <1>1, <2>1 DEF Good, DeadUnlisted, Placed
<1>3. \A y \in With(d) : y \in Objects /\ Live(y) /\ Dies(owner[y])
  BY <1>2, InsideOwned DEF With
<1>4. \A y \in Objects \ With(d) : Live(y) => owner[y] # d /\ owner[y] \notin With(d)
  <2> SUFFICES ASSUME NEW y \in Objects \ With(d), Live(y)
               PROVE  owner[y] # d /\ owner[y] \notin With(d)
    OBVIOUS
  <2>1. owner[y] # d
    <3>1. SUFFICES ASSUME owner[y] = d PROVE y \in With(d)
      OBVIOUS
    <3>2. y \in Equipped(d)
      BY <1>1, <3>1 DEF Good, Placed, InSlot, Equipped
    <3> QED BY <1>2, <3>2, InsideOwned DEF With
  <2>2. owner[y] \notin With(d)
    BY <1>2, InsideOwned DEF With
  <2> QED BY <2>1, <2>2
<1>5. /\ \A e \in Objects \cup Creatures : state'[e] = IF Dies(e) THEN "DEAD" ELSE state[e]
      /\ state' \in [Objects \cup Creatures -> {"FREE", "ACTIVE", "DEAD"}]
      /\ owner' = owner /\ objects' = objects /\ children' = children
      /\ equipment' = equipment /\ up' = up
  BY DEF Gone, PlacesTyped, places
<1>6. PlacesTyped'
  BY <1>5 DEF PlacesTyped
<1>7. /\ \A y \in Objects : \A r \in Rooms : InRoom(y, r)' <=> InRoom(y, r)
      /\ \A y \in Objects : \A p \in Objects : InObject(y, p)' <=> InObject(y, p)
      /\ \A y \in Objects : \A c \in Creatures, s \in Slots : InSlot(y, c, s)' <=> InSlot(y, c, s)
  BY <1>5 DEF InRoom, InObject, InSlot
<1>8. \A e \in Objects \cup Creatures : state'[e] = state[e] \/ (Live(e) /\ state'[e] = "DEAD")
  BY <1>1, <1>3, <1>5
<1>9. \A e \in Objects \cup Creatures : Live(e)' <=> Live(e) /\ ~Dies(e)
  BY <1>5 DEF Live
<1>10. ASSUME NEW y \in Objects, Live(y)'
       PROVE  /\ owner'[y] = owner[y] /\ (owner[y] \in Rooms \/ Live(owner[y])')
              /\ \A r \in Rooms : InRoom(y, r)' <=> InRoom(y, r)
              /\ \A p \in Objects : InObject(y, p)' <=> InObject(y, p)
              /\ \A c \in Creatures, s \in Slots : InSlot(y, c, s)' <=> InSlot(y, c, s)
  <2>1. Live(y) /\ ~Dies(y)
    BY <1>9, <1>10
  <2>2. owner[y] \in Rooms \/ (Live(owner[y]) /\ ~Dies(owner[y]) /\ owner[y] \in Objects \cup Creatures)
    BY <1>4, <2>1 DEF Good, Placed, OwnersLive, Owners
  <2>3. owner[y] \in Rooms \/ state'[owner[y]] = "ACTIVE"
    BY <1>5, <2>2 DEF Live
  <2> QED BY <1>5, <1>7, <2>3 DEF Live
<1>11. ASSUME NEW y \in Objects, ~Live(y)'
       PROVE  /\ \A r \in Rooms : ~InRoom(y, r)'
              /\ \A p \in Objects : Live(p)' => ~InObject(y, p)'
              /\ \A c \in Creatures, s \in Slots : Live(c)' => ~InSlot(y, c, s)'
  <2>1. CASE Live(y)
    <3>1. y \in With(d)
      BY <1>1, <1>9, <1>11, <2>1
    <3>2. Dies(owner[y]) /\ owner[y] \notin Rooms
      BY <1>1, <1>3, <3>1, WorldAssumption
    <3> HIDE DEF Dies
    <3> QED BY <1>7, <1>9, <2>1, <3>2 DEF Good, Placed
  <2>2. CASE ~Live(y)
    BY <1>7, <1>9, <2>2 DEF Good, DeadUnlisted
  <2> QED BY <2>1, <2>2
<1> HIDE DEF Dies
<1> QED BY <1>5, <1>6, <1>7, <1>8, <1>10, <1>11, Perished

(* _MEntity::collect.                                                      *)
LEMMA CollectStep ==
    ASSUME PlacesTyped, Good, Collect
    PROVE  PlacesTyped' /\ Good'
<1>1. \A c \in Creatures : c \notin Objects /\ c \notin Rooms
  BY WorldAssumption
<1>2. /\ \A e \in Objects \cup Creatures : state'[e] = IF Live(e) THEN state[e] ELSE "FREE"
      /\ state' \in [Objects \cup Creatures -> {"FREE", "ACTIVE", "DEAD"}]
      /\ objects' = objects /\ up' = up
  BY DEF PlacesTyped, Collect
<1>3. /\ \A o \in Objects : owner'[o] = IF Live(o) THEN owner[o] ELSE Null
      /\ owner' \in [Objects -> Owners \cup {Null}]
      /\ \A p \in Objects : children'[p] = IF Live(p) THEN children[p] ELSE {}
      /\ children' \in [Objects -> SUBSET Objects]
  BY DEF PlacesTyped, Collect
<1>4. /\ \A c \in Creatures : equipment'[c] = IF Live(c) THEN equipment[c] ELSE Nothing
      /\ equipment' \in [Creatures -> [Slots -> Objects \cup {Null}]]
  BY DEF PlacesTyped, Collect, Nothing
<1>5. PlacesTyped'
  BY <1>2, <1>3, <1>4 DEF PlacesTyped
<1>6. \A e \in Objects \cup Creatures : (Live(e)' <=> Live(e)) /\ (~Live(e) <=> state'[e] = "FREE")
  BY <1>2 DEF Live
<1>7. /\ \A y \in Objects : \A r \in Rooms : InRoom(y, r)' <=> InRoom(y, r)
      /\ \A y \in Objects : \A p \in Objects : InObject(y, p)' <=> Live(p) /\ InObject(y, p)
      /\ \A y \in Objects : \A c \in Creatures, s \in Slots :
            InSlot(y, c, s)' <=> Live(c) /\ InSlot(y, c, s)
  BY <1>2, <1>3, <1>4, WorldAssumption DEF InRoom, InObject, InSlot, Nothing, Owners
<1>8. Placed'
  <2> SUFFICES ASSUME NEW y \in Objects, Live(y)'
               PROVE  /\ owner'[y] \in Owners
                      /\ \A r \in Rooms : InRoom(y, r)' <=> owner'[y] = r
                      /\ \A p \in Objects : InObject(y, p)' <=> owner'[y] = p
                      /\ \A c \in Creatures : (\E s \in Slots : InSlot(y, c, s)') <=> owner'[y] = c
                      /\ \A c \in Creatures, s, t \in Slots :
                            InSlot(y, c, s)' /\ InSlot(y, c, t)' => s = t
    BY DEF Placed
  <2>1. Live(y) /\ owner'[y] = owner[y] /\ (owner[y] \in Rooms \/ Live(owner[y]))
    BY <1>3, <1>6 DEF Good, OwnersLive
  <2>2. /\ \A p \in Objects : owner[y] = p => Live(p)
        /\ \A c \in Creatures : owner[y] = c => Live(c)
    BY <1>1, <2>1, WorldAssumption
  <2> QED BY <1>7, <2>1, <2>2 DEF Good, Placed
<1>9. OwnersLive'
  <2> SUFFICES ASSUME NEW y \in Objects, Live(y)' PROVE owner'[y] \in Rooms \/ Live(owner[y])'
    BY <1>3, <1>6 DEF OwnersLive, Live
  <2>1. Live(y) /\ owner'[y] = owner[y] /\ owner[y] \in Owners
    BY <1>3, <1>6 DEF Good, Placed
  <2> QED BY <1>2, <2>1 DEF Good, OwnersLive, Live, Owners
<1>10. DeadUnlisted'
  BY <1>6, <1>7 DEF Good, DeadUnlisted
<1>11. FreeIsBlank'
  BY <1>3, <1>4, <1>6 DEF FreeIsBlank
<1> QED BY <1>5, <1>8, <1>9, <1>10, <1>11 DEF Good

(* Creature::swapHands.                                                    *)
LEMMA SwapStep ==
    ASSUME PlacesTyped, Good, NEW d \in Creatures, Swap(d)
    PROVE  PlacesTyped' /\ Good'
<1> DEFINE swap(s) == CASE s = "right_held" -> "left_held" [] s = "left_held" -> "right_held"
                        [] OTHER -> s
<1>1. /\ \A s \in Slots : swap(s) \in Slots /\ swap(swap(s)) = s
      /\ "right_held" \in Slots /\ "left_held" \in Slots
  BY DEF Slots, Hands, Worn
<1>2. /\ state' = state /\ owner' = owner /\ objects' = objects /\ children' = children
      /\ up' = up
  BY DEF Swap
<1>3. /\ \A c \in Creatures, s \in Slots :
            equipment'[c][s] = IF c = d THEN equipment[c][swap(s)] ELSE equipment[c][s]
      /\ equipment' \in [Creatures -> [Slots -> Objects \cup {Null}]]
      /\ \A c \in Creatures : c # d => equipment'[c] = equipment[c]
  <2>1. /\ DOMAIN equipment = Creatures
        /\ equipment[d] \in [Slots -> Objects \cup {Null}]
    BY DEF PlacesTyped
  <2>2. equipment' = [equipment EXCEPT
           ![d] = [[equipment[d] EXCEPT !["right_held"] = equipment[d]["left_held"]]
                      EXCEPT !["left_held"] = equipment[d]["right_held"]]]
    BY <1>1, <2>1 DEF Swap, PlacesTyped
  <2>3. equipment'[d] \in [Slots -> Objects \cup {Null}]
    BY <1>1, <2>1, <2>2
  <2>4. \A s \in Slots : equipment'[d][s] = equipment[d][swap(s)]
    BY <1>1, <2>1, <2>2
  <2>5. /\ \A c \in Creatures : c # d => equipment'[c] = equipment[c]
        /\ DOMAIN equipment' = Creatures
        /\ equipment' = [c \in Creatures |-> equipment'[c]]
    BY <2>1, <2>2
  <2> QED BY <2>3, <2>4, <2>5 DEF PlacesTyped
<1>4. PlacesTyped'
  BY <1>2, <1>3 DEF PlacesTyped
<1>5. /\ \A y \in Objects : \A r \in Rooms : InRoom(y, r)' <=> InRoom(y, r)
      /\ \A y \in Objects : \A p \in Objects : InObject(y, p)' <=> InObject(y, p)
      /\ \A y \in Objects : \A c \in Creatures, s \in Slots :
            InSlot(y, c, s)' <=> IF c = d THEN InSlot(y, c, swap(s)) ELSE InSlot(y, c, s)
      /\ \A e : Live(e)' <=> Live(e)
  BY <1>2, <1>3 DEF InRoom, InObject, InSlot, Live
<1> HIDE DEF swap
<1>6. Placed'
  <2> SUFFICES ASSUME NEW y \in Objects, Live(y)
               PROVE  /\ owner[y] \in Owners
                      /\ \A r \in Rooms : InRoom(y, r)' <=> owner[y] = r
                      /\ \A p \in Objects : InObject(y, p)' <=> owner[y] = p
                      /\ \A c \in Creatures : (\E s \in Slots : InSlot(y, c, s)') <=> owner[y] = c
                      /\ \A c \in Creatures, s, t \in Slots :
                            InSlot(y, c, s)' /\ InSlot(y, c, t)' => s = t
    BY <1>2, <1>5 DEF Placed
  <2>1. \A c \in Creatures : (\E s \in Slots : InSlot(y, c, s)') <=> (\E s \in Slots : InSlot(y, c, s))
    BY <1>1, <1>5
  <2>2. \A c \in Creatures, s, t \in Slots : InSlot(y, c, s)' /\ InSlot(y, c, t)' => s = t
    BY <1>1, <1>5 DEF Good, Placed
  <2> QED BY <1>5, <2>1, <2>2 DEF Good, Placed
<1>7. OwnersLive'
  BY <1>2, <1>5 DEF Good, OwnersLive, Live
<1>8. DeadUnlisted'
  BY <1>1, <1>2, <1>5 DEF Good, DeadUnlisted
<1>9. FreeIsBlank'
  BY <1>2, <1>3 DEF Good, FreeIsBlank, Swap, Live
<1> QED BY <1>2, <1>4, <1>6, <1>7, <1>8, <1>9 DEF Good

(* A command can only make actions whose objects are objects.              *)
LEMMA DoableFits ==
    ASSUME PlacesTyped, NEW c \in Creatures, location[c] \in Rooms, NEW act \in Doable(c)
    PROVE  Fits(act)
<1>1. Equipped(c) \subseteq Objects /\ Near(c) \subseteq Objects /\ objects[location[c]] \subseteq Objects
  BY DEF PlacesTyped, Equipped, Near
<1>2. \A p \in Objects : children[p] \subseteq Objects
  BY DEF PlacesTyped
<1> QED BY <1>1, <1>2 DEF Doable, Fits, Waiting

(* An action starts, at once or at last.                                   *)
LEMMA StartStep ==
    ASSUME PlacesTyped, Good, up, NEW c \in Creatures, Live(c), location[c] \in Rooms,
           NEW act, Fits(act), Start(c, act)
    PROVE  PlacesTyped' /\ (up' => Good') /\ \A d \in Creatures : state'[d] = state[d]
<1>1. act.obj \in Objects /\ Null \notin Objects
  BY WorldAssumption DEF Fits, Waiting, Owners
<1>2. CASE Fails(c, act)
  BY <1>2 DEF Start, Fails, PlacesTyped, places
<1>3. CASE ~Fails(c, act)
  <2>1. state[act.obj] # "FREE" /\ up' = up
    BY <1>1, <1>3 DEF Start, Fails, Dangling
  <2>2. CanGet(c, act) => Live(act.obj)
    BY <1>1, <1>3, <2>1 DEF Fails, Revives, PlacesTyped, Live
  <2>3. \A s \in Slots : equipment[c][s] = act.obj => Live(act.obj)
    BY <1>1 DEF Good, DeadUnlisted, InSlot
  <2>4. CASE StartGet(c, act)
    <3>1. Live(act.obj) /\ ~HandsFull(c) /\ Hold(c, act.obj)
      BY <2>2, <2>4 DEF StartGet, CanGet
    <3>2. PlacesTyped' /\ Good'
      BY <1>1, <2>1, <3>1, HoldStep
    <3>3. state' = state
      BY <1>1, <3>1, OwnerSet DEF Hold, Owners
    <3> QED BY <3>2, <3>3
  <2>5. CASE StartPut(act)
    <3>1. act.to \in Objects /\ AddToObject(act.to, act.obj)
      BY <2>5 DEF StartPut, CanPut, Fits
    <3>2. state[act.to] # "FREE" /\ ~(state[act.obj] = "DEAD" /\ Live(act.to))
      BY <1>1, <1>3, <2>5, <3>1 DEF Fails, Dangling, Revives, StartPut
    <3>3. PlacesTyped' /\ Good'
      BY <1>1, <2>1, <3>1, <3>2, PutStep
    <3>4. \A d \in Creatures : d \notin Inside(act.obj)
      BY <1>1, WorldAssumption DEF Inside
    <3>5. SetOwner(act.obj, act.to) /\ act.to \in Owners
      BY <3>1 DEF AddToObject, Owners
    <3>6. \A d \in Creatures : state'[d] = state[d]
      BY <3>4, <3>5 DEF SetOwner, PlacesTyped
    <3> QED BY <3>3, <3>6
  <2>6. CASE StartWear(c, act)
    <3>1. CanWear(c, act.obj) /\ Wear(c, act.obj) /\ Live(act.obj)
      BY <2>3, <2>6 DEF StartWear, CanDon, Held, Slots
    <3>2. PlacesTyped' /\ Good'
      BY <1>1, <2>1, <3>1, WearStep
    <3>3. state' = state
      BY <1>1, <3>1, OwnerSet DEF Wear, Owners
    <3> QED BY <3>2, <3>3
  <2>7. CASE StartRemove(c, act)
    <3>1. ~HandsFull(c) /\ Hold(c, act.obj) /\ Live(act.obj)
      BY <2>3, <2>7 DEF StartRemove, CanRemove, IsWorn, Slots
    <3>2. PlacesTyped' /\ Good'
      BY <1>1, <2>1, <3>1, HoldStep
    <3>3. state' = state
      BY <1>1, <3>1, OwnerSet DEF Hold, Owners
    <3> QED BY <3>2, <3>3
  <2>8. CASE StartDrop(c, act)
    <3>1. AddToRoom(location[c], act.obj) /\ Live(act.obj)
      BY <2>3, <2>8 DEF StartDrop, CanDrop, Held, Slots
    <3>2. PlacesTyped' /\ Good'
      BY <1>1, <2>1, <3>1, RoomStep
    <3>3. state' = state
      BY <1>1, <3>1, OwnerSet DEF AddToRoom, Owners
    <3> QED BY <3>2, <3>3
  <2> QED BY <1>3, <2>4, <2>5, <2>6, <2>7, <2>8 DEF Start
<1> QED BY <1>2, <1>3

-----------------------------------------------------------------------------
(* The world starts empty.                                                 *)
LEMMA InitIInv == Init => IInv
<1> SUFFICES ASSUME Init PROVE IInv
  OBVIOUS
<1>1. PlacesTyped
  BY DEF Init, PlacesTyped, Nothing
<1>2. CreaturesTyped
  BY WorldAssumption DEF Init, CreaturesTyped, Live, Owners, Creatures
<1>3. Good
  BY WorldAssumption
  DEF Init, Good, Placed, OwnersLive, DeadUnlisted, FreeIsBlank, Live, InRoom, InObject, InSlot,
      Nothing, Owners
<1> QED BY <1>1, <1>2, <1>3 DEF IInv

(* No step lets a living creature lose its place or queue nonsense.        *)
LEMMA CreaturesStep ==
    ASSUME PlacesTyped, CreaturesTyped,
           \A c \in Creatures : Live(c)' => Live(c) \/ location'[c] \in Rooms,
           \A c \in Creatures : location'[c] = location[c] \/ ~Live(c)' \/ location'[c] \in Rooms,
           location' \in [Creatures -> Rooms \cup {Null}],
           queue' \in [Creatures -> Waiting \cup {Null}],
           \A c \in Creatures : queue'[c] = queue[c] \/ queue'[c] = Null \/ Fits(queue'[c])
    PROVE  CreaturesTyped'
<1>1. \A c \in Creatures : queue'[c] # Null => Fits(queue'[c])
  BY DEF CreaturesTyped
<1>2. \A c \in Creatures : Live(c)' => location'[c] \in Rooms
  BY DEF CreaturesTyped
<1> QED BY <1>1, <1>2 DEF CreaturesTyped

(* IInv is inductive.                                                      *)
LEMMA StepIInv == IInv /\ [Next]_vars => IInv'
<1> SUFFICES ASSUME IInv, [Next]_vars PROVE IInv'
  OBVIOUS
<1>1. PlacesTyped /\ CreaturesTyped /\ (up => Good)
  BY DEF IInv
<1>2. /\ \A c \in Creatures : c \notin Objects /\ c \notin Rooms
      /\ Null \notin Objects /\ Null \notin Rooms
  BY WorldAssumption DEF Owners
<1>3. ASSUME location' = location, queue' = queue,
             \A c \in Creatures : state'[c] = "ACTIVE" => state[c] = "ACTIVE"
      PROVE  CreaturesTyped'
  BY <1>1, <1>3, CreaturesStep DEF CreaturesTyped, Live
<1>4. ASSUME UNCHANGED vars PROVE IInv'
  <2>1. PlacesTyped'
    BY <1>1, <1>4 DEF vars, places, PlacesTyped
  <2>2. up' => Good'
    BY <1>1, <1>4
    DEF vars, places, Good, Placed, OwnersLive, DeadUnlisted, FreeIsBlank, InRoom, InObject,
        InSlot, Live
  <2> QED BY <1>3, <1>4, <2>1, <2>2 DEF vars, IInv
<1>5. ASSUME NEW o \in Objects, NEW r \in Rooms, Create(o, r) PROVE IInv'
  <2>1. PlacesTyped' /\ Good'
    BY <1>1, <1>5, CreateStep DEF Create
  <2>2. \A c \in Creatures : state'[c] = state[c]
    BY <1>1, <1>2, <1>5 DEF Create, PlacesTyped
  <2> QED BY <1>3, <1>5, <2>1, <2>2 DEF Create, IInv
<1>6. ASSUME NEW c \in Creatures, NEW r \in Rooms, NEW o \in Objects \cup {Null}, Arrive(c, r, o)
      PROVE  IInv'
  <2>1. PlacesTyped' /\ Good'
    BY <1>1, <1>6, ArriveStep DEF Arrive
  <2>2. \A d \in Creatures : d # c => state'[d] = state[d]
    BY <1>1, <1>2, <1>6 DEF Arrive, PlacesTyped
  <2>3. /\ location' = [location EXCEPT ![c] = r] /\ queue' = queue
        /\ location' \in [Creatures -> Rooms \cup {Null}]
        /\ \A d \in Creatures : location'[d] = IF d = c THEN r ELSE location[d]
    BY <1>1, <1>6 DEF Arrive, CreaturesTyped
  <2>4. CreaturesTyped'
    BY <1>1, <2>2, <2>3, CreaturesStep DEF Live, CreaturesTyped
  <2> QED BY <2>1, <2>4 DEF IInv
<1>7. ASSUME NEW o \in Objects, OlcDestroy(o) PROVE IInv'
  <2>1. PlacesTyped' /\ Good'
    BY <1>1, <1>7, DestroyStep DEF OlcDestroy
  <2>2. \A c \in Creatures : state'[c] = "ACTIVE" => state[c] = "ACTIVE"
    BY <1>1, <1>7 DEF OlcDestroy, Destroy, PlacesTyped
  <2> QED BY <1>3, <1>7, <2>1, <2>2 DEF OlcDestroy, IInv
<1>8. ASSUME NEW o \in Objects, Heartbeat(o) PROVE IInv'
  <2>1. CASE Destroy(o)
    <3>1. PlacesTyped' /\ Good'
      BY <1>1, <1>8, <2>1, DestroyStep DEF Heartbeat
    <3>2. \A c \in Creatures : state'[c] = "ACTIVE" => state[c] = "ACTIVE"
      BY <1>1, <2>1 DEF Destroy, PlacesTyped
    <3> QED BY <1>3, <1>8, <3>1, <3>2 DEF Heartbeat, IInv
  <2>2. CASE UNCHANGED <<state, objects, children, equipment>>
    <3>1. PlacesTyped'
      BY <1>1, <1>8, <2>2 DEF Heartbeat, PlacesTyped
    <3>2. Good'
      BY <1>1, <1>8, <2>2
      DEF Heartbeat, Good, Placed, OwnersLive, DeadUnlisted, FreeIsBlank, InRoom, InObject,
          InSlot, Live
    <3> QED BY <1>3, <1>8, <2>2, <3>1, <3>2 DEF Heartbeat, IInv
  <2> QED BY <1>8, <2>1, <2>2 DEF Heartbeat
<1>9. ASSUME NEW c \in Creatures, Gone(c) PROVE IInv'
  <2>1. PlacesTyped' /\ Good'
    BY <1>1, <1>9, GoneStep DEF Gone
  <2>2. \A d \in Creatures : state'[d] = "ACTIVE" => d # c /\ state[d] = "ACTIVE"
    BY <1>1, <1>9 DEF Gone, PlacesTyped
  <2>3. /\ queue' = queue
        /\ location' \in [Creatures -> Rooms \cup {Null}]
        /\ \A d \in Creatures : d # c => location'[d] = location[d]
    BY <1>1, <1>9 DEF Gone, CreaturesTyped
  <2>4. CreaturesTyped'
    BY <1>1, <2>2, <2>3, CreaturesStep DEF Live, CreaturesTyped
  <2> QED BY <2>1, <2>4 DEF IInv
<1>10. ASSUME NEW c \in Creatures, NEW r \in Rooms, Enter(c, r) PROVE IInv'
  <2>1. PlacesTyped'
    BY <1>1, <1>10 DEF Enter, places, PlacesTyped
  <2>2. Good'
    BY <1>1, <1>10
    DEF Enter, places, Good, Placed, OwnersLive, DeadUnlisted, FreeIsBlank, InRoom, InObject,
        InSlot, Live
  <2>3. /\ queue' = queue /\ state' = state
        /\ location' \in [Creatures -> Rooms \cup {Null}]
        /\ \A d \in Creatures : location'[d] = location[d] \/ location'[d] \in Rooms
    BY <1>1, <1>10 DEF Enter, CreaturesTyped
  <2>4. CreaturesTyped'
    BY <1>1, <2>3, CreaturesStep DEF Live, CreaturesTyped
  <2> QED BY <2>1, <2>2, <2>4 DEF IInv
<1>11. ASSUME Collect PROVE IInv'
  <2>1. PlacesTyped' /\ Good'
    BY <1>1, <1>11, CollectStep DEF Collect
  <2>2. \A c \in Creatures : state'[c] = "ACTIVE" => state[c] = "ACTIVE"
    BY <1>1, <1>11 DEF Collect, PlacesTyped, Live
  <2>3. /\ location' = location
        /\ queue' \in [Creatures -> Waiting \cup {Null}]
        /\ \A c \in Creatures : queue'[c] = queue[c] \/ queue'[c] = Null
    BY <1>1, <1>11 DEF Collect, CreaturesTyped
  <2>4. CreaturesTyped'
    BY <1>1, <2>2, <2>3, CreaturesStep DEF Live, CreaturesTyped
  <2> QED BY <2>1, <2>4 DEF IInv
<1>12. ASSUME NEW p \in Players, CommandNow(p) PROVE IInv'
  <2>1. up /\ Live(p) /\ p \in Creatures /\ location[p] \in Rooms
    BY <1>1, <1>12 DEF CommandNow, CreaturesTyped, Creatures
  <2>2. PICK act \in Doable(p) : Start(p, act)
    BY <1>12 DEF CommandNow
  <2>3. Fits(act)
    BY <1>1, <2>1, DoableFits
  <2>4. PlacesTyped' /\ (up' => Good') /\ \A d \in Creatures : state'[d] = state[d]
    BY <1>1, <2>1, <2>2, <2>3, StartStep
  <2> QED BY <1>3, <1>12, <2>4 DEF CommandNow, IInv
<1>13. ASSUME NEW p \in Players, CommandLater(p) PROVE IInv'
  <2>1. up /\ Live(p) /\ p \in Creatures /\ location[p] \in Rooms
    BY <1>1, <1>13 DEF CommandLater, CreaturesTyped, Creatures
  <2>2. PICK act \in Doable(p) : queue' = [queue EXCEPT ![p] = act]
    BY <1>13 DEF CommandLater
  <2>3. Fits(act)
    BY <1>1, <2>1, DoableFits
  <2>4. /\ state' = state /\ location' = location
        /\ queue' \in [Creatures -> Waiting \cup {Null}]
        /\ \A c \in Creatures : queue'[c] = queue[c] \/ queue'[c] = act
    BY <1>1, <1>13, <2>1, <2>2, <2>3 DEF CommandLater, CreaturesTyped, Fits
  <2>5. CreaturesTyped'
    BY <1>1, <2>3, <2>4, CreaturesStep DEF Live, CreaturesTyped
  <2>6. PlacesTyped' /\ Good'
    BY <1>1, <1>13
    DEF CommandLater, places, PlacesTyped, Good, Placed, OwnersLive, DeadUnlisted, FreeIsBlank,
        InRoom, InObject, InSlot, Live
  <2> QED BY <2>5, <2>6 DEF IInv
<1>14. ASSUME NEW p \in Players, Turn(p) PROVE IInv'
  <2>1. up /\ Live(p) /\ p \in Creatures /\ location[p] \in Rooms /\ Fits(queue[p])
    BY <1>1, <1>14 DEF Turn, CreaturesTyped, Creatures
  <2>2. /\ location' = location
        /\ queue' \in [Creatures -> Waiting \cup {Null}]
        /\ \A c \in Creatures : queue'[c] = queue[c] \/ queue'[c] = Null
    BY <1>1, <1>14, <2>1 DEF Turn, CreaturesTyped
  <2>3. ASSUME \A d \in Creatures : state'[d] = state[d] PROVE CreaturesTyped'
    BY <1>1, <2>2, <2>3, CreaturesStep DEF Live, CreaturesTyped
  <2>4. CASE Start(p, queue[p])
    <3>1. PlacesTyped' /\ (up' => Good') /\ \A d \in Creatures : state'[d] = state[d]
      BY <1>1, <2>1, <2>4, StartStep
    <3> QED BY <2>3, <3>1 DEF IInv
  <2>5. CASE UNCHANGED <<state, places, calc_weight, up>>
    <3>1. PlacesTyped' /\ Good'
      BY <1>1, <2>1, <2>5
      DEF places, PlacesTyped, Good, Placed, OwnersLive, DeadUnlisted, FreeIsBlank,
          InRoom, InObject, InSlot, Live
    <3> QED BY <2>3, <2>5, <3>1 DEF IInv
  <2> QED BY <1>14, <2>4, <2>5 DEF Turn
<1>15. ASSUME NEW p \in Players, Swap(p) PROVE IInv'
  <2>1. PlacesTyped' /\ Good'
    BY <1>1, <1>15, SwapStep DEF Swap, Creatures
  <2> QED BY <1>3, <1>15, <2>1 DEF Swap, IInv
<1> QED
  BY <1>4, <1>5, <1>6, <1>7, <1>8, <1>9, <1>10, <1>11, <1>12, <1>13, <1>14, <1>15 DEF Next

-----------------------------------------------------------------------------
(* However commands, deaths and collections interleave, the inductive      *)
(* invariant holds (Object::setOwner, Creature::hold, Creature::wear,      *)
(* Object::addObject, Entity::destroy, _MEntity::collect).                 *)
THEOREM Invariance == Spec => []IInv
<1> QED BY InitIInv, StepIInv, PTL DEF Spec

(* Every living object is in exactly one place of the world, its owner's,  *)
(* and nothing alive lists a dead or freed object (object.cc:117-145,      *)
(* body.cc:111-150, 359-396, room.cc:259-283), for any number of objects,  *)
(* creatures and rooms and whatever the kinds of the objects.              *)
THEOREM WhereaboutsCorrect == Spec => []Whereabouts
<1>1. IInv => Whereabouts
  BY GoodIsWhereabouts DEF IInv, Whereabouts, OnePlace, ListsLive
<1> QED BY Invariance, <1>1, PTL
=============================================================================
