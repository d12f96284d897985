------------------------------- MODULE World --------------------------------
(***************************************************************************)
(* Who has what: rooms, creatures and objects (src/mud/object.cc, body.cc, *)
(* room.cc, creature.cc) and the player's actions on objects               *)
(* (char_do.cc, src/cmd/inventory.cc, src/cmd/olc.cc); Actions has coins.  *)
(*                                                                         *)
(* An object has one `owner' pointer; its owner lists it: a room among its *)
(* objects, a creature in one of five equipment slots, a container among   *)
(* its children.  Ownership also drives the life of an entity: setOwner    *)
(* activates what comes into the active world, and what is neither active  *)
(* nor dead is freed by the next collection all the same (entity.cc).      *)
(*                                                                         *)
(* An action that takes rounds waits in its creature's queue with a raw    *)
(* pointer to its object.  What the queue itself does is in Actions; here  *)
(* an action just starts at once or at some later moment.  An assertion    *)
(* that fails, and the use of freed memory, end the run (`up').            *)
(***************************************************************************)
EXTENDS Integers, FiniteSets, FiniteSetsExt

CONSTANTS Objects,      \* addresses of Object
          Players, Npcs,
          Rooms,        \* the rooms of the zones, all of them active
          Null,
          Containers,   \* objects whose blueprint has a location IN or ON
          Trash,        \* objects with the TRASH flag
          Rotting,      \* objects with the ROT flag
          Fixed,        \* objects without the GET and DROP flags
          Torso, Back, Waist,   \* objects by getEquip()
          RotTicks, TrashTicks  \* OBJECT_ROT_TICKS, OBJECT_TRASH_TICKS

Creatures == Players \cup Npcs
Owners    == Rooms \cup Creatures \cup Objects
Hands     == {"right_held", "left_held"}
Worn      == {"body_worn", "back_worn", "waist_worn"}
Slots     == Hands \cup Worn

ASSUME WorldAssumption ==
    /\ Null \notin Owners
    /\ Objects \cap Creatures = {} /\ Objects \cap Rooms = {} /\ Creatures \cap Rooms = {}
    /\ RotTicks \in Nat /\ TrashTicks \in Nat /\ RotTicks < TrashTicks

VARIABLES
    state,      \* Entity::state of objects and creatures, "FREE" if unallocated
    owner,      \* Object::owner
    objects,    \* Room::objects
    children,   \* Object::children
    equipment,  \* Creature::equipment
    location,   \* Creature::location
    calc_weight,\* Object::calc_weight, every blueprint's weight being one
    trash_timer,\* Object::trash_timer
    queue,      \* the action a creature has waiting, Null if none
    up          \* the process runs

places == <<owner, objects, children, equipment>>
vars == <<state, places, location, calc_weight, trash_timer, queue, up>>

Live(e) == state[e] = "ACTIVE"
Nothing == [s \in Slots |-> Null]
Equipped(c) == {equipment[c][s] : s \in Slots} \ {Null}

(* e and everything inside it, as activate and deactivate reach it.        *)
Closed(T) == \A p \in T : children[p] \subseteq T
Inside(o) ==
    {x \in Objects : \A T \in SUBSET Objects : o \in T /\ Closed(T) => x \in T}
With(c) == UNION {Inside(o) : o \in Equipped(c)}

-----------------------------------------------------------------------------
(* ownerRelease of whoever owns o: Room, Creature or Object.               *)
ReleasedRooms(o)     == [r \in Rooms |-> IF owner[o] = r THEN objects[r] \ {o} ELSE objects[r]]
ReleasedChildren(o)  == [p \in Objects |-> IF owner[o] = p THEN children[p] \ {o} ELSE children[p]]
ReleasedEquipment(o) ==
    [c \in Creatures |-> IF owner[o] # c THEN equipment[c]
                         ELSE [s \in Slots |-> IF equipment[c][s] = o THEN Null
                                               ELSE equipment[c][s]]]

(* Object::setOwner: whoever owned it lets go (the caller primes those     *)
(* variables from the Released operators), it enters or leaves the active  *)
(* world with its new owner, and points to it.                             *)
SetOwner(o, w) ==
    /\ owner' = [owner EXCEPT ![o] = w]
    /\ state' = [x \in DOMAIN state |->
                   IF x \notin Inside(o) THEN state[x]
                   ELSE IF Live(o) /\ w \notin Rooms /\ ~Live(w) THEN "DEAD"
                   ELSE IF state[o] = "FLOAT" THEN "ACTIVE" ELSE state[x]]

(* Faulty: hold fills the hand and leaves the old owner's pointer alone.   *)
MutHold(c, o) ==
    /\ SetOwner(o, c)
    /\ equipment' = [equipment EXCEPT ![c]["left_held"] = o]
    /\ UNCHANGED <<objects, children>>

(* Creature::hold: the right hand first.  Full hands refuse.               *)
HandsFull(c) == \A s \in Hands : equipment[c][s] # Null
FreeHand(c)  == IF equipment[c]["right_held"] = Null THEN "right_held" ELSE "left_held"

Hold(c, o) ==
    /\ SetOwner(o, c)
    /\ equipment' = [ReleasedEquipment(o) EXCEPT ![c][FreeHand(c)] = o]
    /\ objects' = ReleasedRooms(o) /\ children' = ReleasedChildren(o)

(* Creature::wear: one place for each of three kinds of clothes.           *)
SlotOf(o) == CASE o \in Torso -> "body_worn" [] o \in Back -> "back_worn"
               [] o \in Waist -> "waist_worn" [] OTHER -> "none"
CanWear(c, o) == SlotOf(o) \in Worn /\ equipment[c][SlotOf(o)] = Null

Wear(c, o) ==
    /\ SetOwner(o, c)
    /\ equipment' = [ReleasedEquipment(o) EXCEPT ![c][SlotOf(o)] = o]
    /\ objects' = ReleasedRooms(o) /\ children' = ReleasedChildren(o)

(* Room::addObject.                                                        *)
AddToRoom(r, o) ==
    /\ SetOwner(o, r)
    /\ objects' = [ReleasedRooms(o) EXCEPT ![r] = @ \cup {o}]
    /\ children' = ReleasedChildren(o) /\ equipment' = ReleasedEquipment(o)

(* Object::recalcWeight of p: what its children weigh with their own       *)
(* contents, as last calculated; p's own sum starts from zero.             *)
Recalc(w, ch, p) ==
    [w EXCEPT ![p] = FoldSet(LAMBDA x, acc : acc + 1 + (IF x = p THEN 0 ELSE w[x]), 0, ch[p])]

(* Object::addObject: the container and the object it is in add up their   *)
(* weights again.                                                          *)
AddToObject(p, o) ==
    LET ch     == [ReleasedChildren(o) EXCEPT ![p] = @ \cup {o}]
        w      == Recalc(calc_weight, ch, p)
        parent == IF p = o THEN p ELSE owner[p]
    IN  /\ SetOwner(o, p)
        /\ children' = ch
        /\ objects' = ReleasedRooms(o) /\ equipment' = ReleasedEquipment(o)
        /\ calc_weight' = IF parent \in Objects THEN Recalc(w, ch, parent) ELSE w

-----------------------------------------------------------------------------
Init ==
    /\ state = [e \in Objects \cup Creatures |-> "FREE"]
    /\ owner = [o \in Objects |-> Null]
    /\ objects = [r \in Rooms |-> {}]
    /\ children = [o \in Objects |-> {}]
    /\ equipment = [c \in Creatures |-> Nothing]
    /\ location = [c \in Creatures |-> Null]
    /\ calc_weight = [o \in Objects |-> 0]
    /\ trash_timer = [o \in Objects |-> 0]
    /\ queue = [c \in Creatures |-> Null]
    /\ up = TRUE

(* An object made from a blueprint by a builder or a spawn, put in a room. *)
Create(o, r) ==
    /\ up /\ state[o] = "FREE"
    /\ state' = [state EXCEPT ![o] = "ACTIVE"]
    /\ owner' = [owner EXCEPT ![o] = r]
    /\ objects' = [objects EXCEPT ![r] = @ \cup {o}]
    /\ UNCHANGED <<children, equipment, location, calc_weight, trash_timer, queue, up>>

(* A creature enters the world with what its file or blueprint gives it:   *)
(* at most one object, worn if it can be (Creature::equip) or in a hand.   *)
Arrive(c, r, o) ==
    /\ up /\ state[c] = "FREE"
    /\ o # Null => state[o] = "FREE"
    /\ state' = [state EXCEPT ![c] = "ACTIVE", ![IF o = Null THEN c ELSE o] = "ACTIVE"]
    /\ location' = [location EXCEPT ![c] = r]
    /\ IF o = Null THEN UNCHANGED <<owner, equipment>>
       ELSE /\ owner' = [owner EXCEPT ![o] = c]
            /\ equipment' = [equipment EXCEPT ![c][IF CanWear(c, o) THEN SlotOf(o)
                                                   ELSE "right_held"] = o]
    /\ UNCHANGED <<objects, children, calc_weight, trash_timer, queue, up>>

(* Entity::destroy of an object: its owner lets go, and it dies with all   *)
(* that is in it.  Its own owner pointer stays as it was.                  *)
Destroy(o) ==
    /\ state' = [x \in DOMAIN state |-> IF x \in Inside(o) THEN "DEAD" ELSE state[x]]
    /\ objects' = ReleasedRooms(o) /\ children' = ReleasedChildren(o)
    /\ equipment' = ReleasedEquipment(o)

(* A builder destroys an object.                                           *)
OlcDestroy(o) ==
    /\ up /\ Live(o)
    /\ Destroy(o)
    /\ UNCHANGED <<owner, location, calc_weight, trash_timer, queue, up>>

(* A player quits, an NPC is slain or destroyed: it dies with its things.  *)
Gone(c) ==
    /\ up /\ Live(c)
    /\ state' = [x \in DOMAIN state |-> IF x = c \/ x \in With(c) THEN "DEAD" ELSE state[x]]
    /\ location' = [location EXCEPT ![c] = Null]
    /\ UNCHANGED <<places, calc_weight, trash_timer, queue, up>>

(* Creature::enter (see Actions for how creatures come to move).           *)
Enter(c, r) ==
    /\ up /\ Live(c) /\ location[c] # r
    /\ location' = [location EXCEPT ![c] = r]
    /\ UNCHANGED <<state, places, calc_weight, trash_timer, queue, up>>

(* Object::heartbeat: trash that lies in a room ages; it goes when it is   *)
(* old, or when it is very old and nobody is there to see it.              *)
Rots(o)    == o \in Rotting /\ trash_timer[o] >= RotTicks
Deserted(r) == \A p \in Players : location[p] # r

Heartbeat(o) ==
    /\ up /\ Live(o)
    /\ o \in Trash /\ owner[o] \in Rooms
    /\ \/ /\ Rots(o) \/ (trash_timer[o] >= TrashTicks /\ Deserted(owner[o]))
          /\ Destroy(o)
          /\ UNCHANGED trash_timer
       \/ /\ ~Rots(o) /\ trash_timer[o] < TrashTicks
          /\ trash_timer' = [trash_timer EXCEPT ![o] = @ + 1]
          /\ UNCHANGED <<state, objects, children, equipment>>
    /\ UNCHANGED <<owner, location, calc_weight, queue, up>>

(* _MEntity::collect: whatever is not active is freed.                     *)
Collect ==
    LET freed == {e \in DOMAIN state : ~Live(e)} IN
    /\ up /\ \E e \in freed : state[e] # "FREE"
    /\ state' = [e \in DOMAIN state |-> IF e \in freed THEN "FREE" ELSE state[e]]
    /\ owner' = [o \in Objects |-> IF o \in freed THEN Null ELSE owner[o]]
    /\ children' = [o \in Objects |-> IF o \in freed THEN {} ELSE children[o]]
    /\ equipment' = [c \in Creatures |-> IF c \in freed THEN Nothing ELSE equipment[c]]
    /\ queue' = [c \in Creatures |-> IF c \in freed THEN Null ELSE queue[c]]
    /\ calc_weight' = [o \in Objects |-> IF o \in freed THEN 0 ELSE calc_weight[o]]
    /\ trash_timer' = [o \in Objects |-> IF o \in freed THEN 0 ELSE trash_timer[o]]
    /\ UNCHANGED <<objects, location, up>>

-----------------------------------------------------------------------------
(* The start of each action in char_do.cc; act.obj, act.to are the raw     *)
(* pointers it was made with.  A refusal changes nothing.                  *)
Held(c, o)   == \E s \in Hands : equipment[c][s] = o
IsWorn(c, o) == \E s \in Worn : equipment[c][s] = o

(* ActionGet looks neither at where the object is now nor at the container.*)
CanGet(c, act)   == act.do = "get" /\ act.obj \notin Fixed /\ ~HandsFull(c)
StartGet(c, act) == CanGet(c, act) /\ Hold(c, act.obj) /\ UNCHANGED calc_weight

(* ActionPut looks only at the container's kind.                           *)
CanPut(act)   == act.do = "put" /\ act.to \in Containers
StartPut(act) == CanPut(act) /\ AddToObject(act.to, act.obj)

CanDon(c, act)    == act.do = "wear" /\ Held(c, act.obj) /\ CanWear(c, act.obj)
StartWear(c, act) == CanDon(c, act) /\ Wear(c, act.obj) /\ UNCHANGED calc_weight

CanRemove(c, act)   == act.do = "remove" /\ IsWorn(c, act.obj) /\ ~HandsFull(c)
StartRemove(c, act) == CanRemove(c, act) /\ Hold(c, act.obj) /\ UNCHANGED calc_weight

CanDrop(c, act) == act.do = "drop" /\ Held(c, act.obj) /\ act.obj \notin Fixed
StartDrop(c, act) ==
    CanDrop(c, act) /\ AddToRoom(location[c], act.obj) /\ UNCHANGED calc_weight

(* Memory the action uses has been freed, or a dead object is brought back *)
(* into the active world, which Entity::activate asserts it never is.      *)
Dangling(act) == \E e \in {act.obj, act.to} \ {Null} : state[e] = "FREE"
Revives(c, act) ==
    /\ state[act.obj] = "DEAD"
    /\ CanGet(c, act) \/ (CanPut(act) /\ Live(act.to))
Fails(c, act) == Dangling(act) \/ Revives(c, act)

Start(c, act) ==
    \/ /\ Fails(c, act)
       /\ up' = FALSE /\ UNCHANGED <<state, places, calc_weight>>
    \/ /\ ~Fails(c, act)
       /\ \/ StartGet(c, act) \/ StartPut(act) \/ StartWear(c, act)
          \/ StartRemove(c, act) \/ StartDrop(c, act)
       /\ up' = up

Refused(c, act) ==
    /\ ~Fails(c, act)
    /\ ~CanGet(c, act) /\ ~CanPut(act) /\ ~CanDon(c, act)
    /\ ~CanRemove(c, act) /\ ~CanDrop(c, act)

(* What a player can name: clFindObject over its room and its equipment.   *)
Near(c) == objects[location[c]] \cup Equipped(c)

(* The do-methods a command of c may call, with the arguments it may find. *)
Doable(c) ==
    [do : {"wear", "remove", "drop"}, obj : Equipped(c), to : {Null}]
    \cup [do : {"put"}, obj : Equipped(c) , to : Near(c)]
    \cup [do : {"get"}, obj : objects[location[c]], to : {Null}]
    \cup UNION {[do : {"get"}, obj : children[p], to : {p}] : p \in Near(c)}

(* A command's action starts at once ...                                   *)
CommandNow(c) ==
    /\ up /\ Live(c) /\ queue[c] = Null
    /\ \E act \in Doable(c) : Start(c, act)
    /\ UNCHANGED <<location, trash_timer, queue>>

(* ... or waits behind an earlier one ...                                  *)
CommandLater(c) ==
    /\ up /\ Live(c) /\ queue[c] = Null
    /\ \E act \in Doable(c) : queue' = [queue EXCEPT ![c] = act]
    /\ UNCHANGED <<state, places, location, calc_weight, trash_timer, up>>

(* ... until its turn comes, when it may be refused.                       *)
Turn(c) ==
    /\ up /\ Live(c) /\ queue[c] # Null
    /\ queue' = [queue EXCEPT ![c] = Null]
    /\ \/ Start(c, queue[c])
       \/ Refused(c, queue[c]) /\ UNCHANGED <<state, places, calc_weight, up>>
    /\ UNCHANGED <<location, trash_timer>>

(* Creature::swapHands.                                                    *)
Swap(c) ==
    /\ up /\ Live(c)
    /\ equipment' = [equipment EXCEPT ![c]["right_held"] = equipment[c]["left_held"],
                                      ![c]["left_held"] = equipment[c]["right_held"]]
    /\ UNCHANGED <<state, owner, objects, children, location, calc_weight, trash_timer,
                   queue, up>>

Next ==
    \/ \E o \in Objects, r \in Rooms : Create(o, r)
    \/ \E c \in Creatures, r \in Rooms, o \in Objects \cup {Null} : Arrive(c, r, o)
    \/ \E o \in Objects : OlcDestroy(o) \/ Heartbeat(o)
    \/ \E c \in Creatures : Gone(c)
    \/ \E c \in Creatures, r \in Rooms : Enter(c, r)
    \/ Collect
    \/ \E p \in Players : CommandNow(p) \/ CommandLater(p) \/ Turn(p) \/ Swap(p)

Spec == Init /\ [][Next]_vars

-----------------------------------------------------------------------------
(* How often the world lists o: in rooms, in equipment slots, in children. *)
Listed(o) ==
    {<<r, "objects">> : r \in {x \in Rooms : o \in objects[x]}}
    \cup {<<p, "children">> : p \in {x \in Objects : o \in children[x]}}
    \cup {q \in Creatures \X Slots : equipment[q[1]][q[2]] = o}

(* However gets, puts, wears, drops, deaths and collections interleave     *)
(* (object.cc:117-145, body.cc:111-150, 359-396, room.cc:259-283), every   *)
(* living object is listed in exactly one place of the world, and that is  *)
(* a place of the owner it points to: nothing is duplicated or lost.       *)
OnePlace ==
    up => \A o \in Objects : Live(o) =>
            \E q \in Listed(o) : Listed(o) = {q} /\ q[1] = owner[o]

(* Rooms, living creatures and living containers list living objects only, *)
(* so no heartbeat, look or save walks into memory that collect            *)
(* (entity.cc:384-399) has freed.                                          *)
ListsLive ==
    up => /\ \A r \in Rooms : \A o \in objects[r] : Live(o)
          /\ \A c \in Creatures : Live(c) => \A o \in Equipped(c) : Live(o)
          /\ \A p \in Objects : Live(p) => \A o \in children[p] : Live(o)

(* What the world has is in one place and alive.                           *)
Whereabouts == OnePlace /\ ListsLive
=============================================================================
