------------------------------ MODULE Actions ------------------------------
(***************************************************************************)
(* What creatures do: the action queue of src/mud/creature.cc, the actions *)
(* of src/mud/char_do.cc that commands can queue, the portals they act on  *)
(* (src/mud/portal.cc) and the rooms they move between (src/mud/room.cc).  *)
(*                                                                         *)
(* A command looks its target up when it is typed; the action it queues    *)
(* keeps a pointer to it and starts when it reaches the front of the       *)
(* queue, which may be long after.  By then the actor may be elsewhere,    *)
(* the door in another state and the other creature gone, its memory free  *)
(* or in use by a new one.                                                 *)
(***************************************************************************)
EXTENDS Integers, Sequences, FiniteSets

CONSTANTS Creatures,   \* addresses of Creature objects
          Rooms,
          Portals,
          Parent,      \* Portal::parent_room
          Target,      \* the room Portal::target names
          Oneway,      \* portals with the oneway flag
          Doors,       \* portals with the door flag
          Amounts,     \* how many coins a command may name
          MaxCoins,    \* UINT_MAX
          RoomCoins,   \* coins lying in each room at the start
          GoRounds,    \* rounds it may take to pass a portal, by health
          MaxQueue,    \* bound of the model: actions each creature may queue
          Null

ASSUME ActionsAssumption ==
    /\ IsFiniteSet(Creatures) /\ IsFiniteSet(Rooms)
    /\ Parent \in [Portals -> Rooms] /\ Target \in [Portals -> Rooms]
    /\ Oneway \subseteq Portals /\ Doors \subseteq Portals
    /\ MaxCoins \in Nat \ {0} /\ Amounts \subseteq 1 .. MaxCoins
    /\ GoRounds \subseteq Nat \ {0} /\ MaxQueue \in [Creatures -> Nat \ {0}]
    /\ RoomCoins \in [Rooms -> 0 .. MaxCoins]
    /\ Null \notin Rooms /\ Creatures \cap Rooms = {}

VARIABLES
    life,        \* "active", "dead" until the next collect, or "free"
    location,    \* Creature::location
    creatures,   \* Room::creatures
    closed,      \* portals whose closed flag is set
    locked,      \* portals whose locked flag is set
    coins,       \* Creature::coins and Room::coins
    actions,     \* Creature::actions
    round_time,  \* Creature::round_time
    fault        \* an action has used a creature that was freed

doors == <<closed, locked>>
where == <<location, creatures>>
queue == <<actions, round_time>>
vars  == <<life, where, doors, coins, queue, fault>>

Active == {c \in Creatures : life[c] = "active"}
Lesser(a, b) == IF a < b THEN a ELSE b

(* Portal::getRelativeTarget: it looks at the ends, not at the oneway flag.*)
RelativeTarget(p, r) ==
    IF r = Parent[p] THEN Target[p] ELSE IF r = Target[p] THEN Parent[p] ELSE Null

(* The portals a room lists: its own, and those of other rooms that lead   *)
(* here and have registered.                                               *)
PortalsOf(r) == {p \in Portals : r = Parent[p] \/ (p \notin Oneway /\ r = Target[p])}

-----------------------------------------------------------------------------
(* An action: what it does, its target, an amount, and its rounds.         *)
Action(do, on, n, rounds) == [do |-> do, on |-> on, n |-> n, rounds |-> rounds]

DoorActions ==
    {Action(d, p, 0, 1) : d \in {"open", "close", "lock", "unlock"}, p \in Portals}
        \cup {Action("kick", p, 0, 3) : p \in Portals}
GoActions   == {Action("go", p, 0, n) : p \in Portals, n \in GoRounds}
GiveActions == {Action("give", c, n, 2) : c \in Creatures, n \in Amounts}
AnyAction   == DoorActions \cup GoActions \cup GiveActions

(* start() accepts: the checks each action repeats when its turn comes.    *)
(* `here' is the actor's room then.  An attempt on a locked door counts.   *)
Accepts(c, a, here) ==
    \/ a.do = "go" /\ a.on \notin closed /\ RelativeTarget(a.on, here) # Null
    \/ a.do = "close" /\ a.on \in Doors \ closed
    \/ a.do \in {"open", "lock", "unlock", "kick"} /\ a.on \in Doors \cap closed
    \/ a.do = "give" /\ coins[c] # 0 /\ coins[c] >= a.n

(* Creature::giveCoins, which stops at UINT_MAX, then takeCoins.           *)
GiveCoins(c, a) ==
    coins' = [[coins EXCEPT ![a.on] = Lesser(@ + a.n, MaxCoins)] EXCEPT ![c] = @ - Lesser(a.n, @)]

(* What an accepted start() does.  Passing a portal waits for finish().    *)
Start(c, a) ==
    /\ closed' = IF a.do = "close" THEN closed \cup {a.on}
                 ELSE IF a.do = "kick" \/ (a.do = "open" /\ a.on \notin locked)
                 THEN closed \ {a.on} ELSE closed
    /\ locked' = IF a.do = "lock" THEN locked \cup {a.on}
                 ELSE IF a.do = "unlock" THEN locked \ {a.on} ELSE locked
    /\ IF a.do = "give" /\ life[a.on] # "free" THEN GiveCoins(c, a) ELSE UNCHANGED coins
    /\ fault' = (fault \/ (a.do = "give" /\ life[a.on] = "free"))

(* The loop of heartbeat and addAction: actions that refuse to start are   *)
(* dropped, the first one that accepts runs.                               *)
Promote(c, q, here) ==
    \/ /\ \A i \in 1 .. Len(q) : ~Accepts(c, q[i], here)
       /\ actions' = [actions EXCEPT ![c] = <<>>]
       /\ UNCHANGED <<doors, coins, fault>>
    \/ \E i \in 1 .. Len(q) :
          /\ Accepts(c, q[i], here)
          /\ \A j \in 1 .. i - 1 : ~Accepts(c, q[j], here)
          /\ actions' = [actions EXCEPT ![c] = SubSeq(q, i, Len(q))]
          /\ Start(c, q[i])

-----------------------------------------------------------------------------
Init ==
    /\ life = [c \in Creatures |-> "free"]
    /\ location = [c \in Creatures |-> Null]
    /\ creatures = [r \in Rooms |-> {}]
    /\ closed \in SUBSET Doors /\ locked \in SUBSET closed
    /\ coins = [x \in Creatures \cup Rooms |-> IF x \in Rooms THEN RoomCoins[x] ELSE 0]
    /\ actions = [c \in Creatures |-> <<>>]
    /\ round_time = [c \in Creatures |-> 0]
    /\ fault = FALSE

(* A creature is made, with its purse, and enters a room.                  *)
Arrive(c, r, n) ==
    /\ life[c] = "free"
    /\ life' = [life EXCEPT ![c] = "active"]
    /\ location' = [location EXCEPT ![c] = r]
    /\ creatures' = [creatures EXCEPT ![r] = @ \cup {c}]
    /\ coins' = [coins EXCEPT ![c] = n]
    /\ UNCHANGED <<doors, queue, fault>>

(* Entity::destroy: the room releases the creature.  Its queue goes now:   *)
(* no heartbeat will reach it again before its memory is freed.            *)
Leave(c) ==
    /\ life[c] = "active"
    /\ life' = [life EXCEPT ![c] = "dead"]
    /\ creatures' = [creatures EXCEPT ![location[c]] = @ \ {c}]
    /\ actions' = [actions EXCEPT ![c] = <<>>]
    /\ round_time' = [round_time EXCEPT ![c] = 0]
    /\ UNCHANGED <<location, doors, coins, fault>>

(* MEntity.collect                                                         *)
Collect(c) ==
    /\ life[c] = "dead"
    /\ life' = [life EXCEPT ![c] = "free"]
    /\ coins' = [coins EXCEPT ![c] = 0]
    /\ location' = [location EXCEPT ![c] = Null]
    /\ UNCHANGED <<creatures, doors, queue, fault>>

(* clFindPortal and clFindCreature: what a command finds where c is now.   *)
FindPortal(c)   == PortalsOf(location[c])
FindCreature(c) == creatures[location[c]]

(* The commands that move, that handle doors, `kick' and `give'.           *)
MoveOffered(c) == {a \in GoActions : a.on \in FindPortal(c)}
DoorOffered(c) == {a \in DoorActions : a.do # "kick" /\ a.on \in Doors \cap FindPortal(c)}
KickOffered(c) == {a \in DoorActions : a.do = "kick" /\ a.on \in FindPortal(c)}
GiveOffered(c) == {a \in GiveActions : a.on \in FindCreature(c)}
Offered(c)     == MoveOffered(c) \cup DoorOffered(c) \cup KickOffered(c) \cup GiveOffered(c)

(* Creature::addAction, called by a command: an only action starts at once.*)
AddAction(c, a) ==
    /\ Len(actions[c]) < MaxQueue[c]
    /\ IF actions[c] = <<>>
       THEN /\ round_time' = [round_time EXCEPT ![c] = 0]
            /\ Promote(c, <<a>>, location[c])
       ELSE /\ actions' = [actions EXCEPT ![c] = Append(@, a)]
            /\ UNCHANGED <<round_time, doors, coins, fault>>
    /\ UNCHANGED <<life, where>>

(* Faulty: the portal is not looked at again when the walk ends.           *)
MutArrival(c, a) ==
    IF a.do = "go" /\ RelativeTarget(a.on, location[c]) # Null
    THEN RelativeTarget(a.on, location[c]) ELSE location[c]

(* Where finish() leaves the actor: ActionUsePortal checks the portal      *)
(* again and enters the room behind it; the other actions do nothing.      *)
Arrival(c, a) ==
    IF a.do = "go" /\ a.on \notin closed /\ RelativeTarget(a.on, location[c]) # Null
    THEN RelativeTarget(a.on, location[c]) ELSE location[c]

(* Creature::enter and Room::addCreature; nothing when c is there already. *)
Enter(c, r) ==
    /\ location' = [location EXCEPT ![c] = r]
    /\ creatures' = [x \in Rooms |-> IF x = r THEN creatures[x] \cup {c} ELSE creatures[x] \ {c}]

RoundAfter(c, done) == IF done THEN 0 ELSE round_time[c] + 1

(* Faulty: the finished action is tried again.                             *)
MutRest(c) == actions[c]

(* The do-while loop erases the finished action before it tries a next one.*)
Rest(c) == Tail(actions[c])

(* Creature::heartbeat, the part about actions.                            *)
Heartbeat(c) ==
    /\ life[c] = "active" /\ actions[c] # <<>>
    /\ LET a == Head(actions[c])
           done == round_time[c] + 1 >= a.rounds
       IN /\ round_time' = [round_time EXCEPT ![c] = RoundAfter(c, done)]
          /\ IF done
             THEN /\ Enter(c, Arrival(c, a))
                  /\ Promote(c, Rest(c), Arrival(c, a))
             ELSE UNCHANGED <<where, actions, doors, coins, fault>>
    /\ UNCHANGED life

(* `get', whatever it is told to get, picks up all of the room's coins.    *)
GetCoins(c) ==
    /\ life[c] = "active" /\ coins[location[c]] > 0
    /\ coins' = [coins EXCEPT ![c] = Lesser(@ + coins[location[c]], MaxCoins),
                              ![location[c]] = 0]
    /\ UNCHANGED <<life, where, doors, queue, fault>>

Broken == fault /\ UNCHANGED vars

Next ==
    \/ /\ ~fault
       /\ \E c \in Creatures :
            \/ \E r \in Rooms, n \in Amounts : Arrive(c, r, n)
            \/ Leave(c) \/ Collect(c) \/ Heartbeat(c) \/ GetCoins(c)
            \/ c \in Active /\ \E a \in Offered(c) : AddAction(c, a)
    \/ Broken

Spec == Init /\ [][Next]_vars

(* Every active creature gets its heartbeat again and again; nothing else  *)
(* is owed.                                                                *)
FairSpec == Spec /\ \A c \in Creatures : WF_vars(~fault /\ Heartbeat(c))

-----------------------------------------------------------------------------
(* Types of all variables; no purse exceeds what an unsigned holds.        *)
TypeOK ==
    /\ life \in [Creatures -> {"active", "dead", "free"}]
    /\ location \in [Creatures -> Rooms \cup {Null}]
    /\ creatures \in [Rooms -> SUBSET Creatures]
    /\ closed \subseteq Doors /\ locked \subseteq Doors
    /\ coins \in [Creatures \cup Rooms -> 0 .. MaxCoins]
    /\ actions \in [Creatures -> Seq(AnyAction)]
    /\ round_time \in [Creatures -> Nat]
    /\ fault \in BOOLEAN

(* Room::creatures and Creature::location (room.cc:258-264, 478-484;       *)
(* creature.cc:234-242) agree: a creature in the world is listed by the    *)
(* one room it is in, and no room lists one that has left.                 *)
InOneRoom ==
    \A c \in Creatures, r \in Rooms :
        c \in creatures[r] <=> c \in Active /\ location[c] = r

Purses == Creatures \cup Rooms

(* Coins change hands and are never made: a step moves at most n coins     *)
(* from one purse to another that y holds, and some are lost only where    *)
(* they do not fit in x (creature.cc:455-470; char_do.cc:379).             *)
CoinsStay ==
    life' = life /\ coins' # coins =>
        \E x, y \in Purses, n \in 1 .. MaxCoins :
            /\ \A z \in Purses \ {x, y} : coins'[z] = coins[z]
            /\ n <= coins[y] /\ coins[y] - n <= coins'[y]
            /\ coins'[x] + coins'[y] <= coins[x] + coins[y]
            /\ coins'[x] + coins'[y] < coins[x] + coins[y] => coins[x] + n > MaxCoins

(* Nobody walks through a closed portal, though it may be closed by        *)
(* another while the walk takes its rounds (char_do.cc:939-964).           *)
DoorsHold ==
    \A c \in Creatures :
        c \in Active /\ life'[c] = "active" /\ location'[c] # location[c] =>
            Head(actions[c]).do = "go" /\ Head(actions[c]).on \notin closed

(* However the queues of several creatures are mixed, every creature stays *)
(* in one room, doors hold and coins stay what they are.                   *)
WorldHolds == [][InOneRoom' /\ DoorsHold /\ CoinsStay]_vars

(* A full queue gets room again while its creature stays in the world:     *)
(* no action holds the queue for ever (creature.cc:472-503).               *)
QueueDrains ==
    \A c \in Creatures :
        life[c] = "active" /\ Len(actions[c]) = MaxQueue[c]
            ~> (Len(actions[c]) < MaxQueue[c] \/ life[c] # "active" \/ fault)

=============================================================================
