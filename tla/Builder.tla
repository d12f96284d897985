------------------------------ MODULE Builder ------------------------------
(***************************************************************************)
(* Zones, rooms and portals under the hands of a builder: src/mud/zone.cc, *)
(* room.cc and portal.cc with the commands of src/cmd/olc.cc, from the     *)
(* file a zone is loaded from to the file it is saved to.                  *)
(*                                                                         *)
(* A portal belongs to the room it was made in, its parent, and is kept in *)
(* that room's map of exits; a two-way portal registers itself in the map  *)
(* of its target too when it is activated.  A room has at most one portal  *)
(* of its own per direction, so <<room, dir>> names the portal.            *)
(*                                                                         *)
(* Zone::rooms keeps a pointer to every room ever added.  An assertion     *)
(* that fails, and a walk into memory that was freed, end the run (`up').  *)
(***************************************************************************)
EXTENDS Naturals, Sequences

CONSTANTS Ids,      \* ids of rooms
          Worlds,   \* zone files: sequences of [id, doors], doors a set of
                    \* [dir, target, oneway]
          MaxEdits, \* bound on the builder's commands
          MaxStarts \* bound on starts of the server

Dirs == <<"north", "east", "south", "west">>    \* in the order of the map
Opposite == [north |-> "south", south |-> "north", east |-> "west", west |-> "east"]
Dir == DOMAIN Opposite
None == <<"none", "none">>
Nowhere == "nowhere"

ASSUME BuilderAssumption == Nowhere \notin Ids

VARIABLES rooms,   \* Zone::rooms
          life,    \* of each room: "NONE", then Entity::state, "FREED" at last
          exits,   \* Room::portals
          doors,   \* the portals there are: [target, oneway, state]
          at,      \* the room the builder is in, Nowhere when he is gone
          file,    \* the zone file
          up, edits, starts

builderVars == <<rooms, life, exits, doors, at, file, up, edits, starts>>
world == <<rooms, life, exits, doors>>

Portals == Ids \X Dir
RoomData == [id : Ids, doors : SUBSET [dir : Dir, target : Ids \cup {Nowhere}, oneway : BOOLEAN]]
ASSUME WorldsAssumption == \A f \in Worlds : f \in Seq(RoomData) /\ f # <<>>

NoDoor == [target |-> Nowhere, oneway |-> FALSE, state |-> "NONE"]

Listed(id) == \E i \in DOMAIN rooms : rooms[i] = id

(* MZone.getRoom walks the list up to the room it looks for; a freed room  *)
(* on the way is read.                                                     *)
WalksIntoFreed(id) ==
    \E i \in DOMAIN rooms : life[rooms[i]] = "FREED" /\ \A j \in 1 .. i - 1 : rooms[j] # id

-----------------------------------------------------------------------------
(* Room::loadNode: the portals a file gives to its rooms.                  *)
InFile(f, id) == \E i \in DOMAIN f : f[i].id = id
OfFile(f, p) == {d \in UNION {f[i].doors : i \in {j \in DOMAIN f : f[j].id = p[1]}} : d.dir = p[2]}
Placed(f) == [p \in {q \in Portals : OfFile(f, q) # {}} |-> CHOOSE d \in OfFile(f, p) : TRUE]

(* Portal::activate and Room::registerPortal, as Zone::activate calls them *)
(* room by room: at its target a two-way portal takes the place of none,   *)
(* and the first to come takes it.  Who comes too late becomes one-way.    *)
Comers(f, r, dir) ==
    {i \in DOMAIN f : LET p == <<f[i].id, Opposite[dir]>>
                      IN  p \in DOMAIN Placed(f) /\ ~Placed(f)[p].oneway /\ Placed(f)[p].target = r}
LoadedExits(f) ==
    [r \in Ids |-> [dir \in Dir |->
        IF <<r, dir>> \in DOMAIN Placed(f) THEN <<r, dir>>
        ELSE IF ~InFile(f, r) \/ Comers(f, r, dir) = {} THEN None
        ELSE LET first == CHOOSE i \in Comers(f, r, dir) : \A j \in Comers(f, r, dir) : i <= j
             IN  <<f[first].id, Opposite[dir]>>]]
LoadedDoor(f, p) ==
    LET d == Placed(f)[p]
    IN  [target |-> d.target, state |-> "ACTIVE",
         oneway |-> d.oneway \/ (InFile(f, d.target) /\ LoadedExits(f)[d.target][Opposite[p[2]]] # p)]

(* Zone::load and Zone::activate: the rooms, their lives, exits and doors. *)
IsLoaded(f, rs, li, ex, ds) ==
    /\ rs = [i \in DOMAIN f |-> f[i].id] /\ ex = LoadedExits(f)
    /\ ds = [p \in Portals |-> IF p \in DOMAIN Placed(f) THEN LoadedDoor(f, p) ELSE NoDoor]
    /\ li = [r \in Ids |-> IF InFile(f, r) THEN "ACTIVE" ELSE "NONE"]

BuilderInit ==
    /\ file \in Worlds /\ IsLoaded(file, rooms, life, exits, doors)
    /\ at = file[1].id /\ up = TRUE /\ edits = 0 /\ starts = 1

Crash == up' = FALSE /\ UNCHANGED <<world, at, file, starts>>
Edit == up /\ at # Nowhere /\ edits < MaxEdits /\ edits' = edits + 1

-----------------------------------------------------------------------------
(* `olc create room': the room is listed and never activated.              *)
OlcCreateRoom(id) ==
    /\ Edit
    /\ \/ WalksIntoFreed(id) /\ Crash
       \/ /\ ~WalksIntoFreed(id) /\ ~Listed(id)
          /\ rooms' = Append(rooms, id) /\ life' = [life EXCEPT ![id] = "FLOAT"]
          /\ UNCHANGED <<exits, doors, at, file, up, starts>>

(* `olc create portal': Room::newPortal activates it before it has a       *)
(* target, so it is not registered there before the next start.            *)
OlcCreatePortal(dir, id) ==
    /\ Edit /\ exits[at][dir] = None
    /\ \/ WalksIntoFreed(id) /\ Crash
       \/ /\ ~WalksIntoFreed(id) /\ Listed(id)
          /\ exits' = [exits EXCEPT ![at][dir] = <<at, dir>>]
          /\ doors' = [doors EXCEPT ![<<at, dir>>] =
                         [target |-> id, oneway |-> FALSE,
                          state |-> IF life[at] = "ACTIVE" THEN "ACTIVE" ELSE "FLOAT"]]
          /\ UNCHANGED <<rooms, life, at, file, up, starts>>

(* `olc destroy portal': Room::ownerRelease takes it out of the map and    *)
(* goes on to assert(false).                                               *)
OlcDestroyPortal(dir) == Edit /\ exits[at][dir] # None /\ Crash

(* A portal back into its own room that is registered before its own       *)
(* direction erases the entry Room::deactivate is looking at.              *)
Before(d, e) == \E i, j \in DOMAIN Dirs : i < j /\ Dirs[i] = d /\ Dirs[j] = e
LoopsBack(r) ==
    \E dir \in Dir : /\ exits[r][Opposite[dir]] = <<r, dir>> /\ Before(Opposite[dir], dir)
                     /\ ~doors[<<r, dir>>].oneway /\ doors[<<r, dir>>].target = r

(* The portals of its own that a room finds in its map.                    *)
Own(r) == {p \in {r} \X Dir : exits[r][p[2]] = p}

(* Faulty: a portal that dies stays registered at its target.              *)
MutDeactivateDoors(ps) ==
    /\ doors' = [p \in Portals |-> IF p \in ps THEN [doors[p] EXCEPT !.state = "DEAD"] ELSE doors[p]]
    /\ exits' = exits

(* Portal::deactivate and Room::unregisterPortal, of each of a room's own. *)
DeactivateDoors(ps) ==
    /\ doors' = [p \in Portals |-> IF p \in ps THEN [doors[p] EXCEPT !.state = "DEAD"] ELSE doors[p]]
    /\ exits' = [r \in Ids |-> [dir \in Dir |->
                    LET p == exits[r][dir] IN
                    IF p \in ps /\ ~doors[p].oneway /\ doors[p].target = r /\ Opposite[p[2]] = dir
                    THEN None ELSE p]]

(* `olc destroy room': it dies with its portals; the zone still lists it.  *)
OlcDestroyRoom(id) ==
    /\ Edit /\ id # at
    /\ \/ WalksIntoFreed(id) /\ Crash
       \/ /\ ~WalksIntoFreed(id) /\ life[id] = "ACTIVE"
          /\ IF LoopsBack(id) \/ \E p \in Own(id) : ~doors[p].oneway /\ WalksIntoFreed(doors[p].target)
             THEN Crash
             ELSE /\ DeactivateDoors(Own(id)) /\ life' = [life EXCEPT ![id] = "DEAD"]
                  /\ UNCHANGED <<rooms, at, file, up, starts>>

(* Portal::getRelativeTarget and Creature::enter: in a room that is not    *)
(* active whoever enters is deactivated (Entity::setOwner).                *)
Go(dir) ==
    LET p == exits[at][dir]
        to == IF p[1] = at THEN doors[p].target ELSE p[1]
    IN  /\ up /\ at # Nowhere /\ p # None
        /\ IF p[1] = at /\ WalksIntoFreed(to) THEN Crash
           ELSE /\ Listed(to)
                /\ at' = IF life[to] = "ACTIVE" THEN to ELSE Nowhere
                /\ UNCHANGED <<world, file, up, starts>>
        /\ UNCHANGED edits

(* MEntity.collect, at the end of each pass of main: all that is not       *)
(* active is freed.                                                        *)
Collect ==
    /\ up
    /\ life' = [r \in Ids |-> IF life[r] \in {"FLOAT", "DEAD"} THEN "FREED" ELSE life[r]]
    /\ doors' = [p \in Portals |-> IF doors[p].state = "ACTIVE" THEN doors[p] ELSE NoDoor]
    /\ exits' = [r \in Ids |-> IF life'[r] = "FREED" THEN [dir \in Dir |-> None] ELSE exits[r]]
    /\ <<life', doors'>> # <<life, doors>>
    /\ UNCHANGED <<rooms, at, file, up, edits, starts>>

(* Zone::save, Room::saveData: every room listed, with its own portals.    *)
ZoneSave ==
    /\ up
    /\ IF \E i \in DOMAIN rooms : life[rooms[i]] = "FREED" THEN Crash
       ELSE /\ file' = [i \in DOMAIN rooms |->
                 [id |-> rooms[i],
                  doors |-> {[dir |-> dir, target |-> doors[<<rooms[i], dir>>].target,
                              oneway |-> doors[<<rooms[i], dir>>].oneway] :
                                dir \in {d \in Dir : exits[rooms[i]][d] = <<rooms[i], d>>}}]]
            /\ UNCHANGED <<world, at, up, starts>>
    /\ UNCHANGED edits

Restart ==
    /\ starts < MaxStarts /\ starts' = starts + 1
    /\ IsLoaded(file, rooms', life', exits', doors')
    /\ at' = file[1].id /\ up' = TRUE
    /\ UNCHANGED <<file, edits>>

BuilderNext ==
    \/ \E id \in Ids : OlcCreateRoom(id) \/ OlcDestroyRoom(id)
    \/ \E dir \in Dir : OlcDestroyPortal(dir) \/ Go(dir)
    \/ \E dir \in Dir, id \in Ids : OlcCreatePortal(dir, id)
    \/ Collect \/ ZoneSave \/ Restart

BuilderSpec == BuilderInit /\ [][BuilderNext]_builderVars

-----------------------------------------------------------------------------
(* Whatever a zone file holds and a builder creates or destroys, every     *)
(* exit of an active room is an active portal that leads from or into that *)
(* room in that direction (room.cc:163-200, portal.cc:504-528), and no     *)
(* portal that is active is missing from its parent: nobody walks through  *)
(* memory that collect has freed, and every door has one place per room.   *)
ExitsRight ==
    up =>
      /\ \A r \in Ids, dir \in Dir :
            (life[r] = "ACTIVE" /\ exits[r][dir] # None) =>
                LET p == exits[r][dir] IN
                /\ doors[p].state = "ACTIVE"
                /\ \/ p = <<r, dir>>
                   \/ doors[p].target = r /\ p[2] = Opposite[dir] /\ ~doors[p].oneway
      /\ \A p \in Portals : doors[p].state = "ACTIVE" =>
            life[p[1]] = "ACTIVE" /\ exits[p[1]][p[2]] = p
=============================================================================
