------------------------------ MODULE Persist ------------------------------
(***************************************************************************)
(* What of a player, an account or a room is saved, and what becomes of it *)
(* when it is loaded again: the saveData, loadNode and loadFinish methods  *)
(* of src/mud, over the format of FileObj.                                 *)
(*                                                                         *)
(* A thing is a sequence of parts, each held by the one before it: the     *)
(* player, the bag in a hand, the coin in the bag.  A part is its class    *)
(* and the fields that differ from their defaults.  A field is written as  *)
(* an attribute with a type of value; a loader takes an attribute only     *)
(* with the type it asks for, and one attribute it does not take fails the *)
(* load of the whole file (FO_READ_ERROR).                                 *)
(***************************************************************************)
EXTENDS Naturals, Sequences

CONSTANTS Changing,   \* the fields that may change
          Backups,    \* MSettings.getBackupPlayers()
          MaxChanges, \* bound: changes to the thing
          MaxStops    \* bound: ends of a session or of the server

VARIABLES thing,    \* what is in memory, <<>> if nothing is
          disk,     \* what its file holds, <<>> if there is none
          saving,   \* the steps of save() still to do
          removed,  \* what builders have removed: a room, a blueprint
          last,     \* history: the last thing saved completely
          result,   \* of the last load: "none", "ok", "failed"
          changes, stops

persistVars == <<thing, disk, saving, removed, last, result, changes, stops>>

-----------------------------------------------------------------------------
(* What each class writes: field, attribute, type of value.                *)
W(f, a, t) == [field |-> f, attr |-> a, type |-> t]
Same(ns, fs, t) == {W(f, <<ns, f>>, t) : f \in fs}

EntityWrites   == {W("tag", <<"entity", "tag">>, "string"), W("event", <<"entity", "event">>, "object")}
CreatureWrites == EntityWrites
    \cup {W("dead", <<"creature", "dead">>, "bool")}      \* the literal "yes", as a bool
    \cup Same("creature", {"position"}, "string") \cup Same("creature", {"coins", "hp"}, "int")
PlayerWrites   == CreatureWrites
    \cup Same("player", {"created", "lastlogin", "race", "birthday", "gender", "build", "height",
                         "skin_color", "eye_color", "hair_color", "hair_style", "location"}, "string")
    \cup Same("player", {"playtime", "experience"}, "int") \cup Same("player", {"stat", "skill"}, "list")
NpcWrites      == CreatureWrites \cup Same("npc", {"blueprint", "roomtag"}, "string")
    \cup Same("npc", {"zonelock", "reverse_roomtag"}, "bool")
ObjectWrites   == EntityWrites \cup Same("object", {"blueprint", "name"}, "string")
    \cup {W("in_container", <<"object", "location">>, "bool")}  \* the literals "in" and "on"
RoomWrites     == EntityWrites \cup Same("room", {"id", "name", "desc"}, "string")
    \cup Same("room", {"outdoors", "safe", "noweather"}, "bool") \cup Same("room", {"coins"}, "int")
PortalWrites   == EntityWrites
    \cup Same("portal", {"name", "desc", "keyword", "dir", "usage", "detail", "target"}, "string")
    \cup Same("portal", {"hidden", "door", "closed", "locked", "nolook", "disabled", "oneway"}, "bool")
AccountWrites  == Same("account", {"name", "email", "passphrase", "character", "created",
                                   "lastlogin", "access"}, "string")
    \cup Same("account", {"disabled"}, "bool") \cup Same("account", {"maxcharacters", "maxactive"}, "int")
    \cup {W("timeout", <<"account", "maxactive">>, "int")}

Writes == [Player |-> PlayerWrites, Npc |-> NpcWrites, Object |-> ObjectWrites,
           Room |-> RoomWrites, Portal |-> PortalWrites, Account |-> AccountWrites]

(* What each class takes from a file: attribute, type, the field it sets.  *)
EntityReads   == EntityWrites
PlayerReads   == PlayerWrites \cup Same("player", {"name", "desc"}, "string")
NpcReads      == NpcWrites
(* Faulty: the loader of an object takes its name for a tag.               *)
MutObjectReads == EntityReads \cup Same("object", {"blueprint"}, "string")
    \cup {W("tag", <<"object", "name">>, "string"), W("in_container", <<"object", "location">>, "string")}
ObjectReads   == EntityReads \cup Same("object", {"blueprint", "name"}, "string")
    \cup {W("in_container", <<"object", "location">>, "string")}
RoomReads     == RoomWrites
PortalReads   == PortalWrites \cup {W("dir", <<"portal", "direction">>, "string")}
AccountReads  == (AccountWrites \ {W("timeout", <<"account", "maxactive">>, "int")})
    \cup Same("account", {"timeout"}, "int")

Reads == [Player |-> PlayerReads, Npc |-> NpcReads, Object |-> ObjectReads,
          Room |-> RoomReads, Portal |-> PortalReads, Account |-> AccountReads]

(* What may be inside what: equipment, the children of rooms and objects.  *)
Holds == [Player |-> {"Object"}, Npc |-> {"Object"}, Object |-> {"Object"},
          Room |-> {"Portal", "Object", "Npc"}, Portal |-> {}, Account |-> {}]

-----------------------------------------------------------------------------
(* saveData: the nodes of a thing, with those of what it holds.            *)
Data(t) == [i \in DOMAIN t |-> [class |-> t[i].class,
                                attrs |-> {w \in Writes[t[i].class] : w.field \in t[i].on}]]

(* Whether loadNode takes a written attribute, and the fields it sets.     *)
Taken(c, w) == {r \in Reads[c] : r.attr = w.attr /\ r.type = w.type}

(* References that must resolve while loading, and loadFinish.             *)
Resolves(d) ==
    /\ (d.class = "Player" /\ \E w \in d.attrs : w.field = "location") => "room" \notin removed
    /\ d.class \in {"Object", "Npc"} =>
          "blueprint" \notin removed /\ \E w \in d.attrs : w.field = "blueprint"

Readable(data) ==
    \A i \in DOMAIN data :
        /\ \A w \in data[i].attrs : Taken(data[i].class, w) # {}
        /\ Resolves(data[i])

ReadBack(data) ==
    [i \in DOMAIN data |->
        [class |-> data[i].class,
         on    |-> {r.field : r \in UNION {Taken(data[i].class, w) : w \in data[i].attrs}}]]

-----------------------------------------------------------------------------
(* Fields nobody can unset: an object and an NPC have a blueprint.         *)
Fixed(c) == IF c \in {"Object", "Npc"} THEN {"blueprint"} ELSE {}
Bare(c) == [class |-> c, on |-> Fixed(c)]
FieldsOf(c) ==
    (Changing \cap {w.field : w \in Writes[c] \cup Reads[c]}) \ (Fixed(c) \cup {"in_container"})

PersistInit ==
    /\ thing \in {<<Bare(c)>> : c \in {"Player", "Room", "Account"}}
    /\ disk = <<>> /\ saving = <<>> /\ removed = {} /\ last = <<>> /\ result = "none"
    /\ changes = 0 /\ stops = 0

MayChange == changes < MaxChanges /\ changes' = changes + 1 /\ thing # <<>> /\ saving = <<>>

(* The game changes a field of the thing, or of what it holds.             *)
ChangeField ==
    /\ MayChange
    /\ \E i \in DOMAIN thing : \E f \in FieldsOf(thing[i].class) :
          thing' = [thing EXCEPT ![i].on = IF f \in @ THEN @ \ {f} ELSE @ \cup {f}]
    /\ UNCHANGED <<disk, saving, removed, last, result, stops>>

(* Object::addObject and ownerRelease: what lies in an object is marked.   *)
Inside(p)  == [p EXCEPT !.on = @ \cup {"in_container"}]
Outside(p) == [p EXCEPT !.on = @ \ {"in_container"}]

(* Something is taken, put into what is held, taken out of it, or let go   *)
(* of.                                                                     *)
ChangeKid ==
    /\ MayChange
    /\ \/ /\ Len(thing) = 1
          /\ \E c \in Holds[thing[1].class] : thing' = Append(thing, Bare(c))
       \/ /\ Len(thing) = 2
          /\ \E c \in Holds[thing[2].class] :
                thing' = Append(thing, IF thing[2].class = "Object" THEN Inside(Bare(c)) ELSE Bare(c))
       \/ Len(thing) = 3 /\ thing' = <<thing[1], Outside(thing[3])>>
       \/ Len(thing) > 1 /\ thing' = <<thing[1]>>
    /\ UNCHANGED <<disk, saving, removed, last, result, stops>>

(* Player::save, Account::save, Zone::save: the file is moved away when    *)
(* backups are kept, a new one is written beside it and moved into place.  *)
SaveBegin ==
    /\ thing # <<>> /\ saving = <<>>
    /\ saving' = (IF Backups THEN <<"backup">> ELSE <<>>) \o <<"write", "rename">>
    /\ UNCHANGED <<thing, disk, removed, last, result, changes, stops>>

SaveStep ==
    /\ saving # <<>> /\ saving' = Tail(saving)
    /\ CASE Head(saving) = "backup" -> disk' = <<>> /\ UNCHANGED last
         [] Head(saving) = "write"  -> UNCHANGED <<disk, last>>
         [] Head(saving) = "rename" -> disk' = Data(thing) /\ last' = thing
    /\ UNCHANGED <<thing, removed, result, changes, stops>>

(* The session ends, or the server does, at any point of a save.           *)
Leave ==
    /\ thing # <<>> /\ stops < MaxStops /\ stops' = stops + 1
    /\ thing' = <<>> /\ saving' = <<>>
    /\ UNCHANGED <<disk, removed, last, result, changes>>

Remove(what) ==
    /\ thing = <<>> /\ removed = {}
    /\ removed' = {what}
    /\ UNCHANGED <<thing, disk, saving, last, result, changes, stops>>

(* Entity::load, _MAccount::get: all or nothing.                           *)
Load ==
    /\ thing = <<>> /\ disk # <<>>
    /\ result' = IF Readable(disk) THEN "ok" ELSE "failed"
    /\ thing' = IF Readable(disk) THEN ReadBack(disk) ELSE <<>>
    /\ UNCHANGED <<disk, saving, removed, last, changes, stops>>

PersistNext ==
    \/ ChangeField \/ ChangeKid \/ SaveBegin \/ SaveStep \/ Leave \/ Load
    \/ \E what \in {"room", "blueprint"} : Remove(what)

PersistSpec == PersistInit /\ [][PersistNext]_persistVars

-----------------------------------------------------------------------------
(* What is lost on the way: a player's name and description are never      *)
(* written, an account's own time-out is written under another name.       *)
Lost(c) == IF c = "Player" THEN {"name", "desc"}
           ELSE IF c = "Account" THEN {"timeout", "maxactive"} ELSE {}
Kept(p) == p.on \ Lost(p.class)

Alike(t, u) ==
    /\ DOMAIN t = DOMAIN u
    /\ \A i \in DOMAIN t : t[i].class = u[i].class /\ Kept(t[i]) = Kept(u[i])

(* What a load brings back is the last thing whose save was completed,     *)
(* field by field and with all it held, whenever the server stopped and    *)
(* whatever a builder removed; it is never a part of it.                   *)
Restored == thing = <<>> /\ thing' # <<>> => Alike(thing', last)
LoadRestores == [][Restored]_persistVars

============================================================================
