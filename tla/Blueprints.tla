----------------------------- MODULE Blueprints -----------------------------
(***************************************************************************)
(* Blueprints of NPCs and objects: NpcBP (src/mud/npcbp.cc), ObjectBP      *)
(* (objectbp.cc), and what an NPC takes from its blueprint (npc.cc).  The  *)
(* files are read node by node when the server starts; a builder may have  *)
(* written the nodes in any order and used an id twice.                    *)
(***************************************************************************)
EXTENDS Naturals, Sequences

CONSTANTS BlueprintIds,
          MaxBlueprints, MaxNodes  \* bounds on the files

Flagged == {"name", "dodge"}       \* of the fields with a flag in SetFlags
Fields  == Flagged \cup {"stat"}   \* no flag is ever set for the stats
Values  == 1 .. 2
Default == 0

VARIABLES heap,       \* every blueprint there is, in the order of reading
          blueprints, \* _MNpcBP::blueprints: id -> its place in heap, 0 for none
          reading,    \* whether the last of heap is still being read
          nodes,      \* nodes read of it
          failed,     \* initialize gave up
          npc         \* an NPC made: [blueprint, name, stat], or Nobody

blueprintsVars == <<heap, blueprints, reading, nodes, failed, npc>>

Nobody == [blueprint |-> 0, stat |-> Default]
Last == Len(heap)

BlueprintsInit ==
    /\ heap = <<>> /\ blueprints = [i \in BlueprintIds |-> 0]
    /\ reading = FALSE /\ nodes = 0 /\ failed = FALSE /\ npc = Nobody

(* new NpcBP()                                                             *)
Begin ==
    /\ ~reading /\ ~failed /\ Last < MaxBlueprints /\ npc = Nobody
    /\ heap' = Append(heap, [id |-> "", parent |-> 0, value |-> [f \in Fields |-> Default],
                             set |-> {}, given |-> [f \in Fields |-> Default]])
    /\ reading' = TRUE /\ nodes' = 0
    /\ UNCHANGED <<blueprints, failed, npc>>

Node == reading /\ nodes < MaxNodes /\ nodes' = nodes + 1 /\ UNCHANGED <<blueprints, reading, failed, npc>>

ReadId(i) == Node /\ heap' = [heap EXCEPT ![Last].id = i]

(* An attribute of its own: setName and the like note that it was set, the *)
(* stats do not.  `given' remembers what the file says.                    *)
ReadValue(f, v) ==
    /\ Node
    /\ heap' = [heap EXCEPT ![Last].value[f] = v, ![Last].given[f] = v,
                            ![Last].set = IF f \in Flagged THEN @ \cup {f} ELSE @]

(* Faulty: a new parent resets what was set.                               *)
MutRefresh(b, p) == [b EXCEPT !.parent = p, !.value = heap[p].value, !.set = {}]

(* setParent and refresh: all that is not set is taken from the parent.    *)
Refresh(b, p) ==
    [b EXCEPT !.parent = p,
              !.value = [f \in Fields |-> IF f \in b.set THEN b.value[f] ELSE heap[p].value[f]]]

(* A parent that is not known by now is only warned about.                 *)
ReadParent(i) ==
    /\ Node
    /\ heap' = IF blueprints[i] = 0 THEN heap
               ELSE [heap EXCEPT ![Last] = Refresh(@, blueprints[i])]

(* The end of a blueprint: it needs an id, and the last one of an id wins. *)
End ==
    /\ reading /\ reading' = FALSE /\ nodes' = 0
    /\ failed' = (heap[Last].id = "")
    /\ blueprints' = IF failed' THEN blueprints ELSE [blueprints EXCEPT ![heap[Last].id] = Last]
    /\ UNCHANGED <<heap, npc>>

(* A node no loader knows ends the reading of all files.                   *)
Unknown ==
    /\ reading /\ reading' = FALSE /\ failed' = TRUE
    /\ UNCHANGED <<heap, blueprints, nodes, npc>>

(* Npc::loadBlueprint, setBlueprint: the stats are copied, the rest is     *)
(* asked of the blueprint.                                                 *)
LoadNpc(i) ==
    /\ ~reading /\ ~failed /\ npc = Nobody /\ blueprints[i] # 0
    /\ npc' = [blueprint |-> blueprints[i], stat |-> heap[blueprints[i]].value["stat"]]
    /\ UNCHANGED <<heap, blueprints, reading, nodes, failed>>

BlueprintsNext ==
    \/ Begin \/ End \/ Unknown
    \/ \E i \in BlueprintIds : ReadId(i) \/ ReadParent(i) \/ LoadNpc(i)
    \/ \E f \in Fields, v \in Values : ReadValue(f, v)

BlueprintsSpec == BlueprintsInit /\ [][BlueprintsNext]_blueprintsVars

-----------------------------------------------------------------------------
(* isBlueprint, nameMatch, the equipment: b and its parents, as far as they*)
(* lead.                                                                   *)
Line(b) ==
    {a \in DOMAIN heap :
        \A S \in SUBSET DOMAIN heap :
            (b \in S /\ \A c \in S : heap[c].parent \in S \cup {0}) => a \in S}

(* The value of a field as the files read: that of the nearest blueprint   *)
(* of the line, the one read last, that gives one.                         *)
Givers(b, f) == {a \in Line(b) : heap[a].given[f] # Default}
Nearest(b, f) ==
    IF Givers(b, f) = {} THEN Default
    ELSE heap[CHOOSE a \in Givers(b, f) : \A c \in Givers(b, f) : c <= a].given[f]

(* What a blueprint has is what it or its nearest ancestor was given,      *)
(* wherever in its nodes the parent is named, and though an id is used     *)
(* again or a parent replaced (npcbp.cc:110-173); and the parents of a     *)
(* blueprint were all read before it, so that no walk up the chain goes    *)
(* round.                                                                  *)
InheritsNearest ==
    \A b \in DOMAIN heap :
        /\ heap[b].parent < b
        /\ \A f \in Flagged : heap[b].value[f] = Nearest(b, f)
=============================================================================
