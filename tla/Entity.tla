------------------------------- MODULE Entity -------------------------------
(***************************************************************************)
(* The entity store of src/mud/entity.cc: the life of every Entity and the *)
(* two intrusive doubly linked lists _MEntity keeps them on.  `all' holds  *)
(* the ACTIVE entities, `dead' everything else that is allocated, the      *)
(* freshly constructed FLOAT entities included.  tag_map indexes the       *)
(* active entities by tag.                                                 *)
(*                                                                         *)
(* The model is pointer level: link_next and link_prev are the members of  *)
(* the same name.  An entity's address is a member of Entities and may be  *)
(* used again after `delete'.  A heartbeat pass is not atomic: while       *)
(* cur->heartbeat() runs, the game code may construct, activate,           *)
(* deactivate and tag entities, the current one and any other.             *)
(***************************************************************************)
EXTENDS Integers, FiniteSets

CONSTANTS Entities,     \* addresses of Entity objects
          Tags,         \* TagIDs
          Null          \* the NULL pointer

ASSUME NullAssumption == Null \notin Entities

VARIABLES
    state,      \* Entity::state, "FREE" where no entity is allocated
    link_next,  \* Entity::link_next
    link_prev,  \* Entity::link_prev
    all,        \* _MEntity::all, head of the active list
    dead,       \* _MEntity::dead, head of the list of the others
    next,       \* _MEntity::next
    tags,       \* Entity::tags
    tag_map,    \* _MEntity::tag_map: how often <tag, entity> occurs in it
    pc,         \* what the main loop is doing with the store
    cur,        \* local variable of _MEntity::heartbeat
    hb_next,    \* local variable `next' of _MEntity::heartbeat
    beats,      \* history: heartbeats each entity got in this pass
    since,      \* history: active at the start of the pass and ever since
    intact      \* history: hb_next was never deactivated in this pass

lists == <<link_next, link_prev, all, dead>>
loop  == <<pc, cur, hb_next, beats>>
vars  == <<state, lists, next, tags, tag_map, loop, since, intact>>

Pointers  == Entities \cup {Null}
States    == {"FREE", "FLOAT", "ACTIVE", "DEAD"}
Allocated == {e \in Entities : state[e] # "FREE"}
Active    == {e \in Entities : state[e] = "ACTIVE"}
Inactive  == Allocated \ Active

-----------------------------------------------------------------------------
(* Pointer surgery on a pair of link maps nx, pv: each operator gives the  *)
(* value of one variable after the assignments.                            *)

(* e taken out from between its neighbours (entity.cc:60-65, 92-97).       *)
NextWithout(nx, pv, e) == [x \in Entities |-> IF x = pv[e] THEN nx[e] ELSE nx[x]]
PrevWithout(nx, pv, e) == [x \in Entities |-> IF x = nx[e] THEN pv[e] ELSE pv[x]]

(* Faulty: the head of the list an entity leaves is not moved on.          *)
MutHeadKept(nx, head, e) == head

HeadWithout(nx, head, e) == IF e = head THEN nx[e] ELSE head

(* e pushed in front of the list at head (entity.cc:26-30, 68-72, 100-104).*)
NextPushed(nx, e, head) == [nx EXCEPT ![e] = head]
PrevPushed(pv, e, head) ==
    [x \in Entities |-> IF x = e THEN Null ELSE IF x = head THEN e ELSE pv[x]]

(* tag_map after e registers, and after it unregisters, all of its tags.   *)
TagMapWith(e) ==
    [t \in Tags |-> IF t \in tags[e] THEN [tag_map[t] EXCEPT ![e] = @ + 1]
                                     ELSE tag_map[t]]
TagMapWithout(e) ==
    [t \in Tags |-> IF t \in tags[e] THEN [tag_map[t] EXCEPT ![e] = 0]
                                     ELSE tag_map[t]]

-----------------------------------------------------------------------------
Init ==
    /\ state = [e \in Entities |-> "FREE"]
    /\ link_next = [e \in Entities |-> Null]
    /\ link_prev = [e \in Entities |-> Null]
    /\ all = Null /\ dead = Null /\ next = Null
    /\ tags = [e \in Entities |-> {}]
    /\ tag_map = [t \in Tags |-> [e \in Entities |-> 0]]
    /\ pc = "run" /\ cur = Null /\ hb_next = Null
    /\ beats = [e \in Entities |-> 0]
    /\ since = {} /\ intact = TRUE

(* Game code runs while the sockets are polled ("run"), inside             *)
(* cur->heartbeat() ("beat") and while events are processed ("events").    *)
GameCode == pc \in {"run", "beat", "events"}

(* Entity::Entity.  No tags, front of the dead list.                       *)
Construct(e) ==
    /\ GameCode
    /\ state[e] = "FREE"
    /\ state' = [state EXCEPT ![e] = "FLOAT"]
    /\ link_next' = NextPushed(link_next, e, dead)
    /\ link_prev' = PrevPushed(link_prev, e, dead)
    /\ dead' = e
    /\ tags' = [tags EXCEPT ![e] = {}]
    /\ UNCHANGED <<all, next, tag_map, loop, since, intact>>

(* Faulty: activate lets any inactive entity in.                           *)
MutActivateAny(e) ==
    /\ GameCode
    /\ state[e] \in {"FLOAT", "DEAD"}
    /\ state' = [state EXCEPT ![e] = "ACTIVE"]
    /\ dead' = HeadWithout(link_next, dead, e)
    /\ link_next' = NextPushed(NextWithout(link_next, link_prev, e), e, all)
    /\ link_prev' = PrevPushed(PrevWithout(link_next, link_prev, e), e, all)
    /\ all' = e
    /\ tag_map' = TagMapWith(e)
    /\ UNCHANGED <<next, tags, loop, since, intact>>

(* Entity::activate.  The assert is the guard.                             *)
Activate(e) ==
    /\ GameCode
    /\ state[e] = "FLOAT"
    /\ state' = [state EXCEPT ![e] = "ACTIVE"]
    /\ dead' = HeadWithout(link_next, dead, e)
    /\ link_next' = NextPushed(NextWithout(link_next, link_prev, e), e, all)
    /\ link_prev' = PrevPushed(PrevWithout(link_next, link_prev, e), e, all)
    /\ all' = e
    /\ tag_map' = TagMapWith(e)
    /\ UNCHANGED <<next, tags, loop, since, intact>>

(* Entity::deactivate.  It repairs _MEntity::next, which no pass sets.     *)
Deactivate(e) ==
    /\ GameCode
    /\ state[e] = "ACTIVE"
    /\ state' = [state EXCEPT ![e] = "DEAD"]
    /\ next' = HeadWithout(link_next, next, e)
    /\ all' = HeadWithout(link_next, all, e)
    /\ link_next' = NextPushed(NextWithout(link_next, link_prev, e), e, dead)
    /\ link_prev' = PrevPushed(PrevWithout(link_next, link_prev, e), e, dead)
    /\ dead' = e
    /\ tag_map' = TagMapWithout(e)
    /\ since' = since \ {e}
    /\ intact' = (intact /\ e # hb_next)
    /\ UNCHANGED <<tags, loop>>

(* Entity::addTag; a tag already present changes nothing.                  *)
AddTag(e, t) ==
    /\ GameCode
    /\ e \in Allocated /\ t \notin tags[e]
    /\ tags' = [tags EXCEPT ![e] = @ \cup {t}]
    /\ tag_map' = IF state[e] = "ACTIVE"
                  THEN [tag_map EXCEPT ![t][e] = @ + 1] ELSE tag_map
    /\ UNCHANGED <<state, lists, next, loop, since, intact>>

(* Entity::removeTag.  It erases one entry of the map, if there is one.    *)
RemoveTag(e, t) ==
    /\ GameCode
    /\ e \in Allocated /\ t \in tags[e]
    /\ tags' = [tags EXCEPT ![e] = @ \ {t}]
    /\ tag_map' = IF state[e] = "ACTIVE" /\ tag_map[t][e] > 0
                  THEN [tag_map EXCEPT ![t][e] = @ - 1] ELSE tag_map
    /\ UNCHANGED <<state, lists, next, loop, since, intact>>

-----------------------------------------------------------------------------
(* _MEntity::heartbeat.  One turn of its loop reads the successor into the *)
(* local `next' before it calls the entity's own heartbeat.                *)
Beat(e) == cur' = e /\ hb_next' = link_next[e]

HeartbeatBegin ==
    /\ pc = "run" /\ all # Null
    /\ pc' = "beat"
    /\ Beat(all)
    /\ beats' = [beats EXCEPT ![all] = 1]
    /\ since' = Active
    /\ UNCHANGED <<state, lists, next, tags, tag_map, intact>>

(* Faulty: the successor is read after cur->heartbeat() has returned.      *)
MutStepReadsLate ==
    /\ pc = "beat" /\ link_next[cur] # Null
    /\ Beat(link_next[cur])
    /\ beats' = [beats EXCEPT ![link_next[cur]] = @ + 1]
    /\ UNCHANGED <<state, lists, next, tags, tag_map, pc, since, intact>>

(* cur->heartbeat() returns and the loop goes on ...                       *)
HeartbeatStep ==
    /\ pc = "beat" /\ hb_next # Null
    /\ Beat(hb_next)
    /\ beats' = [beats EXCEPT ![hb_next] = @ + 1]
    /\ UNCHANGED <<state, lists, next, tags, tag_map, pc, since, intact>>

(* ... or ends.  The history starts afresh.                                *)
HeartbeatEnd ==
    /\ pc = "beat" /\ hb_next = Null
    /\ pc' = "events" /\ cur' = Null
    /\ beats' = [e \in Entities |-> 0] /\ since' = {} /\ intact' = TRUE
    /\ UNCHANGED <<state, lists, next, tags, tag_map, hb_next>>

-----------------------------------------------------------------------------
(* _MEntity::collect, one action per turn of its loop.  The main loop      *)
(* calls it once per iteration, whether or not a heartbeat pass was due.   *)
CollectBegin ==
    /\ pc \in {"run", "events"}
    /\ pc' = "collect"
    /\ UNCHANGED <<state, lists, next, tags, tag_map, cur, hb_next, beats, since, intact>>

(* The head is unlinked and deleted; its members are gone.  A destructor   *)
(* releases the Lua table and leaves the player list, and touches no other *)
(* entity.                                                                 *)
CollectStep ==
    /\ pc \in {"collect", "shutdown"} /\ dead # Null
    /\ dead' = link_next[dead]
    /\ link_prev' = [x \in Entities |-> IF x = link_next[dead] THEN Null ELSE link_prev[x]]
    /\ state' = [state EXCEPT ![dead] = "FREE"]
    /\ link_next' = [link_next EXCEPT ![dead] = Null]
    /\ tags' = [tags EXCEPT ![dead] = {}]
    /\ UNCHANGED <<all, next, tag_map, loop, since, intact>>

(* Faulty: an iteration may leave some of the dead for a later one.        *)
MutCollectEndEarly ==
    /\ pc = "collect"
    /\ pc' = "run"
    /\ UNCHANGED <<state, lists, next, tags, tag_map, cur, hb_next, beats, since, intact>>

CollectEnd ==
    /\ pc = "collect" /\ dead = Null
    /\ pc' = "run"
    /\ UNCHANGED <<state, lists, next, tags, tag_map, cur, hb_next, beats, since, intact>>

(* _MEntity::shutdown, which runs after _MZone::shutdown has deactivated   *)
(* the whole world.                                                        *)
Shutdown ==
    /\ pc = "run" /\ all = Null
    /\ pc' = "shutdown"
    /\ tag_map' = [t \in Tags |-> [e \in Entities |-> 0]]
    /\ UNCHANGED <<state, lists, next, tags, cur, hb_next, beats, since, intact>>

(* The program ends once nothing is left to free.                          *)
Terminated ==
    /\ pc = "shutdown" /\ dead = Null
    /\ UNCHANGED vars

-----------------------------------------------------------------------------
Next ==
    \/ \E e \in Entities : Construct(e) \/ Activate(e) \/ Deactivate(e)
    \/ \E e \in Entities, t \in Tags : AddTag(e, t) \/ RemoveTag(e, t)
    \/ HeartbeatBegin \/ HeartbeatStep \/ HeartbeatEnd
    \/ CollectBegin \/ CollectStep \/ CollectEnd
    \/ Shutdown \/ Terminated

Spec == Init /\ [][Next]_vars

(* The process runs one thread: it always gets on with the pass or the     *)
(* collection it is in, and reaches a collection in every iteration.  Game *)
(* code itself is under no obligation.                                     *)
Fairness ==
    /\ WF_vars(HeartbeatStep) /\ WF_vars(HeartbeatEnd)
    /\ WF_vars(CollectBegin) /\ WF_vars(CollectStep) /\ WF_vars(CollectEnd)

FairSpec == Spec /\ Fairness

-----------------------------------------------------------------------------
(* Types of all variables.                                                 *)
TypeOK ==
    /\ state \in [Entities -> States]
    /\ link_next \in [Entities -> Pointers]
    /\ link_prev \in [Entities -> Pointers]
    /\ all \in Pointers /\ dead \in Pointers /\ next \in Pointers
    /\ tags \in [Entities -> SUBSET Tags]
    /\ tag_map \in [Tags -> [Entities -> Nat]]
    /\ pc \in {"run", "beat", "events", "collect", "shutdown"}
    /\ cur \in Pointers /\ hb_next \in Pointers
    /\ beats \in [Entities -> Nat]
    /\ since \in SUBSET Entities /\ intact \in BOOLEAN

(* The links of the members of S agree with each other, and only head has  *)
(* no predecessor.                                                         *)
Linked(nx, pv, head, S) ==
    /\ head # Null => head \in S /\ pv[head] = Null
    /\ \A e \in S :
         /\ nx[e] # Null => nx[e] \in S /\ pv[nx[e]] = e
         /\ pv[e] # Null => pv[e] \in S /\ nx[pv[e]] = e
         /\ pv[e] = Null => e = head

(* T holds whatever a walk along nx from head meets.                       *)
Walked(nx, head, T) ==
    /\ head # Null => head \in T
    /\ \A e \in T : nx[e] # Null => nx[e] \in T

(* A walk from head misses nothing of S.                                   *)
Reached(nx, head, S) == \A T \in SUBSET S : Walked(nx, head, T) => T = S

IsList(nx, pv, head, S) == Linked(nx, pv, head, S) /\ Reached(nx, head, S)

(* After any sequence of entity.cc's constructor, activate, deactivate and *)
(* collect, the two intrusive lists are intact doubly linked lists, `all'  *)
(* of exactly the active entities and `dead' of exactly the other          *)
(* allocated ones: nothing is on both lists, lost from both or unreachable *)
(* from the head that heartbeat and collect walk from.                     *)
ListsIntact ==
    /\ IsList(link_next, link_prev, all, Active)
    /\ IsList(link_next, link_prev, dead, Inactive)

(* tag_map (entity.cc:75, 106, 283, 301) lists every active entity exactly *)
(* once under each of its tags and nothing else, so a lookup by tag never  *)
(* returns an entity that is gone, and counts none twice.                  *)
TagMapExact ==
    \A t \in Tags, e \in Entities :
        tag_map[t][e] = IF e \in Active /\ t \in tags[e] THEN 1 ELSE 0

(* Whatever game code does inside a heartbeat, the two cursors of the pass *)
(* (entity.cc:365-371) never point to released memory.                     *)
CursorsAllocated ==
    pc = "beat" => cur \in Allocated /\ hb_next \in Allocated \cup {Null}

(* Lists, tag map and cursors together: whatever the store can reach is    *)
(* what it is meant to reach.                                              *)
StoreIntact == ListsIntact /\ TagMapExact /\ CursorsAllocated

(* If no heartbeat deactivates the entity the pass would go to next, then  *)
(* a pass (entity.cc:358-372) beats each entity that was active throughout *)
(* exactly once, and none that became active on the way.                   *)
PassExact ==
    pc = "beat" /\ hb_next = Null /\ intact =>
        \A e \in Active : beats[e] = IF e \in since THEN 1 ELSE 0

(* entity.cc:360-363 says of the pass: "keep track of the next entity to   *)
(* be run, so that entity destruction won't screw us up".  So every entity *)
(* active throughout a pass gets its heartbeat in it.                      *)
EveryLiveEntityBeats ==
    pc = "beat" /\ hb_next = Null => \A e \in since : beats[e] >= 1

(* Each entity follows the life cycle of entity.h:120-123: no step of the  *)
(* store revives a dead entity or frees an active one.                     *)
Life == INSTANCE Lifecycle
LifecycleKept == Life!Spec

(* Every entity that leaves the world is freed: the collection of some     *)
(* later iteration (entity.cc:384-399) finds it on the dead list.          *)
DeadIsFreed ==
    \A e \in Entities : state[e] = "DEAD" ~> state[e] = "FREE"
=============================================================================
