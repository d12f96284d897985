---------------------------- MODULE EntityProofs ----------------------------
(***************************************************************************)
(* Proofs about Entity for any set of addresses and tags.  The core is     *)
(* that the pointer surgery of entity.cc keeps both intrusive lists lists: *)
(* the lemmas about one list come first, then one lemma per action.        *)
(***************************************************************************)
EXTENDS Entity, TLAPS

Links == [Entities -> Pointers]

(* Pushing e in front of a list gives a list of one more element.          *)
LEMMA PushIsList ==
    ASSUME NEW nx \in Links, NEW pv \in Links, NEW head \in Pointers,
           NEW S \in SUBSET Entities, NEW e \in Entities, e \notin S,
           IsList(nx, pv, head, S)
    PROVE  IsList(NextPushed(nx, e, head), PrevPushed(pv, e, head), e, S \cup {e})
<1> DEFINE nx2 == NextPushed(nx, e, head)
           pv2 == PrevPushed(pv, e, head)
<1>1. /\ nx2[e] = head /\ \A x \in S : nx2[x] = nx[x]
      /\ pv2[e] = Null
      /\ \A x \in S : pv2[x] = IF x = head THEN e ELSE pv[x]
  BY NullAssumption DEF NextPushed, PrevPushed, Links
<1>2. Linked(nx, pv, head, S) /\ Reached(nx, head, S)
  BY DEF IsList
<1>3. Linked(nx2, pv2, e, S \cup {e})
  <2>1. head # Null => head \in S /\ pv2[head] = e
    BY <1>1, <1>2 DEF Linked
  <2>2. ASSUME NEW x \in S
        PROVE  /\ nx2[x] # Null => nx2[x] \in S /\ pv2[nx2[x]] = x
               /\ pv2[x] # Null => pv2[x] \in S \cup {e} /\ nx2[pv2[x]] = x
               /\ pv2[x] # Null
    <3>1. nx[x] # Null => nx[x] \in S /\ pv[nx[x]] = x /\ nx[x] # head
      BY <1>2, NullAssumption DEF Linked
    <3>2. nx2[x] # Null => nx2[x] \in S /\ pv2[nx2[x]] = x
      BY <3>1, <1>1
    <3>3. CASE x = head
      BY <3>3, <3>2, <1>1, NullAssumption
    <3>4. CASE x # head
      <4>1. pv[x] # Null /\ pv[x] \in S /\ nx[pv[x]] = x
        BY <3>4, <1>2 DEF Linked
      <4> QED BY <4>1, <3>4, <3>2, <1>1
    <3> QED BY <3>3, <3>4
  <2> QED BY <2>1, <2>2, <1>1, NullAssumption DEF Linked
<1>4. Reached(nx2, e, S \cup {e})
  <2> SUFFICES ASSUME NEW T \in SUBSET (S \cup {e}), Walked(nx2, e, T)
               PROVE  T = S \cup {e}
    BY DEF Reached
  <2>1. e \in T
    BY NullAssumption DEF Walked
  <2>2. head # Null => head \in T \ {e}
    BY <2>1, <1>1, <1>2 DEF Walked, Linked
  <2>3. ASSUME NEW x \in T \ {e}, nx[x] # Null
        PROVE  nx[x] \in T \ {e}
    BY <2>3, <1>1, <1>2 DEF Walked, Linked
  <2>4. T \ {e} = S
    BY <2>2, <2>3, <1>2 DEF Reached, Walked
  <2> QED BY <2>1, <2>4
<1> QED BY <1>3, <1>4 DEF IsList

(* Taking e out of a list leaves a list of the others.                     *)
LEMMA UnlinkIsList ==
    ASSUME NEW nx \in Links, NEW pv \in Links, NEW head \in Pointers,
           NEW S \in SUBSET Entities, NEW e \in S,
           IsList(nx, pv, head, S)
    PROVE  IsList(NextWithout(nx, pv, e), PrevWithout(nx, pv, e),
                  HeadWithout(nx, head, e), S \ {e})
<1> DEFINE nx2 == NextWithout(nx, pv, e)
           pv2 == PrevWithout(nx, pv, e)
           head2 == HeadWithout(nx, head, e)
<1>1. /\ \A x \in S : nx2[x] = IF x = pv[e] THEN nx[e] ELSE nx[x]
      /\ \A x \in S : pv2[x] = IF x = nx[e] THEN pv[e] ELSE pv[x]
  BY DEF NextWithout, PrevWithout
<1>2. Linked(nx, pv, head, S) /\ Reached(nx, head, S)
  BY DEF IsList
<1>3. nx[e] # e /\ pv[e] # e
  <2>1. nx[e] = e => e # head /\ Walked(nx, head, S \ {e})
    BY <1>2, NullAssumption DEF Linked, Walked
  <2>2. nx[e] # e
    BY <2>1, <1>2 DEF Reached
  <2> QED BY <2>2, <1>2, NullAssumption DEF Linked
<1>4. head2 # Null => head2 \in S \ {e} /\ pv2[head2] = Null
  <2>1. CASE e = head
    BY <2>1, <1>1, <1>2, <1>3, NullAssumption DEF Linked, HeadWithout
  <2>2. CASE e # head
    BY <2>2, <1>1, <1>2, <1>3, NullAssumption DEF Linked, HeadWithout
  <2> QED BY <2>1, <2>2
<1>5. ASSUME NEW x \in S \ {e}
      PROVE  /\ nx2[x] # Null => nx2[x] \in S \ {e} /\ pv2[nx2[x]] = x
             /\ pv2[x] # Null => pv2[x] \in S \ {e} /\ nx2[pv2[x]] = x
             /\ pv2[x] = Null => x = head2
  <2>1. /\ nx[x] # Null => nx[x] \in S /\ pv[nx[x]] = x
        /\ pv[x] # Null => pv[x] \in S /\ nx[pv[x]] = x
        /\ pv[x] = Null => x = head
        /\ nx[e] # Null => nx[e] \in S /\ pv[nx[e]] = e
        /\ pv[e] # Null => pv[e] \in S /\ nx[pv[e]] = e
        /\ pv[e] = Null => e = head
    BY <1>2 DEF Linked
  <2>2. nx2[x] # Null => nx2[x] \in S \ {e} /\ pv2[nx2[x]] = x
    BY <2>1, <1>1, <1>3, NullAssumption
  <2>3. pv2[x] # Null => pv2[x] \in S \ {e} /\ nx2[pv2[x]] = x
    BY <2>1, <1>1, <1>3, NullAssumption
  <2>4. pv2[x] = Null => x = head2
    BY <2>1, <1>1, <1>3, NullAssumption DEF HeadWithout
  <2> QED BY <2>2, <2>3, <2>4
<1>6. Linked(nx2, pv2, head2, S \ {e})
  BY <1>4, <1>5 DEF Linked
<1>7. Reached(nx2, head2, S \ {e})
  <2> SUFFICES ASSUME NEW T \in SUBSET (S \ {e}), Walked(nx2, head2, T)
               PROVE  T = S \ {e}
    BY DEF Reached
  <2>1. CASE pv[e] # Null /\ pv[e] \notin T
    <3>1. e # head
      BY <2>1, <1>2, NullAssumption DEF Linked
    <3>2. Walked(nx, head, T)
      BY <2>1, <3>1, <1>1 DEF Walked, HeadWithout
    <3> QED BY <3>2, <1>2 DEF Reached
  <2>2. CASE pv[e] = Null \/ pv[e] \in T
    <3>1. nx[e] # Null => nx[e] \in T
      <4>1. CASE pv[e] = Null
        BY <4>1, <1>2 DEF Linked, Walked, HeadWithout
      <4>2. CASE pv[e] \in T
        BY <4>2, <1>1 DEF Walked
      <4> QED BY <2>2, <4>1, <4>2
    <3>2. ASSUME NEW x \in T, nx[x] # Null
          PROVE  nx[x] \in T \cup {e}
      BY <3>2, <1>1, <1>2 DEF Walked, Linked
    <3>3. head # Null => head \in T \cup {e}
      BY DEF Walked, HeadWithout
    <3>4. Walked(nx, head, T \cup {e})
      BY <3>1, <3>2, <3>3 DEF Walked
    <3> QED BY <3>4, <1>2 DEF Reached
  <2> QED BY <2>1, <2>2
<1> QED BY <1>6, <1>7 DEF IsList

(* A list depends on the links of its own elements only.                   *)
LEMMA SameLinksIsList ==
    ASSUME NEW nx, NEW pv, NEW nx2, NEW pv2, NEW head, NEW S,
           \A x \in S : nx2[x] = nx[x] /\ pv2[x] = pv[x],
           IsList(nx, pv, head, S)
    PROVE  IsList(nx2, pv2, head, S)
<1>1. Linked(nx2, pv2, head, S)
  BY DEF IsList, Linked
<1>2. ASSUME NEW T \in SUBSET S
      PROVE  Walked(nx2, head, T) <=> Walked(nx, head, T)
  BY DEF Walked
<1> QED BY <1>1, <1>2 DEF IsList, Reached

(* activate and deactivate: e leaves the list at `from' for the front of   *)
(* the list at `to', and both remain lists.                                *)
LEMMA MoveIsList ==
    ASSUME NEW nx \in Links, NEW pv \in Links,
           NEW from \in Pointers, NEW A \in SUBSET Entities, NEW e \in A,
           NEW to \in Pointers, NEW B \in SUBSET Entities, A \cap B = {},
           IsList(nx, pv, from, A), IsList(nx, pv, to, B)
    PROVE  LET nx2 == NextPushed(NextWithout(nx, pv, e), e, to)
               pv2 == PrevPushed(PrevWithout(nx, pv, e), e, to)
           IN  /\ IsList(nx2, pv2, HeadWithout(nx, from, e), A \ {e})
               /\ IsList(nx2, pv2, e, B \cup {e})
<1> DEFINE nx1 == NextWithout(nx, pv, e)
           pv1 == PrevWithout(nx, pv, e)
           nx2 == NextPushed(nx1, e, to)
           pv2 == PrevPushed(pv1, e, to)
<1>1. nx1 \in Links /\ pv1 \in Links
  BY DEF NextWithout, PrevWithout, Links
<1>2. IsList(nx1, pv1, HeadWithout(nx, from, e), A \ {e})
  BY UnlinkIsList
<1>3. \A x \in B : nx1[x] = nx[x] /\ pv1[x] = pv[x]
  <2>1. /\ nx[e] # Null => nx[e] \in A
        /\ pv[e] # Null => pv[e] \in A
    BY DEF IsList, Linked
  <2> QED BY <2>1, NullAssumption DEF NextWithout, PrevWithout
<1>4. IsList(nx1, pv1, to, B)
  BY <1>3, SameLinksIsList
<1>5. IsList(nx2, pv2, e, B \cup {e})
  BY <1>1, <1>4, PushIsList
<1>6. \A x \in A \ {e} : nx2[x] = nx1[x] /\ pv2[x] = pv1[x]
  <2>1. to # Null => to \in B
    BY DEF IsList, Linked
  <2> QED BY <2>1, <1>1, NullAssumption DEF NextPushed, PrevPushed, Links
<1>7. IsList(nx2, pv2, HeadWithout(nx, from, e), A \ {e})
  BY <1>2, <1>6, SameLinksIsList
<1> QED BY <1>5, <1>7

-----------------------------------------------------------------------------
(* Outside a pass the cursor of the pass is idle.                          *)
CursorIdle == pc # "beat" => hb_next = Null

(* The inductive invariant.                                                *)
IInv == TypeOK /\ ListsIntact /\ TagMapExact /\ CursorsAllocated /\ CursorIdle

(* Every step of the store keeps its variables in their types.             *)
LEMMA TypeStep == TypeOK /\ [Next]_vars => TypeOK'
<1> SUFFICES ASSUME TypeOK, [Next]_vars PROVE TypeOK'
  OBVIOUS
<1> USE DEF TypeOK, Pointers, States
<1>1. ASSUME NEW e \in Entities, Construct(e) PROVE TypeOK'
  BY <1>1 DEF Construct, loop, NextPushed, PrevPushed
<1>2. ASSUME NEW e \in Entities, Activate(e) PROVE TypeOK'
  BY <1>2 DEF Activate, loop, NextPushed, PrevPushed, NextWithout,
              PrevWithout, HeadWithout, TagMapWith
<1>3. ASSUME NEW e \in Entities, Deactivate(e) PROVE TypeOK'
  BY <1>3 DEF Deactivate, loop, NextPushed, PrevPushed, NextWithout,
              PrevWithout, HeadWithout, TagMapWithout
<1>4. ASSUME NEW e \in Entities, NEW t \in Tags, AddTag(e, t) PROVE TypeOK'
  BY <1>4 DEF AddTag, lists, loop
<1>5. ASSUME NEW e \in Entities, NEW t \in Tags, RemoveTag(e, t) PROVE TypeOK'
  BY <1>5 DEF RemoveTag, lists, loop
<1>6. CASE HeartbeatBegin
  BY <1>6 DEF HeartbeatBegin, Beat, lists, Active
<1>7. CASE HeartbeatStep
  BY <1>7 DEF HeartbeatStep, Beat, lists
<1>8. CASE HeartbeatEnd
  BY <1>8 DEF HeartbeatEnd, lists
<1>9. CASE CollectBegin
  BY <1>9 DEF CollectBegin, lists
<1>10. CASE CollectStep
  BY <1>10 DEF CollectStep, loop
<1>11. CASE CollectEnd
  BY <1>11 DEF CollectEnd, lists
<1>12. CASE Shutdown
  BY <1>12 DEF Shutdown, lists
<1>13. CASE UNCHANGED vars
  BY <1>13 DEF vars, lists, loop
<1> QED BY <1>1, <1>2, <1>3, <1>4, <1>5, <1>6, <1>7, <1>8, <1>9, <1>10,
           <1>11, <1>12, <1>13 DEF Next, Terminated

(* Every step of the store keeps both intrusive lists intact.              *)
LEMMA ListsStep == TypeOK /\ ListsIntact /\ [Next]_vars => ListsIntact'
<1> SUFFICES ASSUME TypeOK, ListsIntact, [Next]_vars PROVE ListsIntact'
  OBVIOUS
<1>1. /\ link_next \in Links /\ link_prev \in Links
      /\ all \in Pointers /\ dead \in Pointers
      /\ Active \in SUBSET Entities /\ Inactive \in SUBSET Entities
      /\ Active \cap Inactive = {}
      /\ all # Null => all \in Active
      /\ dead # Null => dead \in Inactive
  BY DEF TypeOK, Links, Active, Inactive, Allocated, ListsIntact, IsList, Linked
<1>2. ASSUME NEW e \in Entities, Construct(e) PROVE ListsIntact'
  <2>1. e \notin Active /\ e \notin Inactive
    BY <1>2 DEF Construct, Active, Inactive, Allocated
  <2>2. Active' = Active /\ Inactive' = Inactive \cup {e}
    BY <1>2 DEF Construct, TypeOK, Active, Inactive, Allocated
  <2>3. IsList(link_next', link_prev', dead', Inactive')
    BY <1>1, <1>2, <2>1, <2>2, PushIsList DEF Construct, ListsIntact
  <2>4. \A x \in Active : link_next'[x] = link_next[x] /\ link_prev'[x] = link_prev[x]
    BY <1>1, <1>2, <2>1, NullAssumption DEF Construct, NextPushed, PrevPushed, Links
  <2>5. IsList(link_next', link_prev', all', Active')
    BY <1>2, <2>2, <2>4, SameLinksIsList DEF Construct, ListsIntact
  <2> QED BY <2>3, <2>5 DEF ListsIntact
<1>3. ASSUME NEW e \in Entities, Activate(e) PROVE ListsIntact'
  <2>1. e \in Inactive
    BY <1>3 DEF Activate, Active, Inactive, Allocated
  <2>2. Active' = Active \cup {e} /\ Inactive' = Inactive \ {e}
    BY <1>3 DEF Activate, TypeOK, Active, Inactive, Allocated
  <2>3. /\ IsList(link_next', link_prev', HeadWithout(link_next, dead, e), Inactive \ {e})
        /\ IsList(link_next', link_prev', e, Active \cup {e})
    BY <1>1, <1>3, <2>1, MoveIsList DEF Activate, ListsIntact
  <2> QED BY <1>3, <2>2, <2>3 DEF Activate, ListsIntact
<1>4. ASSUME NEW e \in Entities, Deactivate(e) PROVE ListsIntact'
  <2>1. e \in Active
    BY <1>4 DEF Deactivate, Active
  <2>2. Active' = Active \ {e} /\ Inactive' = Inactive \cup {e}
    BY <1>4 DEF Deactivate, TypeOK, Active, Inactive, Allocated
  <2>3. /\ IsList(link_next', link_prev', HeadWithout(link_next, all, e), Active \ {e})
        /\ IsList(link_next', link_prev', e, Inactive \cup {e})
    BY <1>1, <1>4, <2>1, MoveIsList DEF Deactivate, ListsIntact
  <2> QED BY <1>4, <2>2, <2>3 DEF Deactivate, ListsIntact
<1>5. CASE CollectStep
  <2> DEFINE e == dead
             nx1 == NextWithout(link_next, link_prev, e)
             pv1 == PrevWithout(link_next, link_prev, e)
  <2>1. e \in Inactive /\ link_prev[e] = Null
    BY <1>1, <1>5 DEF CollectStep, ListsIntact, IsList, Linked
  <2>2. Active' = Active /\ Inactive' = Inactive \ {e}
    BY <1>5, <2>1 DEF CollectStep, TypeOK, Active, Inactive, Allocated
  <2>3. IsList(nx1, pv1, HeadWithout(link_next, dead, e), Inactive \ {e})
    BY <1>1, <2>1, UnlinkIsList DEF ListsIntact
  <2>4. \A x \in Inactive \ {e} : link_next'[x] = nx1[x] /\ link_prev'[x] = pv1[x]
    BY <1>1, <1>5, <2>1, NullAssumption
       DEF CollectStep, NextWithout, PrevWithout, Links
  <2>5. IsList(link_next', link_prev', dead', Inactive')
    <3>1. dead' = HeadWithout(link_next, dead, e)
      BY <1>5 DEF CollectStep, HeadWithout
    <3>2. IsList(link_next', link_prev', HeadWithout(link_next, dead, e), Inactive \ {e})
      BY <2>3, <2>4, SameLinksIsList
    <3> QED BY <3>1, <3>2, <2>2
  <2>6. \A x \in Active : link_next'[x] = link_next[x] /\ link_prev'[x] = link_prev[x]
    <3>1. link_next[e] # Null => link_next[e] \in Inactive
      BY <2>1 DEF ListsIntact, IsList, Linked
    <3> QED BY <1>1, <1>5, <2>1, <3>1, NullAssumption DEF CollectStep, Links
  <2>7. IsList(link_next', link_prev', all', Active')
    <3>1. IsList(link_next', link_prev', all, Active)
      BY <2>6, SameLinksIsList DEF ListsIntact
    <3> QED BY <3>1, <2>2, <1>5 DEF CollectStep
  <2> QED BY <2>5, <2>7 DEF ListsIntact
<1>6. CASE UNCHANGED <<state, lists>>
  BY <1>6 DEF lists, ListsIntact, IsList, Linked, Reached, Walked, Active,
              Inactive, Allocated
<1> QED BY <1>2, <1>3, <1>4, <1>5, <1>6
        DEF Next, AddTag, RemoveTag, HeartbeatBegin, HeartbeatStep,
            HeartbeatEnd, CollectBegin, CollectEnd, Shutdown, Terminated, vars

(* Every step of the store keeps tag_map in step with the active entities. *)
LEMMA TagsStep == TypeOK /\ TagMapExact /\ ListsIntact /\ [Next]_vars => TagMapExact'
<1> SUFFICES ASSUME TypeOK, TagMapExact, ListsIntact, [Next]_vars PROVE TagMapExact'
  OBVIOUS
<1> USE DEF TypeOK, TagMapExact, Active
<1>1. ASSUME NEW e \in Entities, Construct(e) PROVE TagMapExact'
  BY <1>1 DEF Construct
<1>2. ASSUME NEW e \in Entities, Activate(e) PROVE TagMapExact'
  BY <1>2 DEF Activate, TagMapWith
<1>3. ASSUME NEW e \in Entities, Deactivate(e) PROVE TagMapExact'
  BY <1>3 DEF Deactivate, TagMapWithout
<1>4. ASSUME NEW e \in Entities, NEW t \in Tags, AddTag(e, t) PROVE TagMapExact'
  BY <1>4 DEF AddTag
<1>5. ASSUME NEW e \in Entities, NEW t \in Tags, RemoveTag(e, t) PROVE TagMapExact'
  BY <1>5 DEF RemoveTag
<1>6. CASE CollectStep
  <2>1. dead \in Entities /\ dead \notin Active
    BY <1>6 DEF CollectStep, ListsIntact, IsList, Linked, Inactive, Pointers
  <2> QED BY <1>6, <2>1 DEF CollectStep
<1>7. CASE Shutdown
  <2>1. Walked(link_next, all, {})
    BY <1>7 DEF Shutdown, Walked
  <2>2. {} \in SUBSET Active
    OBVIOUS
  <2>3. Active = {}
    BY <2>1, <2>2 DEF ListsIntact, IsList, Reached
  <2> QED BY <1>7, <2>3 DEF Shutdown
<1>8. CASE UNCHANGED <<state, tags, tag_map>>
  BY <1>8
<1> QED BY <1>1, <1>2, <1>3, <1>4, <1>5, <1>6, <1>7, <1>8
        DEF Next, HeartbeatBegin, HeartbeatStep, HeartbeatEnd, CollectBegin,
            CollectEnd, Terminated, vars

(* Every step of the store leaves the cursors of a pass on allocated       *)
(* entities, because nothing is freed during a pass and the successor of a *)
(* listed entity is listed.                                                *)
LEMMA CursorsStep ==
    TypeOK /\ ListsIntact /\ CursorsAllocated /\ CursorIdle /\ [Next]_vars
        => CursorsAllocated' /\ CursorIdle'
<1> SUFFICES ASSUME TypeOK, ListsIntact, CursorsAllocated, CursorIdle, [Next]_vars
             PROVE  CursorsAllocated' /\ CursorIdle'
  OBVIOUS
<1> USE DEF CursorsAllocated, CursorIdle, loop
<1>1. ASSUME NEW e \in Allocated PROVE link_next[e] \in Allocated \cup {Null}
  BY <1>1 DEF ListsIntact, IsList, Linked, Inactive, Active, Allocated
<1>2. ASSUME NEW e \in Entities, Construct(e) \/ Activate(e) \/ Deactivate(e)
      PROVE  CursorsAllocated' /\ CursorIdle'
  <2>1. Allocated \in SUBSET Allocated'
    BY <1>2 DEF Construct, Activate, Deactivate, Allocated, TypeOK
  <2> QED BY <1>2, <2>1 DEF Construct, Activate, Deactivate
<1>3. CASE HeartbeatBegin
  <2>1. all \in Allocated
    BY <1>3 DEF HeartbeatBegin, ListsIntact, IsList, Linked, Active, Allocated
  <2> QED BY <1>1, <1>3, <2>1 DEF HeartbeatBegin, Beat, Allocated
<1>4. CASE HeartbeatStep
  BY <1>1, <1>4 DEF HeartbeatStep, Beat, Allocated
<1>5. CASE HeartbeatEnd
  BY <1>5 DEF HeartbeatEnd
<1>6. CASE CollectBegin \/ CollectStep \/ CollectEnd \/ Shutdown
  BY <1>6 DEF CollectBegin, CollectStep, CollectEnd, Shutdown
<1>7. CASE UNCHANGED <<state, loop>>
  BY <1>7 DEF Allocated
<1> QED BY <1>2, <1>3, <1>4, <1>5, <1>6, <1>7
        DEF Next, AddTag, RemoveTag, Terminated, vars

(* An empty store satisfies the invariant.                                 *)
LEMMA InitIInv == Init => IInv
<1> SUFFICES ASSUME Init PROVE IInv
  OBVIOUS
<1>1. Active = {} /\ Inactive = {}
  BY DEF Init, Active, Inactive, Allocated
<1>2. ListsIntact
  BY <1>1 DEF Init, ListsIntact, IsList, Linked, Reached
<1>3. TypeOK
  BY DEF Init, TypeOK, Pointers, States
<1> QED BY <1>1, <1>2, <1>3 DEF Init, IInv, TagMapExact, CursorsAllocated, CursorIdle

(* IInv holds in every reachable state of the entity store.                *)
THEOREM Invariance == Spec => []IInv
<1>1. IInv /\ [Next]_vars => IInv'
  BY TypeStep, ListsStep, TagsStep, CursorsStep DEF IInv
<1> QED BY <1>1, InitIInv, PTL DEF Spec

(* The variables of entity.cc keep their types.                            *)
THEOREM TypeCorrect == Spec => []TypeOK
<1>1. IInv => TypeOK
  BY DEF IInv
<1> QED BY <1>1, Invariance, PTL

(* Whatever sequence of constructions, activations, deactivations and      *)
(* collections runs, inside a heartbeat or not, `all' and `dead' stay      *)
(* doubly linked lists that partition the allocated entities.              *)
THEOREM ListsCorrect == Spec => []ListsIntact
<1>1. IInv => ListsIntact
  BY DEF IInv
<1> QED BY <1>1, Invariance, PTL

(* A lookup in tag_map finds exactly the active entities with the tag.     *)
THEOREM TagMapCorrect == Spec => []TagMapExact
<1>1. IInv => TagMapExact
  BY DEF IInv
<1> QED BY <1>1, Invariance, PTL

(* A heartbeat pass never follows a pointer to released memory.            *)
THEOREM CursorsCorrect == Spec => []CursorsAllocated
<1>1. IInv => CursorsAllocated
  BY DEF IInv
<1> QED BY <1>1, Invariance, PTL

(* Lists, tag map and cursors reach exactly what they are meant to reach.  *)
THEOREM StoreCorrect == Spec => []StoreIntact
<1>1. IInv => StoreIntact
  BY DEF IInv, StoreIntact
<1> QED BY <1>1, Invariance, PTL

(* The store implements the life cycle of entity.h: every step moves each  *)
(* entity along at most one hop of Lifecycle.                              *)
THEOREM LifecycleCorrect == Spec => LifecycleKept
<1>1. Init => Life!Init
  BY DEF Init, Life!Init
<1>2. IInv /\ [Next]_vars => [Life!Next]_state
  <2> SUFFICES ASSUME IInv, [Next]_vars, state' # state PROVE Life!Next
    OBVIOUS
  <2>1. TypeOK'
    BY TypeStep DEF IInv
  <2>2. TypeOK /\ state \in [Entities -> States]
    BY DEF IInv, TypeOK
  <2> USE <2>1, <2>2 DEF TypeOK, States, Life!Next, Life!States, Life!Hop
  <2>3. ASSUME NEW e \in Entities, Construct(e) \/ Activate(e) \/ Deactivate(e)
        PROVE  Life!Next
    BY <2>3 DEF Construct, Activate, Deactivate
  <2>4. CASE CollectStep
    <3>1. dead \in Inactive
      BY <2>4 DEF CollectStep, IInv, ListsIntact, IsList, Linked
    <3> QED BY <2>4, <3>1 DEF CollectStep, Inactive, Allocated, Active
  <2> QED BY <2>3, <2>4
          DEF Next, AddTag, RemoveTag, HeartbeatBegin, HeartbeatStep,
              HeartbeatEnd, CollectBegin, CollectEnd, Shutdown, Terminated, vars
<1> QED BY <1>1, <1>2, Invariance, PTL DEF Spec, LifecycleKept, Life!Spec

-----------------------------------------------------------------------------
(* Segment(nx, pv, c, A): A is what a walk along nx from c meets, and c is *)
(* its first element.                                                      *)
Segment(nx, pv, c, A) ==
    /\ c # Null => c \in A /\ pv[c] \notin A
    /\ \A x \in A : nx[x] # Null => nx[x] \in A
    /\ Reached(nx, c, A)

(* The cursor moves on: the rest of a segment is the segment that starts   *)
(* at the successor.                                                       *)
LEMMA AdvanceSegment ==
    ASSUME NEW nx \in Links, NEW pv \in Links, NEW c \in Entities,
           NEW A \in SUBSET Entities, Segment(nx, pv, c, A),
           \A x \in A : nx[x] # Null => pv[nx[x]] = x
    PROVE  Segment(nx, pv, nx[c], A \ {c})
<1>1. c \in A /\ pv[c] \notin A
  BY NullAssumption DEF Segment
<1>2. nx[c] # Null => nx[c] \in A \ {c} /\ pv[nx[c]] = c
  BY <1>1 DEF Segment
<1>3. ASSUME NEW x \in A \ {c}, nx[x] # Null PROVE nx[x] \in A \ {c}
  BY <1>1, <1>3 DEF Segment
<1>4. ASSUME NEW T \in SUBSET (A \ {c}), Walked(nx, nx[c], T)
      PROVE  T = A \ {c}
  <2>1. Walked(nx, c, T \cup {c})
    BY <1>4 DEF Walked
  <2>2. T \cup {c} = A
    BY <1>1, <2>1 DEF Segment, Reached
  <2> QED BY <2>2
<1> QED BY <1>2, <1>3, <1>4 DEF Segment, Reached

(* An entity other than the cursor leaves the list: what is left of the    *)
(* segment is the segment of the repaired links.                           *)
LEMMA UnlinkSegment ==
    ASSUME NEW nx \in Links, NEW pv \in Links, NEW c \in Pointers,
           NEW A \in SUBSET Entities, Segment(nx, pv, c, A),
           NEW S \in SUBSET Entities, NEW head, Linked(nx, pv, head, S),
           A \in SUBSET S, NEW e \in S, e # c
    PROVE  Segment(NextWithout(nx, pv, e), PrevWithout(nx, pv, e), c, A \ {e})
<1> DEFINE nx2 == NextWithout(nx, pv, e)
           pv2 == PrevWithout(nx, pv, e)
<1>1. /\ \A x \in S : nx2[x] = IF x = pv[e] THEN nx[e] ELSE nx[x]
      /\ \A x \in S : pv2[x] = IF x = nx[e] THEN pv[e] ELSE pv[x]
  BY DEF NextWithout, PrevWithout
<1>2. \A x \in S : /\ nx[x] # Null => nx[x] \in S /\ pv[nx[x]] = x
                   /\ pv[x] # Null => pv[x] \in S /\ nx[pv[x]] = x
  BY DEF Linked
<1>3. e \in A => pv[e] \in A
  <2> SUFFICES ASSUME e \in A, pv[e] \notin A PROVE FALSE
    OBVIOUS
  <2>1. ASSUME NEW x \in A \ {e}, nx[x] # Null PROVE nx[x] \in A \ {e}
    <3>1. pv[nx[x]] = x
      BY <1>2, <2>1
    <3> QED BY <3>1, <2>1 DEF Segment
  <2>2. Walked(nx, c, A \ {e})
    BY <2>1 DEF Segment, Walked
  <2> QED BY <2>2 DEF Segment, Reached
<1>4. e \notin A => pv[e] \notin A
  <2> SUFFICES ASSUME pv[e] \in A PROVE e \in A
    OBVIOUS
  <2>1. pv[e] # Null /\ e # Null /\ nx[pv[e]] = e
    BY <1>2, NullAssumption
  <2> QED BY <2>1 DEF Segment
<1>5. c # Null => c \in A \ {e} /\ pv2[c] \notin A \ {e}
  BY <1>1, <1>2, <1>4 DEF Segment
<1>6. ASSUME NEW x \in A \ {e}, nx2[x] # Null PROVE nx2[x] \in A \ {e}
  <2>1. CASE x = pv[e]
    <3>1. e \in A /\ nx2[x] = nx[e]
      BY <2>1, <1>1, <1>4
    <3>2. nx[e] # e
      BY <3>1, <1>2, <1>6, <2>1, NullAssumption
    <3> QED BY <3>1, <3>2, <1>6 DEF Segment
  <2>2. CASE x # pv[e]
    <3>1. nx2[x] = nx[x] /\ pv[nx[x]] = x
      BY <2>2, <1>1, <1>2, <1>6
    <3>2. nx[x] \in A /\ nx[x] # e
      BY <3>1, <2>2, <1>6 DEF Segment
    <3> QED BY <3>1, <3>2
  <2> QED BY <2>1, <2>2
<1>7. ASSUME NEW T \in SUBSET (A \ {e}), Walked(nx2, c, T)
      PROVE  T = A \ {e}
  <2>1. CASE pv[e] \notin T
    <3>1. Walked(nx, c, T)
      BY <2>1, <1>1, <1>7 DEF Walked
    <3> QED BY <3>1 DEF Segment, Reached
  <2>2. CASE pv[e] \in T
    <3>1. e \in A
      BY <2>2, <1>4
    <3>2. nx[e] # Null => nx[e] \in T
      BY <2>2, <1>1, <1>7 DEF Walked
    <3>3. ASSUME NEW x \in T, nx[x] # Null PROVE nx[x] \in T \cup {e}
      <4>1. x \in S /\ nx2[x] # Null => nx2[x] \in T
        BY <1>7 DEF Walked
      <4>2. x = pv[e] => nx[x] = e
        BY <1>2, <4>1, NullAssumption
      <4> QED BY <4>1, <4>2, <3>3, <1>1
    <3>4. Walked(nx, c, T \cup {e})
      BY <3>2, <3>3, <1>7 DEF Walked
    <3>5. T \cup {e} = A
      BY <3>1, <3>4 DEF Segment, Reached
    <3> QED BY <3>5
  <2> QED BY <2>1, <2>2
<1> QED BY <1>5, <1>6, <1>7 DEF Segment, Reached

(* What a pass has still to beat, among the entities active throughout.    *)
Ahead == {e \in since : beats[e] = 0}

(* Between passes the histories are blank; since holds active entities.    *)
HistoryBlank ==
    /\ pc # "beat" => since = {} /\ intact /\ \A e \in Entities : beats[e] = 0
    /\ since \in SUBSET Active

(* As long as hb_next was never deactivated, the entities ahead are the    *)
(* part of the active list that a walk from hb_next meets, and no entity   *)
(* got a heartbeat that is not meant to.                                   *)
OnTrack ==
    /\ Segment(link_next, link_prev, hb_next, Ahead)
    /\ \A e \in Entities : state[e] \in {"FREE", "FLOAT"} => beats[e] = 0
    /\ \A e \in Active : beats[e] \in IF e \in since THEN {0, 1} ELSE {0}

PassInv == HistoryBlank /\ (pc = "beat" /\ intact => OnTrack)

(* A segment depends on the links of its own elements only.                *)
LEMMA SameLinksSegment ==
    ASSUME NEW nx, NEW pv, NEW nx2, NEW pv2, NEW c, NEW A,
           Segment(nx, pv, c, A),
           \A x \in A : nx2[x] = nx[x],
           c # Null => pv2[c] \notin A
    PROVE  Segment(nx2, pv2, c, A)
<1>1. \A T \in SUBSET A : Walked(nx2, c, T) <=> Walked(nx, c, T)
  BY DEF Walked
<1> QED BY <1>1 DEF Segment, Reached

(* Every step keeps the histories of the pass blank outside passes.        *)
LEMMA HistoryStep ==
    TypeOK /\ ListsIntact /\ CursorIdle /\ HistoryBlank /\ [Next]_vars => HistoryBlank'
<1> SUFFICES ASSUME TypeOK, ListsIntact, CursorIdle, HistoryBlank, [Next]_vars
             PROVE  HistoryBlank'
  OBVIOUS
<1> USE DEF HistoryBlank, loop, lists, Active, TypeOK
<1>1. ASSUME NEW e \in Entities, Construct(e) \/ Activate(e) PROVE HistoryBlank'
  BY <1>1 DEF Construct, Activate
<1>2. ASSUME NEW e \in Entities, Deactivate(e) PROVE HistoryBlank'
  <2>1. pc # "beat" => e # hb_next
    BY NullAssumption DEF CursorIdle
  <2> QED BY <1>2, <2>1 DEF Deactivate
<1>3. CASE HeartbeatBegin \/ HeartbeatStep \/ HeartbeatEnd
  BY <1>3 DEF HeartbeatBegin, HeartbeatStep, HeartbeatEnd
<1>4. CASE CollectStep
  <2>1. state[dead] # "ACTIVE"
    BY <1>4 DEF CollectStep, ListsIntact, IsList, Linked, Inactive, Allocated
  <2> QED BY <1>4, <2>1 DEF CollectStep
<1>5. CASE CollectBegin \/ CollectEnd \/ Shutdown
  BY <1>5 DEF CollectBegin, CollectEnd, Shutdown
<1>6. CASE UNCHANGED <<state, loop, since, intact>>
  BY <1>6
<1> QED BY <1>1, <1>2, <1>3, <1>4, <1>5, <1>6
        DEF Next, AddTag, RemoveTag, Terminated, vars

(* Every step keeps a pass on track.                                       *)
LEMMA OnTrackStep == IInv /\ PassInv /\ [Next]_vars => PassInv'
<1> SUFFICES ASSUME IInv, PassInv, [Next]_vars, pc' = "beat", intact'
             PROVE  OnTrack'
  BY HistoryStep DEF IInv, PassInv
<1>1. /\ link_next \in Links /\ link_prev \in Links /\ hb_next \in Pointers
      /\ all \in Pointers /\ dead \in Pointers
      /\ state \in [Entities -> States] /\ beats \in [Entities -> Nat]
      /\ Active \in SUBSET Entities /\ Inactive \in SUBSET Entities
      /\ since \in SUBSET Active /\ Ahead \in SUBSET since
      /\ CursorIdle
  BY DEF IInv, TypeOK, Links, Active, Inactive, Allocated, PassInv, HistoryBlank, Ahead
<1>2. /\ Linked(link_next, link_prev, all, Active)
      /\ Reached(link_next, all, Active)
      /\ Linked(link_next, link_prev, dead, Inactive)
  BY DEF IInv, ListsIntact, IsList
<1>3. pc = "beat" /\ intact => OnTrack
  BY DEF PassInv
<1>4. \A x \in Active : link_next[x] # Null => link_prev[link_next[x]] = x
  BY <1>2 DEF Linked
<1>5. ASSUME NEW e \in Entities, Construct(e) PROVE OnTrack'
  <2>1. pc = "beat" /\ intact /\ e \notin Active /\ Active' = Active
    BY <1>1, <1>5 DEF Construct, loop, Active
  <2>2. Ahead' = Ahead /\ hb_next' = hb_next /\ beats' = beats /\ since' = since
    BY <1>5 DEF Construct, loop, Ahead
  <2>3. \A x \in Active : link_next'[x] = link_next[x] /\ link_prev'[x] = link_prev[x]
    <3>1. dead \notin Active
      BY <1>2, NullAssumption DEF Linked, Inactive, Active
    <3> QED BY <1>1, <1>5, <2>1, <3>1 DEF Construct, NextPushed, PrevPushed, Links
  <2>4. Segment(link_next', link_prev', hb_next', Ahead')
    BY <1>1, <1>3, <2>1, <2>2, <2>3, SameLinksSegment DEF OnTrack, Segment
  <2> QED BY <1>1, <1>3, <1>5, <2>1, <2>2, <2>4 DEF OnTrack, Construct
<1>6. ASSUME NEW e \in Entities, Activate(e) PROVE OnTrack'
  <2>1. /\ pc = "beat" /\ intact /\ e \notin Active /\ e \in Inactive
        /\ Active' = Active \cup {e}
    BY <1>1, <1>6 DEF Activate, loop, Active, Inactive, Allocated
  <2>2. Ahead' = Ahead /\ hb_next' = hb_next /\ beats' = beats /\ since' = since
    BY <1>6 DEF Activate, loop, Ahead
  <2>3. \A x \in Active : /\ link_next'[x] = link_next[x]
                          /\ link_prev'[x] \in {link_prev[x], e}
    <3>1. \A x \in Active : x # link_prev[e] /\ x # link_next[e]
      BY <1>1, <1>2, <2>1, NullAssumption DEF Linked, Inactive
    <3> QED BY <1>1, <1>6, <2>1, <3>1
            DEF Activate, NextPushed, PrevPushed, NextWithout, PrevWithout, Links
  <2>4. Segment(link_next', link_prev', hb_next', Ahead')
    BY <1>1, <1>3, <2>1, <2>2, <2>3, SameLinksSegment DEF OnTrack, Segment
  <2>5. beats[e] = 0 /\ e \notin since
    BY <1>1, <1>3, <1>6, <2>1 DEF OnTrack, Activate
  <2> QED BY <1>1, <1>3, <1>6, <2>1, <2>2, <2>4, <2>5 DEF OnTrack, Activate
<1>7. ASSUME NEW e \in Entities, Deactivate(e) PROVE OnTrack'
  <2>1. /\ pc = "beat" /\ intact /\ e # hb_next /\ e \in Active
        /\ Active' = Active \ {e}
    BY <1>1, <1>7 DEF Deactivate, loop, Active
  <2>2. /\ Ahead' = Ahead \ {e} /\ since' = since \ {e}
        /\ hb_next' = hb_next /\ beats' = beats
    BY <1>7 DEF Deactivate, loop, Ahead
  <2> DEFINE nx1 == NextWithout(link_next, link_prev, e)
             pv1 == PrevWithout(link_next, link_prev, e)
  <2>3. Segment(nx1, pv1, hb_next, Ahead \ {e})
    BY <1>1, <1>2, <1>3, <2>1, UnlinkSegment DEF OnTrack
  <2>4. \A x \in Active \ {e} : link_next'[x] = nx1[x] /\ link_prev'[x] = pv1[x]
    <3>1. dead \notin Active
      BY <1>2, NullAssumption DEF Linked, Inactive, Active
    <3>2. nx1 \in Links /\ pv1 \in Links
      BY <1>1 DEF NextWithout, PrevWithout, Links
    <3> QED BY <1>1, <1>7, <2>1, <3>1, <3>2 DEF Deactivate, NextPushed, PrevPushed, Links
  <2>5. Segment(link_next', link_prev', hb_next', Ahead')
    BY <1>1, <2>2, <2>3, <2>4, SameLinksSegment DEF Segment
  <2> QED BY <1>1, <1>3, <1>7, <2>1, <2>2, <2>5 DEF OnTrack, Deactivate
<1>8. CASE HeartbeatBegin
  <2>1. /\ all \in Active /\ link_prev[all] = Null
        /\ pc = "run" /\ \A e \in Entities : beats[e] = 0
    BY <1>2, <1>8 DEF HeartbeatBegin, Linked, PassInv, HistoryBlank
  <2>2. /\ hb_next' = link_next[all] /\ since' = Active /\ Active' = Active
        /\ Ahead' = Active \ {all}
        /\ \A e \in Entities : beats'[e] = IF e = all THEN 1 ELSE 0
    BY <1>1, <1>8, <2>1 DEF HeartbeatBegin, Beat, Ahead, Active
  <2>3. Segment(link_next, link_prev, all, Active)
    BY <1>1, <1>2, <2>1, NullAssumption DEF Linked, Segment
  <2>4. Segment(link_next, link_prev, link_next[all], Active \ {all})
    BY <1>1, <1>4, <2>1, <2>3, AdvanceSegment
  <2>5. Segment(link_next', link_prev', hb_next', Ahead')
    BY <1>8, <2>2, <2>4 DEF HeartbeatBegin, lists
  <2> QED BY <1>8, <2>1, <2>2, <2>5 DEF OnTrack, HeartbeatBegin, Active
<1>9. CASE HeartbeatStep
  <2>1. pc = "beat" /\ intact /\ hb_next \in Ahead
    BY <1>3, <1>9 DEF HeartbeatStep, OnTrack, Segment
  <2>2. /\ hb_next' = link_next[hb_next] /\ since' = since /\ Active' = Active
        /\ Ahead' = Ahead \ {hb_next} /\ state' = state
        /\ \A e \in Entities : beats'[e] = IF e = hb_next THEN 1 ELSE beats[e]
    BY <1>1, <1>9, <2>1 DEF HeartbeatStep, Beat, Ahead, Active
  <2>3. Segment(link_next, link_prev, link_next[hb_next], Ahead \ {hb_next})
    BY <1>1, <1>3, <1>4, <2>1, AdvanceSegment DEF OnTrack
  <2>4. Segment(link_next', link_prev', hb_next', Ahead')
    BY <1>9, <2>2, <2>3 DEF HeartbeatStep, lists
  <2> QED BY <1>1, <1>3, <2>1, <2>2, <2>4 DEF OnTrack, Active, Ahead
<1>10. CASE HeartbeatEnd \/ CollectBegin \/ CollectStep \/ CollectEnd \/ Shutdown
  BY <1>10 DEF HeartbeatEnd, CollectBegin, CollectStep, CollectEnd, Shutdown, loop
<1>11. CASE UNCHANGED <<state, lists, loop, since, intact>>
  BY <1>3, <1>11 DEF lists, loop, OnTrack, Segment, Reached, Walked, Ahead, Active
<1> QED BY <1>5, <1>6, <1>7, <1>8, <1>9, <1>10, <1>11
        DEF Next, AddTag, RemoveTag, Terminated, vars

(* If no heartbeat deactivates the entity a pass would go to next, a pass  *)
(* beats every entity active throughout exactly once and no other: when    *)
(* the cursor has run off the list, nothing is ahead.                      *)
THEOREM PassCorrect == Spec => []PassExact
<1>1. Init => PassInv
  BY DEF Init, PassInv, HistoryBlank
<1>2. IInv /\ PassInv /\ [Next]_vars => PassInv'
  BY OnTrackStep
<1>3. PassInv => PassExact
  <2> SUFFICES ASSUME OnTrack, HistoryBlank, hb_next = Null
               PROVE  \A e \in Active : beats[e] = IF e \in since THEN 1 ELSE 0
    BY DEF PassInv, PassExact
  <2>1. Walked(link_next, hb_next, {})
    BY DEF Walked
  <2>2. Ahead = {}
    BY <2>1 DEF OnTrack, Segment, Reached
  <2> QED BY <2>2 DEF OnTrack, Ahead
<1> QED BY <1>1, <1>2, <1>3, Invariance, PTL DEF Spec
=============================================================================
