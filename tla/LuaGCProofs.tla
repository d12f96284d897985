---------------------------- MODULE LuaGCProofs ----------------------------
(***************************************************************************)
(* Proof that Lua's collector frees nothing the program can still get at   *)
(* (LuaGC's NoDangling), for any number of objects of every kind and any   *)
(* depth of the stacks.                                                    *)
(*                                                                         *)
(* The invariant GCIInv is about every object that is not dead, reachable  *)
(* or not: it holds only objects that are not dead (Kept), and what the    *)
(* sweep has passed is white (Swept).  While marking, no black object      *)
(* holds a white one and every gray one is listed to be visited (Marks).   *)
(*                                                                         *)
(* Marking is a least closed set (Reached); what it blackens and what it   *)
(* leaves gray is in Darkens, MarkKeeps and PropagateAllKeeps.  The atomic *)
(* step visits all that was listed (Fine), after which whatever is not     *)
(* white holds nothing white (Traced): the whites are exchanged, and what  *)
(* is dead from then on is held by the dead alone.  Of the program's steps *)
(* most are Calm: they make objects white or revive dead ones.  The write  *)
(* barriers, luaF_close and the sweep are followed one by one.             *)
(***************************************************************************)
EXTENDS LuaGC, TLAPS

-----------------------------------------------------------------------------
Whites == {"white0", "white1"}
Colours == Whites \cup {"free", "gray", "black"}
Kinds == {"table", "closure", "thread", "udata", "string", "upval"}
Phases == {"pause", "propagate", "sweepstring", "sweep", "finalize"}

GCTypeOK ==
    /\ kind \in [All -> Kinds]
    /\ colour \in [All -> Colours]
    /\ refs \in [All -> SUBSET All]
    /\ slot \in [All -> [Levels -> All \cup {Nothing}]]
    /\ place \in [All -> (All \X Levels) \cup {Nothing}]
    /\ weak \subseteq All /\ finalized \subseteq All
    /\ gcstate \in Phases /\ white \in Whites
    /\ gray \subseteq All /\ grayagain \subseteq All /\ weaklist \subseteq All
    /\ tmudata \subseteq All /\ pending \subseteq All
    /\ full \in {"no", "sweep", "mark"}

NonDead == {o \in Live : ~IsDead(o)}

(* Memory that is free has been wiped; only threads have a stack.          *)
FreeClean ==
    /\ \A o \in All : colour[o] = "free" => refs[o] = {} /\ place[o] = Nothing /\ o \notin weak
    /\ \A o \in All : colour[o] = "free" \/ kind[o] # "thread" => \A i \in Levels : slot[o][i] = Nothing

(* An open upvalue stands on the stack of a thread that is there.          *)
PlaceRight ==
    \A o \in All : place[o] # Nothing =>
        /\ kind[o] = "upval" /\ colour[o] # "free"
        /\ kind[place[o][1]] = "thread" /\ colour[place[o][1]] # "free"

KindsRight ==
    /\ kind[M] = "thread" /\ kind[G] = "table" /\ G \notin weak
    /\ \A o \in weak : kind[o] = "table"
    /\ \A o \in tmudata : kind[o] = "udata"
    /\ \A o \in All : kind[o] \in {"string", "thread"} \/ place[o] # Nothing => refs[o] = {}
    /\ \A o \in NonDead : kind[o] = "closure" => \A u \in refs[o] : kind[u] = "upval"

(* What is not about to be freed holds nothing that is.                    *)
Kept ==
    /\ M \in NonDead /\ G \in NonDead /\ tmudata \subseteq NonDead
    /\ \A o \in NonDead : Holds(o) \subseteq NonDead

(* What sweeping has passed is white, until marking begins.                *)
Swept ==
    /\ pending \subseteq Live \ Open
    /\ gcstate \notin {"sweepstring", "sweep"} => pending = {}
    /\ \A u \in Open : colour[u] # "black"
    /\ gcstate # "propagate" =>
          \A o \in Live \ (tmudata \cup pending) :
             (place[o] # Nothing => place[o][1] \notin pending) => colour[o] = white

(* Marking under way: nothing is dead; what is gray is listed, or it is a  *)
(* string or an open upvalue; what is black, but for X, holds nothing      *)
(* white outside S.                                                        *)
Lists(m) == m.gray \cup m.again \cup m.weak
MarkOK(m, X, S) ==
    /\ \A o \in All : m.colour[o] # Other(white) /\ (m.colour[o] = "free" <=> colour[o] = "free")
    /\ \A o \in {M, G} : IsWhite(m.colour, o) => o \in S
    /\ \A o \in Lists(m) : m.colour[o] \in {"gray", "black"} /\ kind[o] \in {"table", "closure", "thread"}
    /\ \A o \in All : m.colour[o] = "black" => kind[o] # "thread" /\ place[o] = Nothing
    /\ \A o \in All \ X : m.colour[o] = "gray" =>
          o \in Lists(m) \/ kind[o] = "string" \/ place[o] # Nothing
    /\ \A o \in All \ X : m.colour[o] = "black" => \A x \in Holds(o) : IsWhite(m.colour, x) => x \in S

Marks == gcstate = "propagate" => MarkOK(Marking, tmudata, {})

GCIInv == GCTypeOK /\ FreeClean /\ PlaceRight /\ KindsRight /\ Kept /\ Swept /\ Marks

-----------------------------------------------------------------------------
MarkType == [colour : [All -> Colours], gray : SUBSET All, again : SUBSET All, weak : SUBSET All]

LEMMA OtherWhite ==
    ASSUME NEW w \in Whites
    PROVE  Other(w) \in Whites /\ Other(w) # w /\ Other(Other(w)) = w
BY DEF Whites, Other

LEMMA HoldsType ==
    ASSUME GCTypeOK, NEW o \in All
    PROVE  Holds(o) \subseteq All /\ Strong(o) \subseteq Holds(o)
<1>1. ASSUME kind[o] = "upval", place[o] # Nothing  PROVE ValueOf(o) \subseteq All
  <2>1. place[o] \in All \X Levels
    BY <1>1 DEF GCTypeOK
  <2>2. place[o][1] \in All /\ place[o][2] \in Levels
    BY <2>1
  <2>3. slot[place[o][1]][place[o][2]] \in All \cup {Nothing}
    BY <2>2 DEF GCTypeOK
  <2> QED
    BY <1>1, <2>3 DEF ValueOf
<1>2. Stack(o) \subseteq All
  BY DEF GCTypeOK, Stack
<1>3. G \in All
  BY DEF All
<1>4. Holds(o) \subseteq All
  BY <1>1, <1>2, <1>3 DEF Holds, ValueOf, GCTypeOK
<1> QED
  BY <1>4 DEF Strong

LEMMA ReachedFacts ==
    ASSUME GCTypeOK, NEW S \in SUBSET All, NEW P, NEW c
    PROVE  /\ Reached(S, P, c) \subseteq All
           /\ \A x \in Reached(S, P, c) : IsWhite(c, x)
           /\ \A x \in S : IsWhite(c, x) => x \in Reached(S, P, c)
           /\ \A x \in Reached(S, P, c) \cap P : \A y \in Strong(x) :
                 IsWhite(c, y) => y \in Reached(S, P, c)
<1> DEFINE Closed(T) ==
        \A x \in S \cup UNION {Strong(y) : y \in T \cap P} : IsWhite(c, x) => x \in T
<1>1. Reached(S, P, c) = {o \in All : \A T \in SUBSET All : Closed(T) => o \in T}
  BY DEF Reached
<1>2. \A o \in All : Strong(o) \subseteq All
  BY HoldsType
<1>3. ASSUME NEW x \in Reached(S, P, c)  PROVE IsWhite(c, x)
  <2> DEFINE T == {o \in All : IsWhite(c, o)}
  <2>1. Closed(T)
    BY <1>2
  <2> QED
    BY <1>1, <1>3, <2>1
<1>4. ASSUME NEW x \in S, IsWhite(c, x)  PROVE x \in Reached(S, P, c)
  <2>1. \A T \in SUBSET All : Closed(T) => x \in T
    BY <1>4
  <2> QED
    BY <1>1, <1>4, <2>1
<1>5. ASSUME NEW x \in Reached(S, P, c) \cap P, NEW y \in Strong(x), IsWhite(c, y)
      PROVE  y \in Reached(S, P, c)
  <2>1. \A T \in SUBSET All : Closed(T) => x \in T
    BY <1>1
  <2>2. \A T \in SUBSET All : Closed(T) => y \in T
    BY <1>5, <2>1
  <2>3. y \in All
    BY <1>1, <1>2
  <2> QED
    BY <1>1, <2>2, <2>3
<1> QED
  BY <1>1, <1>3, <1>4, <1>5

(* What marking S does to a mark.                                          *)
Darkened(o) == IF kind[o] = "udata" \/ (kind[o] = "upval" /\ place[o] = Nothing) THEN "black" ELSE "gray"

Darkens(m, S, r) ==
    /\ r \in MarkType /\ r.again = m.again /\ r.weak = m.weak /\ m.gray \subseteq r.gray
    /\ \A o \in All :
          \/ r.colour[o] = m.colour[o]
          \/ /\ IsWhite(m.colour, o) /\ r.colour[o] = Darkened(o)
             /\ kind[o] \notin {"string", "udata", "upval"} => o \in r.gray
    /\ \A o \in r.gray \ m.gray :
          /\ kind[o] \notin {"string", "udata", "upval"}
          /\ IsWhite(m.colour, o) /\ r.colour[o] = "gray"
    /\ \A o \in S : ~IsWhite(r.colour, o)
    /\ \A o \in All : IsWhite(m.colour, o) /\ ~IsWhite(r.colour, o) /\ kind[o] \in {"udata", "upval"} =>
          \A y \in Strong(o) : ~IsWhite(r.colour, y)

LEMMA MarkFacts ==
    ASSUME GCTypeOK, NEW S \in SUBSET All, NEW m \in MarkType, NEW r, r = Mark(S, m)
    PROVE  Darkens(m, S, r)
<1> DEFINE P == {o \in All : kind[o] \in {"udata", "upval"}}
           R == Reached(S, P, m.colour)
<1>1. /\ R \subseteq All
      /\ \A x \in R : IsWhite(m.colour, x)
      /\ \A x \in S : IsWhite(m.colour, x) => x \in R
      /\ \A x \in R \cap P : \A y \in Strong(x) : IsWhite(m.colour, y) => y \in R
  BY ReachedFacts
<1>2. /\ r.colour = [o \in All |-> IF o \notin R THEN m.colour[o] ELSE Darkened(o)]
      /\ r.gray = m.gray \cup {o \in R : kind[o] \notin {"string", "udata", "upval"}}
      /\ r.again = m.again /\ r.weak = m.weak
      /\ r = [colour |-> r.colour, gray |-> r.gray, again |-> r.again, weak |-> r.weak]
  BY DEF Mark, MarkType, Darkened
<1> HIDE DEF R
<1>3. r.colour \in [All -> Colours]
  BY <1>2 DEF MarkType, Darkened, Colours, Whites
<1>4. r \in MarkType
  BY <1>1, <1>2, <1>3 DEF MarkType
<1>5. \A o \in All : o \in R <=> IsWhite(m.colour, o) /\ ~IsWhite(r.colour, o)
  BY <1>1, <1>2 DEF IsWhite, Darkened
<1>6. \A o \in S : ~IsWhite(r.colour, o)
  BY <1>1, <1>2, <1>5 DEF IsWhite
<1>7. ASSUME NEW o \in All, IsWhite(m.colour, o), ~IsWhite(r.colour, o), kind[o] \in {"udata", "upval"},
             NEW y \in Strong(o)
      PROVE  ~IsWhite(r.colour, y)
  <2>1. o \in R \cap P
    BY <1>5, <1>7
  <2>2. IsWhite(m.colour, y) => y \in R
    BY <1>1, <2>1
  <2>3. y \in All
    BY HoldsType
  <2> QED
    BY <1>2, <1>5, <2>2, <2>3 DEF IsWhite
<1>8. ASSUME NEW o \in All
      PROVE  \/ r.colour[o] = m.colour[o]
             \/ /\ IsWhite(m.colour, o) /\ r.colour[o] = Darkened(o)
                /\ kind[o] \notin {"string", "udata", "upval"} => o \in r.gray
  BY <1>1, <1>2
<1>9. ASSUME NEW o \in r.gray \ m.gray
      PROVE  /\ kind[o] \notin {"string", "udata", "upval"}
             /\ IsWhite(m.colour, o) /\ r.colour[o] = "gray"
  BY <1>1, <1>2 DEF Darkened
<1> QED
  BY <1>2, <1>4, <1>6, <1>7, <1>8, <1>9 DEF Darkens

(* What visiting everything gray, and all that is reached from it, does.   *)
LEMMA PropagateAllFacts ==
    ASSUME GCTypeOK, NEW m \in MarkType, NEW r, r = PropagateAll(m)
    PROVE  /\ r \in MarkType /\ r.gray = {}
           /\ \E V \in SUBSET All :
                 /\ m.gray \subseteq V
                 /\ \A o \in V \ m.gray : IsWhite(m.colour, o)
                 /\ \A o \in All \ V : r.colour[o] = m.colour[o]
                 /\ \A o \in V : r.colour[o] = IF StaysGray(o) THEN "gray" ELSE "black"
                 /\ r.again = m.again \cup {o \in V : kind[o] = "thread"}
                 /\ r.weak = m.weak \cup (V \cap weak)
                 /\ \A o \in V : \A y \in Strong(o) : ~IsWhite(r.colour, y)
<1> DEFINE S == UNION {Strong(o) : o \in m.gray}
           R == Reached(S, All, m.colour)
           V == m.gray \cup R
<1>1. m.gray \subseteq All
  BY DEF MarkType
<1>2. S \in SUBSET All
  BY <1>1, HoldsType
<1>3. /\ R \subseteq All
      /\ \A x \in R : IsWhite(m.colour, x)
      /\ \A x \in S : IsWhite(m.colour, x) => x \in R
      /\ \A x \in R \cap All : \A y \in Strong(x) : IsWhite(m.colour, y) => y \in R
  BY <1>2, ReachedFacts
<1>4. /\ r.colour = [o \in All |-> IF o \notin V THEN m.colour[o] ELSE IF StaysGray(o) THEN "gray" ELSE "black"]
      /\ r.gray = {} /\ r.again = m.again \cup {o \in V : kind[o] = "thread"}
      /\ r.weak = m.weak \cup (V \cap weak)
      /\ r = [colour |-> r.colour, gray |-> r.gray, again |-> r.again, weak |-> r.weak]
  BY DEF PropagateAll
<1>5. ASSUME NEW o \in V, NEW y \in Strong(o)  PROVE ~IsWhite(r.colour, y)
  <2>1. IsWhite(m.colour, y) => y \in R
    BY <1>3
  <2>2. y \in All
    BY <1>1, <1>3, HoldsType
  <2> QED
    BY <1>4, <2>1, <2>2 DEF IsWhite
<1> HIDE DEF R
<1>6. V \subseteq All /\ m.gray \subseteq V /\ \A o \in V \ m.gray : IsWhite(m.colour, o)
  BY <1>1, <1>3
<1> HIDE DEF V
<1>7. r.colour \in [All -> Colours]
  BY <1>4 DEF MarkType, Colours, Whites
<1>8. r \in MarkType
  BY <1>4, <1>6, <1>7 DEF MarkType
<1> QED
  BY <1>4, <1>5, <1>6, <1>8

(* Marking what is left white of what black objects hold, S, settles it.   *)
LEMMA MarkKeeps ==
    ASSUME GCTypeOK, PlaceRight, KindsRight, NEW S \in SUBSET All, NEW X, NEW m \in MarkType,
           MarkOK(m, X, S), NEW r, r = Mark(S, m)
    PROVE  MarkOK(r, X, {}) /\ \A o \in All : IsWhite(r.colour, o) => IsWhite(m.colour, o)
<1>1. /\ r \in MarkType /\ r.again = m.again /\ r.weak = m.weak /\ m.gray \subseteq r.gray
      /\ \A o \in All :
           \/ r.colour[o] = m.colour[o]
           \/ /\ IsWhite(m.colour, o) /\ r.colour[o] = Darkened(o)
              /\ kind[o] \notin {"string", "udata", "upval"} => o \in r.gray
      /\ \A o \in r.gray \ m.gray :
           /\ kind[o] \notin {"string", "udata", "upval"}
           /\ IsWhite(m.colour, o) /\ r.colour[o] = "gray"
      /\ \A o \in S : ~IsWhite(r.colour, o)
      /\ \A o \in All : IsWhite(m.colour, o) /\ ~IsWhite(r.colour, o) /\ kind[o] \in {"udata", "upval"} =>
           \A y \in Strong(o) : ~IsWhite(r.colour, y)
  <2>1. Darkens(m, S, r)
    BY MarkFacts
  <2> QED
    BY <2>1 DEF Darkens
<1>2. \A o \in All : Darkened(o) \in {"gray", "black"}
  BY DEF Darkened
<1>3. \A o \in All : IsWhite(r.colour, o) => IsWhite(m.colour, o) /\ r.colour[o] = m.colour[o]
  BY <1>1, <1>2 DEF IsWhite
<1>4. ASSUME NEW o \in All
      PROVE  r.colour[o] # Other(white) /\ (r.colour[o] = "free" <=> colour[o] = "free")
  <2>1. m.colour[o] # Other(white) /\ (m.colour[o] = "free" <=> colour[o] = "free")
    BY DEF MarkOK
  <2>2. Other(white) \in Whites
    BY OtherWhite DEF GCTypeOK
  <2> QED
    BY <1>1, <1>2, <2>1, <2>2 DEF IsWhite, Whites
<1>5. \A o \in {M, G} : IsWhite(r.colour, o) => o \in {}
  BY <1>1, <1>3 DEF MarkOK, All
<1>6. ASSUME NEW o \in Lists(r)
      PROVE  r.colour[o] \in {"gray", "black"} /\ kind[o] \in {"table", "closure", "thread"}
  <2>1. CASE o \in Lists(m)
    <3>1. o \in All
      BY <2>1 DEF Lists, MarkType
    <3>2. m.colour[o] \in {"gray", "black"} /\ kind[o] \in {"table", "closure", "thread"}
      BY <2>1 DEF MarkOK
    <3> QED
      BY <1>1, <3>1, <3>2 DEF IsWhite
  <2>2. CASE o \in r.gray \ m.gray
    BY <1>1, <2>2 DEF GCTypeOK, Kinds, MarkType
  <2> QED
    BY <1>1, <2>1, <2>2 DEF Lists
<1>7. ASSUME NEW o \in All, r.colour[o] = "black"  PROVE kind[o] # "thread" /\ place[o] = Nothing
  BY <1>1, <1>7 DEF MarkOK, Darkened, PlaceRight
<1>8. ASSUME NEW o \in All \ X, r.colour[o] = "gray"
      PROVE  o \in Lists(r) \/ kind[o] = "string" \/ place[o] # Nothing
  BY <1>1, <1>8 DEF MarkOK, Darkened, Lists
<1>9. ASSUME NEW o \in All \ X, r.colour[o] = "black", NEW x \in Holds(o)
      PROVE  IsWhite(r.colour, x) => x \in {}
  <2>1. x \in All
    BY HoldsType
  <2>2. CASE m.colour[o] = "black"
    BY <1>1, <1>3, <2>1, <2>2 DEF MarkOK
  <2>3. CASE m.colour[o] # "black"
    <3>1. IsWhite(m.colour, o) /\ ~IsWhite(r.colour, o) /\ kind[o] \in {"udata", "upval"}
      BY <1>1, <1>9, <2>3 DEF Darkened, IsWhite
    <3>2. Strong(o) = Holds(o)
      BY <3>1 DEF Strong, KindsRight
    <3> QED
      BY <1>1, <3>1, <3>2
  <2> QED
    BY <2>2, <2>3
<1>10. MarkOK(r, X, {})
  BY <1>4, <1>5, <1>6, <1>7, <1>8, <1>9 DEF MarkOK
<1> QED
  BY <1>3, <1>10

(* Visiting everything gray.                                               *)
LEMMA PropagateAllKeeps ==
    ASSUME GCTypeOK, PlaceRight, KindsRight, NEW X, NEW m \in MarkType,
           MarkOK(m, X, {}), NEW r, r = PropagateAll(m)
    PROVE  MarkOK(r, X, {}) /\ \A o \in All : IsWhite(r.colour, o) => IsWhite(m.colour, o)
<1>1. r \in MarkType /\ r.gray = {}
  BY PropagateAllFacts
<1>2. PICK V \in SUBSET All :
           /\ m.gray \subseteq V
           /\ \A o \in V \ m.gray : IsWhite(m.colour, o)
           /\ \A o \in All \ V : r.colour[o] = m.colour[o]
           /\ \A o \in V : r.colour[o] = IF StaysGray(o) THEN "gray" ELSE "black"
           /\ r.again = m.again \cup {o \in V : kind[o] = "thread"}
           /\ r.weak = m.weak \cup (V \cap weak)
           /\ \A o \in V : \A y \in Strong(o) : ~IsWhite(r.colour, y)
  BY PropagateAllFacts
<1>3. \A o \in V : r.colour[o] \in {"gray", "black"}
  BY <1>2
<1>4. \A o \in All : IsWhite(r.colour, o) => IsWhite(m.colour, o)
  BY <1>2, <1>3 DEF IsWhite
<1>5. \A o \in m.gray : m.colour[o] \in {"gray", "black"}
  BY DEF MarkOK, Lists
<1>6. ASSUME NEW o \in All
      PROVE  r.colour[o] # Other(white) /\ (r.colour[o] = "free" <=> colour[o] = "free")
  <2>1. m.colour[o] # Other(white) /\ (m.colour[o] = "free" <=> colour[o] = "free")
    BY DEF MarkOK
  <2>2. Other(white) \in Whites
    BY OtherWhite DEF GCTypeOK
  <2>3. CASE o \in V
    <3>1. m.colour[o] # "free"
      BY <1>2, <1>5, <2>3 DEF IsWhite
    <3> QED
      BY <1>3, <2>1, <2>2, <2>3, <3>1 DEF Whites
  <2> QED
    BY <1>2, <2>1, <2>3
<1>7. \A o \in {M, G} : IsWhite(r.colour, o) => o \in {}
  BY <1>4 DEF MarkOK, All
<1>8. ASSUME NEW o \in Lists(r)
      PROVE  r.colour[o] \in {"gray", "black"} /\ kind[o] \in {"table", "closure", "thread"}
  <2>1. CASE o \in Lists(m)
    <3>1. o \in All
      BY <2>1 DEF Lists, MarkType
    <3> QED
      BY <1>2, <1>3, <2>1, <3>1 DEF MarkOK
  <2>2. CASE o \in V /\ kind[o] = "thread"
    BY <1>3, <2>2
  <2>3. CASE o \in V \cap weak
    BY <1>3, <2>3 DEF KindsRight
  <2> QED
    BY <1>1, <1>2, <2>1, <2>2, <2>3 DEF Lists
<1>9. ASSUME NEW o \in All, r.colour[o] = "black"  PROVE kind[o] # "thread" /\ place[o] = Nothing
  BY <1>2, <1>9 DEF MarkOK, StaysGray
<1>10. ASSUME NEW o \in All \ X, r.colour[o] = "gray"
       PROVE  o \in Lists(r) \/ kind[o] = "string" \/ place[o] # Nothing
  <2>1. CASE o \in V
    BY <1>2, <1>10, <2>1 DEF StaysGray, Lists
  <2>2. CASE o \notin V
    BY <1>2, <1>10, <2>2 DEF MarkOK, Lists
  <2> QED
    BY <2>1, <2>2
<1>11. ASSUME NEW o \in All \ X, r.colour[o] = "black", NEW x \in Holds(o)
       PROVE  IsWhite(r.colour, x) => x \in {}
  <2>1. x \in All
    BY HoldsType
  <2>2. CASE o \in V
    <3>1. Strong(o) = Holds(o)
      BY <1>2, <1>11, <2>2 DEF Strong, StaysGray
    <3> QED
      BY <1>2, <2>2, <3>1
  <2>3. CASE o \notin V
    BY <1>2, <1>4, <1>11, <2>1, <2>3 DEF MarkOK
  <2> QED
    BY <2>2, <2>3
<1>12. MarkOK(r, X, {})
  BY <1>6, <1>7, <1>8, <1>9, <1>10, <1>11 DEF MarkOK
<1> QED
  BY <1>4, <1>12

(* Visiting one gray object.                                               *)
LEMMA PropagateKeeps ==
    ASSUME GCTypeOK, PlaceRight, KindsRight, NEW X, NEW m \in MarkType,
           MarkOK(m, X, {}), NEW o \in m.gray, NEW r, r = Propagate(o, m)
    PROVE  r \in MarkType /\ MarkOK(r, X, {})
<1>1. o \in All /\ o \in Lists(m) /\ m.colour[o] \in {"gray", "black"} /\ kind[o] \in {"table", "closure", "thread"}
  BY DEF MarkType, MarkOK, Lists
<1>2. Strong(o) \in SUBSET All
  BY <1>1, HoldsType
<1> DEFINE taken == [m EXCEPT !.gray = @ \ {o}]
<1>3. /\ taken \in MarkType /\ taken.colour = m.colour /\ taken.gray = m.gray \ {o}
      /\ taken.again = m.again /\ taken.weak = m.weak
  BY DEF MarkType
<1> HIDE DEF taken
<1>4. CASE kind[o] = "thread"
  <2> DEFINE t == [taken EXCEPT !.again = @ \cup {o}]
  <2>1. /\ t \in MarkType /\ t.colour = m.colour /\ t.gray = m.gray \ {o}
        /\ t.again = m.again \cup {o} /\ t.weak = m.weak
    BY <1>1, <1>3 DEF MarkType
  <2>2. r = Mark(Strong(o), t)
    <3>1. o \notin weak
      BY <1>4 DEF KindsRight
    <3> QED
      BY <1>4, <3>1 DEF Propagate, taken
  <2> HIDE DEF t
  <2>3. Lists(t) = Lists(m)
    BY <1>1, <2>1 DEF Lists
  <2>4. MarkOK(t, X, Strong(o))
    BY <2>1, <2>3 DEF MarkOK
  <2>5. Darkens(t, Strong(o), r)
    BY <1>2, <2>1, <2>2, MarkFacts
  <2>6. MarkOK(r, X, {})
    BY <1>2, <2>1, <2>2, <2>4, MarkKeeps
  <2> QED
    BY <2>5, <2>6 DEF Darkens
<1>5. CASE kind[o] # "thread" /\ o \in weak
  <2>1. r = [taken EXCEPT !.weak = @ \cup {o}]
    BY <1>5 DEF Propagate, taken
  <2>2. /\ r \in MarkType /\ r.colour = m.colour /\ r.gray = m.gray \ {o}
        /\ r.again = m.again /\ r.weak = m.weak \cup {o}
    BY <1>1, <1>3, <2>1 DEF MarkType
  <2>3. Lists(r) = Lists(m)
    BY <1>1, <2>2 DEF Lists
  <2>4. MarkOK(r, X, {})
    BY <2>2, <2>3 DEF MarkOK
  <2> QED
    BY <2>2, <2>4
<1>6. CASE kind[o] # "thread" /\ o \notin weak
  <2> DEFINE t == [taken EXCEPT !.colour[o] = "black"]
  <2>1. /\ t.colour = [m.colour EXCEPT ![o] = "black"] /\ t.gray = m.gray \ {o}
        /\ t.again = m.again /\ t.weak = m.weak
    BY <1>1, <1>3 DEF MarkType
  <2>2. t.colour \in [All -> Colours]
    <3>1. m.colour \in [All -> Colours]
      BY DEF MarkType
    <3>2. "black" \in Colours
      BY DEF Colours
    <3> QED
      BY <2>1, <3>1, <3>2
  <2>3. t \in MarkType
    BY <1>1, <1>3, <2>1, <2>2 DEF MarkType
  <2>4. r = Mark(Strong(o), t)
    BY <1>6 DEF Propagate, taken
  <2> HIDE DEF t
  <2>5. t.colour[o] = "black" /\ \A x \in All \ {o} : t.colour[x] = m.colour[x]
    BY <1>1, <2>1 DEF MarkType
  <2>6. Strong(o) = Holds(o)
    BY <1>6 DEF Strong
  <2>7. ASSUME NEW x \in All
        PROVE  t.colour[x] # Other(white) /\ (t.colour[x] = "free" <=> colour[x] = "free")
    BY <1>1, <2>5, OtherWhite DEF MarkOK, GCTypeOK, Whites
  <2>8. \A x \in {M, G} : IsWhite(t.colour, x) => x \in Strong(o)
    BY <2>5 DEF MarkOK, IsWhite, All
  <2>9. ASSUME NEW x \in Lists(t)
        PROVE  t.colour[x] \in {"gray", "black"} /\ kind[x] \in {"table", "closure", "thread"}
    <3>1. x \in Lists(m) /\ x \in All
      BY <2>1 DEF Lists, MarkType
    <3> QED
      BY <2>5, <3>1 DEF MarkOK
  <2>10. ASSUME NEW x \in All, t.colour[x] = "black"  PROVE kind[x] # "thread" /\ place[x] = Nothing
    BY <1>1, <1>6, <2>5, <2>10 DEF MarkOK, PlaceRight
  <2>11. ASSUME NEW x \in All \ X, t.colour[x] = "gray"
         PROVE  x \in Lists(t) \/ kind[x] = "string" \/ place[x] # Nothing
    <3>1. x # o
      BY <2>5, <2>11
    <3>2. m.colour[x] = "gray"
      BY <2>5, <2>11, <3>1
    <3>3. x \in Lists(m) \/ kind[x] = "string" \/ place[x] # Nothing
      BY <3>2 DEF MarkOK
    <3> QED
      BY <2>1, <3>1, <3>3 DEF Lists
  <2>12. ASSUME NEW x \in All \ X, t.colour[x] = "black", NEW y \in Holds(x), IsWhite(t.colour, y)
         PROVE  y \in Strong(o)
    <3>1. y \in All /\ IsWhite(m.colour, y)
      BY <2>5, <2>12, HoldsType DEF IsWhite
    <3>2. CASE x = o
      BY <2>6, <3>2
    <3>3. CASE x # o
      BY <2>5, <2>12, <3>1, <3>3 DEF MarkOK
    <3> QED
      BY <3>2, <3>3
  <2>13. MarkOK(t, X, Strong(o))
    BY <2>7, <2>8, <2>9, <2>10, <2>11, <2>12 DEF MarkOK
  <2>14. Darkens(t, Strong(o), r)
    BY <1>2, <2>3, <2>4, MarkFacts
  <2>15. MarkOK(r, X, {})
    BY <1>2, <2>3, <2>4, <2>13, MarkKeeps
  <2> QED
    BY <2>14, <2>15 DEF Darkens
<1> QED
  BY <1>4, <1>5, <1>6

(* The end of marking.  Of open upvalues too, which the program writes to  *)
(* without a barrier, what is marked now holds nothing white.              *)
Settled(m, o) == \A y \in Holds(o) : ~IsWhite(m.colour, y)
OpenSettled(m) == \A u \in Open : ~IsWhite(m.colour, u) => Settled(m, u)
Fine(m, X) == m \in MarkType /\ MarkOK(m, X, {}) /\ OpenSettled(m)
Whiter(m, r) == \A o \in All : IsWhite(r.colour, o) => IsWhite(m.colour, o)

LEMMA MarkOpen ==
    ASSUME GCTypeOK, KindsRight, NEW S \in SUBSET All, NEW m \in MarkType, NEW r, r = Mark(S, m),
           Whiter(m, r),
           \A u \in Open : ~IsWhite(m.colour, u) => \A y \in Holds(u) : IsWhite(m.colour, y) => y \in S
    PROVE  OpenSettled(r)
<1> SUFFICES ASSUME NEW u \in Open, ~IsWhite(r.colour, u), NEW y \in Holds(u)
             PROVE  ~IsWhite(r.colour, y)
  BY DEF OpenSettled, Settled
<1>1. Darkens(m, S, r)
  BY MarkFacts
<1>2. u \in All /\ kind[u] = "upval" /\ y \in All
  BY HoldsType DEF Open, Of, Live
<1>3. CASE IsWhite(m.colour, u)
  <2>1. Strong(u) = Holds(u)
    BY <1>2 DEF Strong, KindsRight
  <2> QED
    BY <1>1, <1>2, <1>3, <2>1 DEF Darkens
<1>4. CASE ~IsWhite(m.colour, u)
  <2>1. ~IsWhite(m.colour, y) => ~IsWhite(r.colour, y)
    BY <1>2 DEF Whiter
  <2>2. \A o \in S : ~IsWhite(r.colour, o)
    BY <1>1 DEF Darkens
  <2> QED
    BY <1>4, <2>1, <2>2
<1> QED
  BY <1>3, <1>4

LEMMA MarkFine ==
    ASSUME GCTypeOK, PlaceRight, KindsRight, NEW S \in SUBSET All, NEW X, NEW m, Fine(m, X),
           NEW r, r = Mark(S, m)
    PROVE  Fine(r, X) /\ Whiter(m, r) /\ r.again = m.again /\ r.weak = m.weak
<1>1. m \in MarkType
  BY DEF Fine
<1>2. Darkens(m, S, r)
  BY <1>1, MarkFacts
<1>3. MarkOK(m, X, S)
  BY DEF Fine, MarkOK
<1>4. MarkOK(r, X, {}) /\ Whiter(m, r)
  BY <1>1, <1>3, MarkKeeps DEF Whiter
<1>5. OpenSettled(r)
  BY <1>1, <1>4, MarkOpen DEF Fine, OpenSettled, Settled
<1> QED
  BY <1>2, <1>4, <1>5 DEF Darkens, Fine

LEMMA RemarkUpvalsFine ==
    ASSUME GCTypeOK, PlaceRight, KindsRight, NEW X, NEW m \in MarkType, MarkOK(m, X, {}),
           NEW r, r = RemarkUpvals(m)
    PROVE  Fine(r, X)
<1> DEFINE S == UNION {ValueOf(u) : u \in {v \in Open : m.colour[v] = "gray"}}
<1>1. \A u \in Open : ValueOf(u) = Holds(u)
  BY DEF Open, Of, Holds
<1>2. S \in SUBSET All
  BY <1>1, HoldsType DEF Open, Of, Live
<1>3. r = Mark(S, m)
  BY DEF RemarkUpvals
<1>4. ASSUME NEW u \in Open, ~IsWhite(m.colour, u)  PROVE Holds(u) \subseteq S
  <2>1. u \in All /\ colour[u] # "free" /\ place[u] # Nothing
    BY DEF Open, Of, Live
  <2>2. m.colour[u] # "free" /\ m.colour[u] # "black"
    BY <2>1 DEF MarkOK
  <2>3. m.colour[u] \in Colours
    BY <2>1 DEF MarkType
  <2>4. m.colour[u] = "gray"
    BY <1>4, <2>2, <2>3 DEF Colours, Whites, IsWhite
  <2> QED
    BY <1>1, <2>4
<1>5. MarkOK(m, X, S)
  BY DEF MarkOK
<1> HIDE DEF S
<1>6. MarkOK(r, X, {}) /\ Whiter(m, r)
  BY <1>2, <1>3, <1>5, MarkKeeps DEF Whiter
<1>7. OpenSettled(r)
  BY <1>2, <1>3, <1>4, <1>6, MarkOpen
<1>8. Darkens(m, S, r)
  BY <1>2, <1>3, MarkFacts
<1> QED
  BY <1>6, <1>7, <1>8 DEF Darkens, Fine

(* After everything gray has been visited, what is listed to be cleared is *)
(* weak or was listed before, what is listed again a thread or was before. *)
LEMMA PropagateAllFine ==
    ASSUME GCTypeOK, PlaceRight, KindsRight, NEW X, NEW m, Fine(m, X),
           NEW r, r = PropagateAll(m)
    PROVE  /\ Fine(r, X) /\ Whiter(m, r) /\ r.gray = {}
           /\ \A o \in r.weak : o \in m.weak \/ o \in weak
           /\ \A o \in r.again : o \in m.again \/ (kind[o] = "thread" /\ Settled(r, o))
<1>1. m \in MarkType /\ MarkOK(m, X, {})
  BY DEF Fine
<1>2. r \in MarkType /\ r.gray = {}
  BY <1>1, PropagateAllFacts
<1>3. PICK V \in SUBSET All :
           /\ m.gray \subseteq V
           /\ \A o \in V \ m.gray : IsWhite(m.colour, o)
           /\ \A o \in All \ V : r.colour[o] = m.colour[o]
           /\ \A o \in V : r.colour[o] = IF StaysGray(o) THEN "gray" ELSE "black"
           /\ r.again = m.again \cup {o \in V : kind[o] = "thread"}
           /\ r.weak = m.weak \cup (V \cap weak)
           /\ \A o \in V : \A y \in Strong(o) : ~IsWhite(r.colour, y)
  BY <1>1, PropagateAllFacts
<1>4. MarkOK(r, X, {}) /\ Whiter(m, r)
  BY <1>1, PropagateAllKeeps DEF Whiter
<1>5. \A o \in V : o \notin weak => Settled(r, o)
  BY <1>3 DEF Settled, Strong
<1>6. ASSUME NEW u \in Open, ~IsWhite(r.colour, u)  PROVE Settled(r, u)
  <2>1. u \in All /\ u \notin weak /\ Holds(u) \subseteq All
    BY HoldsType DEF Open, Of, Live, KindsRight
  <2>2. CASE u \in V
    BY <1>5, <2>1, <2>2
  <2>3. CASE u \notin V
    <3>1. ~IsWhite(m.colour, u)
      BY <1>3, <1>6, <2>1, <2>3 DEF IsWhite
    <3>2. Settled(m, u)
      BY <3>1 DEF Fine, OpenSettled
    <3> QED
      BY <1>4, <2>1, <3>2 DEF Settled, Whiter
  <2> QED
    BY <2>2, <2>3
<1>7. \A o \in V : kind[o] = "thread" => o \notin weak
  BY DEF KindsRight
<1> QED
  BY <1>2, <1>3, <1>4, <1>5, <1>6, <1>7 DEF Fine, OpenSettled

(* atomic takes one of the other lists for the gray list.                  *)
LEMMA ListsMoved ==
    ASSUME NEW X, NEW m, Fine(m, X), NEW r \in MarkType, r.colour = m.colour, Lists(r) = Lists(m)
    PROVE  Fine(r, X)
<1>1. MarkOK(r, X, {})
  BY DEF Fine, MarkOK
<1>2. OpenSettled(r)
  BY DEF Fine, OpenSettled, Settled
<1> QED
  BY <1>1, <1>2 DEF Fine

LEMMA RemarkedFine ==
    ASSUME GCTypeOK, PlaceRight, KindsRight, Marks, gcstate = "propagate", gray = {}
    PROVE  /\ Fine(Remarked, tmudata) /\ Remarked.gray = {} /\ Remarked.weak \subseteq weak
           /\ \A o \in Remarked.again : kind[o] = "thread" /\ Settled(Remarked, o)
<1> DEFINE X == tmudata
           m1 == RemarkUpvals(Marking)
           m2 == PropagateAll(m1)
           m3 == [m2 EXCEPT !.gray = m2.weak, !.weak = {}]
           m4 == PropagateAll(Mark({M}, m3))
           m5 == [m4 EXCEPT !.gray = m4.again, !.again = {}]
<1>1. Remarked = PropagateAll(m5)
  BY DEF Remarked
<1>2. Marking \in MarkType
  BY DEF Marking, MarkType, GCTypeOK
<1>3. Fine(m1, X)
  BY <1>2, RemarkUpvalsFine DEF Marks
<1> HIDE DEF m1
<1>4. Fine(m2, X) /\ m2.gray = {}
  BY <1>3, PropagateAllFine
<1> HIDE DEF m2
<1>5. m3 \in MarkType /\ m3.colour = m2.colour /\ m3.gray = m2.weak /\ m3.weak = {} /\ m3.again = m2.again
  BY <1>4 DEF Fine, MarkType
<1>6. Fine(m3, X)
  <2>1. Lists(m3) = Lists(m2)
    BY <1>4, <1>5 DEF Lists
  <2> QED
    BY <1>4, <1>5, <2>1, ListsMoved
<1> HIDE DEF m3
<1> DEFINE n == Mark({M}, m3)
<1>7. Fine(n, X) /\ n.weak = {}
  <2>1. {M} \in SUBSET All
    BY DEF All
  <2> QED
    BY <1>5, <1>6, <2>1, MarkFine
<1> HIDE DEF n
<1>8. Fine(m4, X) /\ m4.gray = {} /\ m4.weak \subseteq weak
  <2>1. m4 = PropagateAll(n)
    BY DEF n
  <2> QED
    BY <1>7, <2>1, PropagateAllFine
<1> HIDE DEF m4
<1>9. m5 \in MarkType /\ m5.colour = m4.colour /\ m5.gray = m4.again /\ m5.weak = m4.weak /\ m5.again = {}
  BY <1>8 DEF Fine, MarkType
<1>10. Fine(m5, X)
  <2>1. Lists(m5) = Lists(m4)
    BY <1>8, <1>9 DEF Lists
  <2> QED
    BY <1>8, <1>9, <2>1, ListsMoved
<1> HIDE DEF m5
<1> QED
  BY <1>1, <1>8, <1>9, <1>10, PropagateAllFine

(* The userdata T to finalize, marked anew with what they hold.            *)
LEMMA PreservedFine ==
    ASSUME GCTypeOK, PlaceRight, KindsRight, NEW m, Fine(m, tmudata), m.gray = {}, m.weak \subseteq weak,
           \A o \in m.again : kind[o] = "thread" /\ Settled(m, o),
           NEW T \in SUBSET All, tmudata \subseteq T,
           \A u \in T : kind[u] = "udata" /\ colour[u] # "free",
           NEW r, r = Preserved(m, T)
    PROVE  /\ Fine(r, {}) /\ r.gray = {} /\ r.weak \subseteq weak
           /\ \A o \in r.again : kind[o] = "thread" /\ Settled(r, o)
           /\ \A u \in T : ~IsWhite(r.colour, u)
<1> DEFINE a == [m EXCEPT !.colour = [o \in All |-> IF o \in T THEN white ELSE m.colour[o]]]
           b == Mark(T, a)
<1>1. r = PropagateAll(b)
  BY DEF Preserved
<1>2. m \in MarkType /\ MarkOK(m, tmudata, {})
  BY DEF Fine
<1>3. /\ a.colour = [o \in All |-> IF o \in T THEN white ELSE m.colour[o]]
      /\ a.gray = m.gray /\ a.again = m.again /\ a.weak = m.weak
  BY <1>2 DEF MarkType
<1>4. a \in MarkType
  <2>1. white \in Colours
    BY DEF GCTypeOK, Colours
  <2>2. a.colour \in [All -> Colours]
    BY <1>2, <1>3, <2>1 DEF MarkType
  <2> QED
    BY <1>2, <2>2 DEF MarkType
<1> HIDE DEF a
<1>5. \A o \in All : a.colour[o] = IF o \in T THEN white ELSE m.colour[o]
  BY <1>3
<1>6. Lists(a) = Lists(m)
  BY <1>3 DEF Lists
<1>7. ASSUME NEW o \in All
      PROVE  a.colour[o] # Other(white) /\ (a.colour[o] = "free" <=> colour[o] = "free")
  <2>1. white # Other(white) /\ white # "free"
    BY OtherWhite DEF GCTypeOK, Whites
  <2> QED
    BY <1>2, <1>5, <2>1 DEF MarkOK
<1>8. \A o \in {M, G} : IsWhite(a.colour, o) => o \in T
  BY <1>2, <1>5 DEF MarkOK, All, IsWhite
<1>9. ASSUME NEW o \in Lists(a)
      PROVE  a.colour[o] \in {"gray", "black"} /\ kind[o] \in {"table", "closure", "thread"}
  <2>1. o \in All
    BY <1>4 DEF Lists, MarkType
  <2>2. o \notin T
    BY <1>2, <1>6, <1>9 DEF MarkOK
  <2> QED
    BY <1>2, <1>5, <1>6, <2>1, <2>2 DEF MarkOK
<1>10. ASSUME NEW o \in All, a.colour[o] \in {"gray", "black"}
       PROVE  o \notin T /\ o \notin tmudata /\ m.colour[o] = a.colour[o]
  BY <1>5, <1>10 DEF GCTypeOK, Whites
<1>11. ASSUME NEW o \in All, a.colour[o] = "black"  PROVE kind[o] # "thread" /\ place[o] = Nothing
  BY <1>2, <1>10, <1>11 DEF MarkOK
<1>12. ASSUME NEW o \in All, a.colour[o] = "gray"
       PROVE  o \in Lists(a) \/ kind[o] = "string" \/ place[o] # Nothing
  BY <1>2, <1>6, <1>10, <1>12 DEF MarkOK
<1>13. ASSUME NEW y \in All, IsWhite(a.colour, y)  PROVE y \in T \/ IsWhite(m.colour, y)
  BY <1>5, <1>13 DEF IsWhite
<1>14. ASSUME NEW o \in All, a.colour[o] = "black", NEW y \in Holds(o), IsWhite(a.colour, y)
       PROVE  y \in T
  <2>1. y \in All
    BY HoldsType
  <2>2. ~IsWhite(m.colour, y)
    BY <1>2, <1>10, <1>14 DEF MarkOK
  <2> QED
    BY <1>13, <1>14, <2>1, <2>2
<1>15. MarkOK(a, {}, T)
  BY <1>7, <1>8, <1>9, <1>11, <1>12, <1>14 DEF MarkOK
<1>16. MarkOK(b, {}, {}) /\ Whiter(a, b)
  BY <1>4, <1>15, MarkKeeps DEF Whiter
<1>17. Darkens(a, T, b)
  BY <1>4, MarkFacts
<1>18. OpenSettled(b)
  <2>1. ASSUME NEW u \in Open, ~IsWhite(a.colour, u), NEW y \in Holds(u), IsWhite(a.colour, y)
        PROVE  y \in T
    <3>1. u \in All /\ kind[u] = "upval" /\ y \in All
      BY HoldsType DEF Open, Of, Live
    <3>2. ~IsWhite(m.colour, u)
      BY <1>5, <2>1, <3>1 DEF IsWhite
    <3>3. ~IsWhite(m.colour, y)
      BY <3>2 DEF Fine, OpenSettled, Settled
    <3> QED
      BY <1>13, <2>1, <3>1, <3>3
  <2> QED
    BY <1>4, <1>16, <2>1, MarkOpen
<1> HIDE DEF b
<1>19. Fine(b, {}) /\ b.again = m.again /\ b.weak = m.weak /\ \A u \in T : ~IsWhite(b.colour, u)
  BY <1>3, <1>16, <1>17, <1>18 DEF Darkens, Fine
<1>20. Whiter(m, b)
  BY <1>13, <1>16, <1>19 DEF Whiter
<1>21. /\ Fine(r, {}) /\ Whiter(b, r) /\ r.gray = {}
       /\ \A o \in r.weak : o \in b.weak \/ o \in weak
       /\ \A o \in r.again : o \in b.again \/ (kind[o] = "thread" /\ Settled(r, o))
  BY <1>1, <1>19, PropagateAllFine
<1>22. ASSUME NEW o \in m.again  PROVE Settled(r, o)
  <2>1. o \in All /\ Holds(o) \subseteq All
    BY <1>2, HoldsType DEF MarkType
  <2> QED
    BY <1>20, <1>21, <2>1 DEF Settled, Whiter
<1>23. \A u \in T : ~IsWhite(r.colour, u)
  BY <1>19, <1>21 DEF Whiter
<1> QED
  BY <1>19, <1>21, <1>22, <1>23

(* So at the end all that is not white holds nothing white, but for what   *)
(* is in weak tables, and these are listed to be cleared.                  *)
LEMMA Traced ==
    ASSUME GCTypeOK, PlaceRight, KindsRight, NEW m, Fine(m, {}), m.gray = {},
           \A o \in m.again : kind[o] = "thread" /\ Settled(m, o),
           NEW o \in All, colour[o] # "free", ~IsWhite(m.colour, o)
    PROVE  Settled(m, o) \/ o \in m.weak
<1>1. m \in MarkType /\ MarkOK(m, {}, {}) /\ OpenSettled(m)
  BY DEF Fine
<1>2. m.colour[o] = "black" \/ m.colour[o] = "gray"
  BY <1>1 DEF MarkType, Colours, Whites, IsWhite, MarkOK
<1>3. CASE m.colour[o] = "black"
  BY <1>1, <1>3 DEF MarkOK, Settled
<1>4. CASE m.colour[o] = "gray"
  <2>1. o \in m.again \/ o \in m.weak \/ kind[o] = "string" \/ place[o] # Nothing
    BY <1>1, <1>4 DEF MarkOK, Lists
  <2>2. CASE kind[o] = "string"
    <3>1. Holds(o) = {}
      BY <2>2 DEF Holds, KindsRight
    <3> QED
      BY <3>1 DEF Settled
  <2>3. CASE place[o] # Nothing
    <3>1. o \in Open
      BY <2>3 DEF Open, Of, Live, PlaceRight
    <3> QED
      BY <1>1, <3>1 DEF OpenSettled
  <2>4. CASE o \in m.weak
    BY <2>4
  <2> QED
    BY <2>1, <2>2, <2>3, <2>4
<1> QED
  BY <1>2, <1>3, <1>4

-----------------------------------------------------------------------------
LEMMA GCInitRight ==
    ASSUME GCInit
    PROVE  GCIInv
<1>1. GCTypeOK
  BY DEF GCInit, GCTypeOK, Kinds, Colours, Whites, Phases, All
<1>2. FreeClean /\ PlaceRight
  BY DEF GCInit, FreeClean, PlaceRight, All
<1>3. KindsRight
  <2>1. \A o \in All : refs[o] = {} /\ kind[o] = IF o = M THEN "thread" ELSE "table"
    BY DEF GCInit
  <2>2. M \in All /\ G \in All /\ weak = {} /\ tmudata = {}
    BY DEF GCInit, All
  <2> QED
    BY <2>1, <2>2, GCAssumption DEF KindsRight, NonDead, Live
<1>4. NonDead = {M, G}
  BY GCAssumption DEF GCInit, NonDead, Live, IsDead, All, Other
<1>5. Kept
  <2>1. Holds(M) \subseteq {G} /\ Holds(G) = {}
    BY GCAssumption DEF GCInit, Holds, Stack, All
  <2> QED
    BY <1>4, <2>1 DEF Kept, GCInit
<1>6. Swept
  BY GCAssumption DEF GCInit, Swept, Open, Of, Live, All
<1> QED
  BY <1>1, <1>2, <1>3, <1>5, <1>6 DEF GCIInv, Marks, GCInit

(* The last step of marking, after which what is white is dead.            *)
LEMMA AtomicKeeps ==
    ASSUME GCIInv, Atomic
    PROVE  GCIInv'
<1> USE DEF GCIInv
<1> DEFINE T == tmudata \cup ToFinalize(Remarked)
<1> DEFINE m == Preserved(Remarked, T)
<1>1. gcstate = "propagate" /\ gray = {}
  BY DEF Atomic
<1>2. /\ tmudata' = T /\ gray' = {} /\ grayagain' = m.again /\ weaklist' = m.weak
      /\ white' = Other(white) /\ gcstate' = "sweepstring" /\ pending' = Live \ (tmudata' \cup Open)
      /\ kind' = kind /\ slot' = slot /\ place' = place /\ weak' = weak /\ full' = full
  BY DEF Atomic
<1>3. finalized' = finalized \cup ToFinalize(Remarked)
  BY DEF Atomic
<1>4. Cleared(m, finalized \cup ToFinalize(Remarked))
  BY DEF Atomic
<1>5. \A u \in T : u \in All /\ kind[u] = "udata" /\ colour[u] # "free"
  BY DEF ToFinalize, Of, Live, Kept, NonDead, KindsRight
<1>6. /\ Fine(Remarked, tmudata) /\ Remarked.gray = {} /\ Remarked.weak \subseteq weak
      /\ \A o \in Remarked.again : kind[o] = "thread" /\ Settled(Remarked, o)
  BY <1>1, RemarkedFine
<1>7. /\ Fine(m, {}) /\ m.gray = {} /\ m.weak \subseteq weak
      /\ \A o \in m.again : kind[o] = "thread" /\ Settled(m, o)
      /\ \A u \in T : ~IsWhite(m.colour, u)
  BY <1>5, <1>6, PreservedFine
<1>8. m \in MarkType /\ MarkOK(m, {}, {})
  BY <1>7 DEF Fine
<1>9. T \subseteq All /\ ToFinalize(Remarked) \subseteq All
  BY <1>5
<1> HIDE DEF m, T
<1>10. /\ \A t \in All : refs'[t] \subseteq refs[t] /\ (t \notin m.weak => refs'[t] = refs[t])
       /\ \A t \in m.weak : \A v \in refs'[t] : kind[v] = "string" \/ ~IsWhite(m.colour, v)
       /\ refs' \in [All -> SUBSET All]
  <2> DEFINE Goes(v) == kind[v] # "string" /\ (IsWhite(m.colour, v)
                         \/ (kind[v] = "udata" /\ v \in finalized \cup ToFinalize(Remarked)))
  <2>1. refs' = [t \in All |-> IF t \in m.weak THEN {v \in refs[t] : ~Goes(v)} ELSE refs[t]]
    BY <1>4 DEF Cleared
  <2>2. \A v : ~Goes(v) => kind[v] = "string" \/ ~IsWhite(m.colour, v)
    OBVIOUS
  <2>3. m.weak \subseteq All
    BY <1>8 DEF MarkType
  <2> HIDE DEF Goes
  <2>4. \A t \in All : refs'[t] \subseteq refs[t] /\ (t \notin m.weak => refs'[t] = refs[t])
    BY <2>1
  <2>5. \A t \in m.weak : \A v \in refs'[t] : kind[v] = "string" \/ ~IsWhite(m.colour, v)
    BY <2>1, <2>2, <2>3
  <2>6. refs' \in [All -> SUBSET All]
    BY <2>1, <2>4 DEF GCTypeOK
  <2> QED
    BY <2>4, <2>5, <2>6
<1>11. \A o \in All :
          \/ colour'[o] = m.colour[o]
          \/ colour'[o] = "gray" /\ kind[o] = "string" /\ IsWhite(m.colour, o)
  BY <1>4 DEF Cleared
<1>12. \A t \in m.weak : \A v \in refs[t] : kind[v] = "string" => ~IsWhite(colour', v)
  <2> SUFFICES ASSUME NEW t \in m.weak, NEW v \in refs[t], kind[v] = "string"
               PROVE  ~IsWhite(colour', v)
    OBVIOUS
  <2>1. v \in All /\ t \in All
    BY <1>7 DEF GCTypeOK
  <2> QED
    BY <1>4, <2>1 DEF Cleared, IsWhite
<1>13. \A o \in All : colour'[o] = "free" <=> colour[o] = "free"
  BY <1>8, <1>11 DEF MarkOK, IsWhite
<1>14. Live' = Live /\ Open' = Open
  BY <1>2, <1>13 DEF Live, Open, Of
<1>15. ASSUME NEW o \in All
       PROVE  o \in NonDead' <=> colour[o] # "free" /\ ~IsWhite(colour', o)
  <2>1. Other(white') = white
    BY <1>2, OtherWhite DEF GCTypeOK
  <2>2. colour'[o] # Other(white)
    BY <1>8, <1>11, OtherWhite DEF MarkOK, Whites, GCTypeOK
  <2>3. {white, Other(white)} = {"white0", "white1"}
    BY DEF GCTypeOK, Whites, Other
  <2> QED
    BY <1>13, <2>1, <2>2, <2>3 DEF NonDead, Live, IsDead, IsWhite
<1>16. \A o \in All : ~IsWhite(m.colour, o) => ~IsWhite(colour', o)
  BY <1>11 DEF IsWhite
<1>17. GCTypeOK'
  <2>1. colour' \in [All -> Colours]
    BY <1>4, <1>8 DEF Cleared, MarkType, Colours
  <2>2. white' \in Whites
    BY <1>2, OtherWhite DEF GCTypeOK
  <2>3. m.again \subseteq All /\ m.weak \subseteq All
    BY <1>8 DEF MarkType
  <2>4. pending' \subseteq All
    BY <1>2 DEF Live
  <2> QED
    BY <1>2, <1>3, <1>9, <1>10, <2>1, <2>2, <2>3, <2>4 DEF GCTypeOK, Phases
<1>18. FreeClean' /\ PlaceRight'
  <2>1. FreeClean'
    BY <1>2, <1>10, <1>13 DEF FreeClean
  <2>2. \A o \in All : place[o] # Nothing => place[o][1] \in All
    BY DEF GCTypeOK
  <2> QED
    BY <1>2, <1>13, <2>1, <2>2 DEF PlaceRight
<1>19. \A o \in All : colour[o] # "free" => o \in NonDead
  BY <1>1 DEF Marks, MarkOK, Marking, NonDead, Live, IsDead
<1>20. NonDead' \subseteq NonDead
  BY <1>15, <1>19 DEF NonDead, Live
<1>21. KindsRight'
  BY <1>2, <1>5, <1>10, <1>20 DEF KindsRight, NonDead, Live
<1>22. Kept'
  <2>1. M \in NonDead' /\ G \in NonDead'
    BY <1>8, <1>13, <1>15, <1>16 DEF MarkOK, All, Kept, NonDead, Live
  <2>2. tmudata' \subseteq NonDead'
    BY <1>2, <1>5, <1>7, <1>15, <1>16
  <2>3. ASSUME NEW o \in NonDead'  PROVE Holds(o)' \subseteq NonDead'
    <3>1. o \in All /\ o \in NonDead /\ colour[o] # "free" /\ ~IsWhite(colour', o)
      BY <1>15, <1>20, <2>3 DEF NonDead, Live
    <3>2. \A y \in Holds(o) : y \in All /\ colour[y] # "free"
      BY <3>1 DEF Kept, NonDead, Live
    <3>3. CASE kind[o] = "string"
      BY <1>2, <1>10, <3>1, <3>3 DEF Holds, KindsRight
    <3>4. CASE ~IsWhite(m.colour, o) /\ Settled(m, o) /\ o \notin m.weak
      <4>1. Holds(o)' = Holds(o)
        BY <1>2, <1>10, <3>1, <3>4 DEF Holds, Stack, ValueOf
      <4> QED
        BY <1>15, <1>16, <3>2, <3>4, <4>1 DEF Settled
    <3>5. CASE o \in m.weak
      <4>1. kind[o] = "table"
        BY <1>7, <3>5 DEF KindsRight
      <4>2. Holds(o)' = refs'[o] /\ Holds(o) = refs[o]
        BY <1>2, <4>1 DEF Holds
      <4>3. ASSUME NEW v \in refs'[o]  PROVE ~IsWhite(colour', v)
        <5>1. v \in refs[o] /\ v \in All
          BY <1>10, <3>1, <4>3
        <5> QED
          BY <1>10, <1>12, <1>16, <3>5, <4>3, <5>1
      <4> QED
        BY <1>10, <1>15, <3>1, <3>2, <4>2, <4>3
    <3>6. kind[o] # "string" => ~IsWhite(m.colour, o)
      BY <1>11, <3>1 DEF IsWhite
    <3>7. kind[o] # "string" => Settled(m, o) \/ o \in m.weak
      BY <1>7, <3>1, <3>6, Traced
    <3> QED
      BY <3>3, <3>4, <3>5, <3>6, <3>7
  <2> QED
    BY <2>1, <2>2, <2>3 DEF Kept
<1>23. Swept'
  <2>1. pending' \subseteq Live' \ Open'
    BY <1>2, <1>14
  <2>2. ASSUME NEW u \in Open'  PROVE colour'[u] # "black"
    <3>1. u \in All /\ place[u] # Nothing
      BY <1>2, <2>2 DEF Open, Of, Live
    <3> QED
      BY <1>8, <1>11, <3>1 DEF MarkOK
  <2>3. ASSUME NEW o \in Live' \ (tmudata' \cup pending'), place'[o] # Nothing => place'[o][1] \notin pending'
        PROVE  FALSE
    <3>1. o \in Open
      BY <1>2, <1>14, <2>3
    <3>2. o \in All /\ place[o] # Nothing
      BY <3>1 DEF Open, Of, Live
    <3>3. place[o][1] \in All /\ kind[place[o][1]] = "thread" /\ colour[place[o][1]] # "free"
      BY <3>2 DEF GCTypeOK, PlaceRight
    <3>4. place[o][1] \in Live /\ place[o][1] \notin Open /\ place[o][1] \notin T
      BY <1>5, <3>3 DEF Live, Open, Of
    <3> QED
      BY <1>2, <2>3, <3>2, <3>4
  <2> QED
    BY <1>2, <2>1, <2>2, <2>3 DEF Swept
<1>24. Marks'
  BY <1>2 DEF Marks
<1> QED
  BY <1>17, <1>18, <1>21, <1>22, <1>23, <1>24

-----------------------------------------------------------------------------
(* Most steps of the program do not mark.  They make objects white, revive *)
(* dead ones, or grayed or white again what was black.                     *)
Calm ==
    /\ gcstate' = gcstate /\ white' = white /\ tmudata' = tmudata /\ pending' = pending
    /\ gray' = gray /\ weaklist' = weaklist /\ grayagain \subseteq grayagain'
    /\ \A o \in grayagain' \ grayagain : kind[o] = "table" /\ colour[o] = "black" /\ colour'[o] = "gray"
    /\ \A o \in All :
          \/ colour'[o] = colour[o]
          \/ colour[o] \in {"free", Other(white)} /\ colour'[o] = white
          \/ colour[o] = "black" /\ colour'[o] = "gray" /\ o \in grayagain'
          \/ colour[o] = "black" /\ colour'[o] = white /\ gcstate # "propagate"
    /\ \A o \in All : colour[o] # "free" => kind'[o] = kind[o] /\ place'[o] = place[o]

LEMMA CalmLives ==
    ASSUME GCTypeOK, Calm
    PROVE  /\ \A o \in All : colour[o] # "free" => colour'[o] # "free"
           /\ NonDead \subseteq NonDead'
           /\ \A o \in NonDead' : colour[o] = colour'[o] => o \in NonDead
           /\ \A o \in NonDead' : o \in NonDead \/ colour[o] \in {"free", Other(white)}
<1>1. white # "free" /\ white \in Whites /\ Other(white) \in Whites /\ Other(white) # white
  BY OtherWhite DEF GCTypeOK, Whites
<1>2. \A o \in All : colour[o] # "free" => colour'[o] # "free"
  BY <1>1 DEF Calm
<1>3. white' = white
  BY DEF Calm
<1> QED
  BY <1>1, <1>2, <1>3 DEF Calm, NonDead, Live, IsDead, Whites

LEMMA CalmKeeps ==
    ASSUME GCIInv, GCTypeOK', FreeClean', PlaceRight', KindsRight', Calm,
           \A o \in NonDead' : Holds(o)' \subseteq NonDead',
           ASSUME gcstate = "propagate", NEW o \in All, colour'[o] = "black", NEW y \in Holds(o)', y \notin Holds(o)
           PROVE  ~IsWhite(colour', y)
    PROVE  GCIInv'
<1> USE DEF GCIInv
<1>1. white # "free" /\ white \in Whites /\ Other(white) \in Whites /\ Other(white) # white
  BY OtherWhite DEF GCTypeOK, Whites
<1>2. Kept'
  BY CalmLives DEF Kept, Calm
<1>3. Swept'
  <2>1. pending \subseteq Live' \ Open'
    BY CalmLives DEF Swept, Calm, Live, Open, Of
  <2>2. ASSUME NEW u \in Open'  PROVE colour'[u] # "black"
    <3>1. u \in All /\ place'[u] # Nothing
      BY <2>2 DEF Open, Of, Live
    <3>2. CASE colour[u] = "free"
      BY <1>1, <3>1, <3>2 DEF Calm, Whites
    <3>3. CASE colour[u] # "free"
      <4>1. u \in Open
        BY <3>1, <3>3 DEF Calm, Open, Of, Live, PlaceRight
      <4>2. colour[u] # "black"
        BY <4>1 DEF Swept
      <4> QED
        BY <1>1, <3>1, <4>2 DEF Calm, Whites
    <3> QED
      BY <3>2, <3>3
  <2>3. ASSUME gcstate # "propagate", NEW o \in Live' \ (tmudata \cup pending),
               place'[o] # Nothing => place'[o][1] \notin pending
        PROVE  colour'[o] = white
    <3>1. o \in All
      BY DEF Live
    <3>2. CASE colour'[o] = colour[o] \/ (colour[o] = "black" /\ colour'[o] = "gray")
      <4>1. colour[o] # "free"
        BY <2>3, <3>2 DEF Live
      <4>2. o \in Live \ (tmudata \cup pending) /\ (place[o] # Nothing => place[o][1] \notin pending)
        BY <2>3, <3>1, <4>1 DEF Calm, Live
      <4>3. colour[o] = white
        BY <2>3, <4>2 DEF Swept
      <4> QED
        BY <1>1, <3>2, <4>3 DEF Whites
    <3> QED
      BY <3>1, <3>2 DEF Calm
  <2> QED
    BY <2>1, <2>2, <2>3 DEF Swept, Calm
<1>4. Marks'
  <2> SUFFICES ASSUME gcstate = "propagate"  PROVE MarkOK(Marking, tmudata, {})'
    BY DEF Calm, Marks
  <2>1. MarkOK(Marking, tmudata, {})
    BY DEF Marks
  <2>2. \A o \in All :
          \/ colour'[o] = colour[o]
          \/ colour[o] = "free" /\ colour'[o] = white
          \/ colour[o] = "black" /\ colour'[o] = "gray" /\ o \in grayagain'
    BY <2>1 DEF Calm, MarkOK, Marking
  <2>3. white' = white /\ tmudata' = tmudata /\ \A o \in All : colour[o] # "free" => kind'[o] = kind[o] /\ place'[o] = place[o]
    BY DEF Calm
  <2>4. \A o \in All : colour'[o] # Other(white')
    BY <1>1, <2>1, <2>2, <2>3 DEF MarkOK, Marking, Whites
  <2>5. \A o \in {M, G} : IsWhite(colour', o) => o \in {}
    <3>1. \A o \in {M, G} : colour[o] # "free" /\ ~IsWhite(colour, o) /\ o \in All
      BY <2>1 DEF MarkOK, Marking, Kept, NonDead, Live
    <3> QED
      BY <2>2, <3>1 DEF IsWhite
  <2>6. ASSUME NEW o \in gray' \cup grayagain' \cup weaklist'
        PROVE  colour'[o] \in {"gray", "black"} /\ kind'[o] \in {"table", "closure", "thread"}
    <3>1. CASE o \in gray \cup grayagain \cup weaklist
      <4>1. o \in All
        BY <3>1 DEF GCTypeOK
      <4>2. colour[o] \in {"gray", "black"} /\ kind[o] \in {"table", "closure", "thread"}
        BY <2>1, <3>1 DEF MarkOK, Marking, Lists
      <4> QED
        BY <2>2, <2>3, <4>1, <4>2
    <3>2. CASE o \in grayagain' \ grayagain
      <4>1. o \in All
        BY <3>2 DEF GCTypeOK
      <4> QED
        BY <2>3, <3>2, <4>1 DEF Calm
    <3> QED
      BY <3>1, <3>2 DEF Calm
  <2>7. ASSUME NEW o \in All, colour'[o] = "black"
        PROVE  colour[o] = "black" /\ kind'[o] = kind[o] /\ place'[o] = place[o]
    BY <1>1, <2>2, <2>3, <2>7 DEF Whites
  <2>8. \A o \in All : colour'[o] = "black" => kind'[o] # "thread" /\ place'[o] = Nothing
    BY <2>1, <2>7 DEF MarkOK, Marking
  <2>9. ASSUME NEW o \in All \ tmudata, colour'[o] = "gray"
        PROVE  o \in gray' \cup grayagain' \cup weaklist' \/ kind'[o] = "string" \/ place'[o] # Nothing
    <3>1. CASE colour[o] = "gray"
      <4>1. o \in gray \cup grayagain \cup weaklist \/ kind[o] = "string" \/ place[o] # Nothing
        BY <2>1, <3>1 DEF MarkOK, Marking, Lists
      <4>2. kind'[o] = kind[o] /\ place'[o] = place[o]
        BY <2>3, <3>1
      <4> QED
        BY <4>1, <4>2 DEF Calm
    <3> QED
      BY <1>1, <2>2, <2>9, <3>1 DEF Whites
  <2>10. ASSUME NEW o \in All \ tmudata, colour'[o] = "black", NEW y \in Holds(o)'
         PROVE  ~IsWhite(colour', y)
    <3>1. CASE y \in Holds(o)
      <4>1. colour[o] = "black" /\ o \in NonDead
        BY <1>1, <2>7, <2>10 DEF NonDead, Live, IsDead, Whites
      <4>2. y \in All /\ colour[y] # "free" /\ ~IsWhite(colour, y)
        BY <2>1, <3>1, <4>1 DEF MarkOK, Marking, Kept, NonDead, Live
      <4> QED
        BY <2>2, <4>2 DEF IsWhite
    <3> QED
      BY <2>10, <3>1
  <2> QED
    BY <2>3, <2>4, <2>5, <2>6, <2>8, <2>9, <2>10 DEF MarkOK, Marking, Lists
<1> QED
  BY <1>2, <1>3, <1>4

(* What the program has at hand is kept.                                   *)
LEMMA HandKept ==
    ASSUME GCIInv
    PROVE  Hand \subseteq NonDead /\ \A x \in NonDead : x \in All /\ colour[x] # "free"
<1>1. Holds(M) = Stack(M) \cup {G} /\ Holds(G) = refs[G]
  BY DEF GCIInv, KindsRight, Holds
<1>2. Hand = Holds(M) \cup Holds(G)
  BY <1>1 DEF Hand
<1> QED
  BY <1>2 DEF GCIInv, Kept, NonDead, Live

(* A write to a stack reaches what holds a stack or a place on it.         *)
LEMMA SlotHolds ==
    ASSUME GCTypeOK, NEW th \in All, kind[th] = "thread", NEW i \in Levels, NEW v,
           slot' = [slot EXCEPT ![th][i] = v],
           NEW o \in All, kind'[o] = kind[o], place'[o] = place[o], refs'[o] = refs[o]
    PROVE  /\ \A y \in Holds(o)' : y \in Holds(o) \/ (y = v /\ v # Nothing)
           /\ kind[o] # "thread" /\ place[o] = Nothing => Holds(o)' = Holds(o)
<1>1. \A x \in All, j \in Levels : slot'[x][j] = slot[x][j] \/ slot'[x][j] = v
  BY DEF GCTypeOK
<1>2. CASE kind[o] = "thread"
  BY <1>1, <1>2 DEF Holds, Stack
<1>3. CASE kind[o] = "upval" /\ place[o] # Nothing
  <2>1. place[o] \in All \X Levels
    BY <1>3 DEF GCTypeOK
  <2>2. place[o][1] \in All /\ place[o][2] \in Levels
    BY <2>1
  <2> QED
    BY <1>1, <1>3, <2>2 DEF Holds, ValueOf
<1>4. CASE kind[o] = "upval" /\ place[o] = Nothing
  BY <1>4 DEF Holds, ValueOf
<1>5. CASE kind[o] \notin {"thread", "upval"}
  BY <1>5 DEF Holds
<1> QED
  BY <1>2, <1>3, <1>4, <1>5

LEMMA SlotType ==
    ASSUME GCTypeOK, NEW th \in All, NEW i \in Levels, NEW v \in All \cup {Nothing},
           slot' = [slot EXCEPT ![th][i] = v]
    PROVE  /\ slot' \in [All -> [Levels -> All \cup {Nothing}]]
           /\ \A o \in All \ {th} : slot'[o] = slot[o]
<1>1. slot[th] \in [Levels -> All \cup {Nothing}]
  BY DEF GCTypeOK
<1>2. [slot[th] EXCEPT ![i] = v] \in [Levels -> All \cup {Nothing}]
  BY <1>1
<1> QED
  BY <1>2 DEF GCTypeOK

LEMMA SlotKeeps ==
    ASSUME GCIInv, NEW th \in All, kind[th] = "thread", colour[th] # "free", NEW i \in Levels,
           NEW v \in NonDead \cup {Nothing}, slot' = [slot EXCEPT ![th][i] = v],
           UNCHANGED <<kind, refs, place, weak, colour, Marker, gray, grayagain, weaklist>>
    PROVE  GCIInv'
<1> USE DEF GCIInv
<1>1. v \in All \cup {Nothing}
  BY DEF NonDead, Live
<1>2. /\ slot' \in [All -> [Levels -> All \cup {Nothing}]]
      /\ \A o \in All \ {th} : slot'[o] = slot[o]
  BY <1>1, SlotType
<1>3. GCTypeOK'
  BY <1>2 DEF GCTypeOK, Marker
<1>4. FreeClean'
  BY <1>2 DEF FreeClean
<1>5. PlaceRight'
  BY DEF PlaceRight
<1>6. NonDead' = NonDead
  BY DEF NonDead, Live, IsDead, Marker
<1>7. KindsRight'
  BY <1>6 DEF KindsRight, Marker
<1>8. Calm
  BY DEF Calm, Marker
<1>9. ASSUME NEW o \in NonDead'  PROVE Holds(o)' \subseteq NonDead'
  <2>1. o \in All /\ Holds(o) \subseteq NonDead
    BY <1>6, <1>9 DEF Kept, NonDead, Live
  <2>2. kind' = kind /\ refs' = refs /\ place' = place
    OBVIOUS
  <2>3. \A y \in Holds(o)' : y \in Holds(o) \/ (y = v /\ v # Nothing)
    BY <2>1, <2>2, SlotHolds
  <2> QED
    BY <1>6, <2>1, <2>3
<1>10. ASSUME gcstate = "propagate", NEW o \in All, colour'[o] = "black", NEW y \in Holds(o)', y \notin Holds(o)
       PROVE  FALSE
  <2>1. kind[o] # "thread" /\ place[o] = Nothing
    BY <1>10 DEF Marks, MarkOK, Marking
  <2> QED
    BY <1>10, <2>1, SlotHolds
<1> QED
  BY <1>3, <1>4, <1>5, <1>7, <1>8, <1>9, <1>10, CalmKeeps

LEMMA LoadKeeps ==
    ASSUME GCIInv, NEW x, NEW v, NEW i \in Levels, Load(x, v, i)
    PROVE  GCIInv'
<1>1. x \in NonDead /\ x \in All
  BY HandKept DEF Load
<1>2. v \in NonDead
  <2>1. Holds(x) \subseteq NonDead
    BY <1>1 DEF GCIInv, Kept
  <2>2. CASE kind[x] = "closure"
    <3>1. PICK u \in refs[x] : v \in ValueOf(u)
      BY <2>2 DEF Load, Held
    <3>2. u \in NonDead /\ kind[u] = "upval"
      BY <1>1, <2>1, <2>2 DEF GCIInv, KindsRight, Holds
    <3>3. Holds(u) = ValueOf(u)
      BY <3>2 DEF Holds
    <3> QED
      BY <3>1, <3>2, <3>3 DEF GCIInv, Kept
  <2>3. CASE kind[x] = "thread"
    BY <2>1, <2>3 DEF Load, Held, Holds
  <2>4. CASE kind[x] = "upval"
    <3>1. refs[x] # {} => Holds(x) = refs[x]
      BY <1>1, <2>4 DEF GCIInv, KindsRight, Holds, ValueOf
    <3> QED
      BY <2>1, <2>4, <3>1 DEF Load, Held
  <2>5. CASE kind[x] \notin {"closure", "thread", "upval"}
    BY <2>1, <2>5 DEF Load, Held, Holds
  <2> QED
    BY <2>2, <2>3, <2>4, <2>5
<1>3. M \in All /\ kind[M] = "thread" /\ colour[M] # "free"
  BY HandKept DEF GCIInv, Kept, KindsRight
<1> QED
  BY <1>2, <1>3, SlotKeeps DEF Load, Push

LEMMA PopKeeps ==
    ASSUME GCIInv, NEW i \in Levels, Pop(i)
    PROVE  GCIInv'
<1>1. M \in All /\ kind[M] = "thread" /\ colour[M] # "free"
  BY HandKept DEF GCIInv, Kept, KindsRight
<1> QED
  BY <1>1, SlotKeeps DEF Pop, Push

LEMMA GiveKeeps ==
    ASSUME GCIInv, NEW th, NEW v, NEW i \in Levels, Give(th, v, i)
    PROVE  GCIInv'
<1>1. th \in All /\ kind[th] = "thread" /\ colour[th] # "free" /\ v \in NonDead
  BY HandKept DEF Give
<1> QED
  BY <1>1, SlotKeeps DEF Give

(* Objects are made of what is free, and are white.                        *)
LEMMA NewObjectKeeps ==
    ASSUME GCIInv, NEW k, NEW o \in Obj, NEW i \in Levels, NewObject(k, o, i)
    PROVE  GCIInv'
<1> USE DEF GCIInv
<1>1. /\ k \in {"table", "udata", "thread"} /\ colour[o] = "free" /\ o \in All
      /\ kind' = [kind EXCEPT ![o] = k] /\ colour' = [colour EXCEPT ![o] = white]
      /\ slot' = [slot EXCEPT ![M][i] = o]
      /\ refs' = refs /\ place' = place /\ weak' = weak
      /\ UNCHANGED <<Marker, gray, grayagain, weaklist>>
  BY DEF NewObject, Push, All
<1>2. M \in All /\ kind[M] = "thread" /\ colour[M] # "free" /\ o # M /\ o # G
  BY <1>1, HandKept DEF Kept, KindsRight
<1>3. white # "free" /\ white \in Whites /\ Other(white) \in Whites /\ Other(white) # white
  BY OtherWhite DEF GCTypeOK, Whites
<1>4. /\ slot' \in [All -> [Levels -> All \cup {Nothing}]]
      /\ \A x \in All \ {M} : slot'[x] = slot[x]
  BY <1>1, <1>2, SlotType
<1>5. GCTypeOK'
  BY <1>1, <1>3, <1>4 DEF GCTypeOK, Marker, Kinds, Colours
<1>6. \A x \in All : x # o => kind'[x] = kind[x] /\ colour'[x] = colour[x]
  BY <1>1 DEF GCTypeOK
<1>7. kind'[o] = k /\ colour'[o] = white
  BY <1>1 DEF GCTypeOK
<1>8. refs[o] = {} /\ place[o] = Nothing /\ o \notin weak /\ \A j \in Levels : slot[o][j] = Nothing
  BY <1>1 DEF FreeClean
<1>9. FreeClean'
  BY <1>1, <1>2, <1>3, <1>4, <1>6, <1>7 DEF FreeClean
<1>10. Calm
  BY <1>1, <1>6, <1>7 DEF Calm, Marker
<1>11. NonDead' = NonDead \cup {o}
  BY <1>1, <1>3, <1>6, <1>7 DEF NonDead, Live, IsDead, Marker
<1>12. o \notin NonDead /\ o \notin tmudata
  BY <1>1 DEF NonDead, Live, Kept
<1>13. PlaceRight'
  <2>1. ASSUME NEW x \in All, place[x] # Nothing
        PROVE  /\ kind'[x] = "upval" /\ colour'[x] # "free"
               /\ kind'[place[x][1]] = "thread" /\ colour'[place[x][1]] # "free"
    <3>1. place[x][1] \in All
      BY <2>1 DEF GCTypeOK
    <3>2. x # o /\ place[x][1] # o
      BY <1>1, <2>1 DEF PlaceRight
    <3> QED
      BY <1>6, <2>1, <3>1, <3>2 DEF PlaceRight
  <2> QED
    BY <1>1, <2>1 DEF PlaceRight
<1>14. KindsRight'
  <2>1. kind'[M] = "thread" /\ kind'[G] = "table" /\ G \notin weak'
    BY <1>1, <1>2, <1>6 DEF KindsRight, All
  <2>2. \A x \in weak' : kind'[x] = "table"
    BY <1>1, <1>6, <1>8 DEF KindsRight, GCTypeOK
  <2>3. \A x \in tmudata' : kind'[x] = "udata"
    BY <1>1, <1>6, <1>12 DEF KindsRight, GCTypeOK, Marker
  <2>4. \A x \in All : kind'[x] \in {"string", "thread"} \/ place'[x] # Nothing => refs'[x] = {}
    BY <1>1, <1>6, <1>8 DEF KindsRight
  <2>5. ASSUME NEW x \in NonDead', kind'[x] = "closure", NEW u \in refs'[x]
        PROVE kind'[u] = "upval"
    <3>1. x \in NonDead /\ x \in All /\ kind[x] = "closure" /\ u \in refs[x]
      BY <1>1, <1>6, <1>7, <1>11, <2>5 DEF NonDead, Live
    <3>2. Holds(x) = refs[x]
      BY <3>1 DEF Holds
    <3>3. u \in NonDead
      BY <3>1, <3>2 DEF Kept
    <3> QED
      BY <1>6, <1>12, <3>1, <3>3 DEF KindsRight, NonDead, Live
  <2> QED
    BY <2>1, <2>2, <2>3, <2>4, <2>5 DEF KindsRight
<1>15. ASSUME NEW x \in All, x # o
       PROVE  /\ \A y \in Holds(x)' : y \in Holds(x) \/ y = o
              /\ kind[x] # "thread" /\ place[x] = Nothing => Holds(x)' = Holds(x)
  BY <1>1, <1>2, <1>6, <1>15, SlotHolds
<1>16. Holds(o)' \subseteq {G}
  BY <1>1, <1>4, <1>7, <1>8, <1>2 DEF Holds, Stack
<1>17. ASSUME NEW x \in NonDead'  PROVE Holds(x)' \subseteq NonDead'
  <2>1. CASE x = o
    BY <1>11, <1>16, <2>1 DEF Kept
  <2>2. CASE x # o
    BY <1>11, <1>15, <1>17, <2>2 DEF Kept, NonDead, Live
  <2> QED
    BY <2>1, <2>2
<1>18. ASSUME gcstate = "propagate", NEW x \in All, colour'[x] = "black", NEW y \in Holds(x)', y \notin Holds(x)
       PROVE  FALSE
  <2>1. x # o /\ colour[x] = "black"
    BY <1>3, <1>6, <1>7, <1>18 DEF Whites
  <2>2. kind[x] # "thread" /\ place[x] = Nothing
    BY <1>18, <2>1 DEF Marks, MarkOK, Marking
  <2> QED
    BY <1>15, <1>18, <2>1, <2>2
<1> QED
  BY <1>5, <1>9, <1>10, <1>13, <1>14, <1>17, <1>18, CalmKeeps

(* A string that is dead is revived; it holds nothing.                     *)
LEMMA NewStringKeeps ==
    ASSUME GCIInv, NEW o \in Obj, NEW i \in Levels, NewString(o, i)
    PROVE  GCIInv'
<1> USE DEF GCIInv
<1>1. /\ colour[o] = "free" \/ (kind[o] = "string" /\ colour[o] # "free")
      /\ o \in All
      /\ kind' = [kind EXCEPT ![o] = "string"]
      /\ colour' = [colour EXCEPT ![o] = IF @ = "free" \/ IsDead(o) THEN white ELSE @]
      /\ slot' = [slot EXCEPT ![M][i] = o]
      /\ refs' = refs /\ place' = place /\ weak' = weak
      /\ UNCHANGED <<Marker, gray, grayagain, weaklist>>
  BY DEF NewString, Push, All, Of, Live
<1>2. M \in All /\ kind[M] = "thread" /\ colour[M] # "free" /\ o # M /\ o # G
  BY <1>1, HandKept, GCAssumption DEF Kept, KindsRight
<1>3. white # "free" /\ white \in Whites /\ Other(white) \in Whites /\ Other(white) # white
  BY OtherWhite DEF GCTypeOK, Whites
<1>4. /\ slot' \in [All -> [Levels -> All \cup {Nothing}]]
      /\ \A x \in All \ {M} : slot'[x] = slot[x]
  BY <1>1, <1>2, SlotType
<1>5. \A x \in All : x # o => kind'[x] = kind[x] /\ colour'[x] = colour[x]
  BY <1>1 DEF GCTypeOK
<1>6. /\ kind'[o] = "string"
      /\ colour'[o] = IF colour[o] \in {"free", Other(white)} THEN white ELSE colour[o]
  BY <1>1 DEF GCTypeOK, IsDead
<1>7. GCTypeOK'
  <2>1. colour' \in [All -> Colours]
    BY <1>1, <1>3 DEF GCTypeOK, Colours
  <2> QED
    BY <1>1, <1>4, <2>1 DEF GCTypeOK, Marker, Kinds
<1>8. refs[o] = {} /\ place[o] = Nothing /\ o \notin weak
  BY <1>1 DEF FreeClean, KindsRight, PlaceRight
<1>9. FreeClean'
  BY <1>1, <1>2, <1>3, <1>4, <1>5, <1>6 DEF FreeClean
<1>10. Calm
  BY <1>1, <1>5, <1>6 DEF Calm, Marker
<1>11. NonDead' = NonDead \cup {o}
  BY <1>1, <1>3, <1>5, <1>6 DEF NonDead, Live, IsDead, Marker
<1>12. o \notin tmudata
  BY <1>1 DEF NonDead, Live, Kept, KindsRight
<1>13. PlaceRight'
  <2>1. ASSUME NEW x \in All, place[x] # Nothing
        PROVE  /\ kind'[x] = "upval" /\ colour'[x] # "free"
               /\ kind'[place[x][1]] = "thread" /\ colour'[place[x][1]] # "free"
    <3>1. place[x][1] \in All
      BY <2>1 DEF GCTypeOK
    <3>2. x # o /\ place[x][1] # o
      BY <1>1, <2>1 DEF PlaceRight
    <3> QED
      BY <1>5, <2>1, <3>1, <3>2 DEF PlaceRight
  <2> QED
    BY <1>1, <2>1 DEF PlaceRight
<1>14. KindsRight'
  <2>1. kind'[M] = "thread" /\ kind'[G] = "table" /\ G \notin weak'
    BY <1>1, <1>2, <1>5 DEF KindsRight, All
  <2>2. \A x \in weak' : kind'[x] = "table"
    BY <1>1, <1>5, <1>8 DEF KindsRight, GCTypeOK
  <2>3. \A x \in tmudata' : kind'[x] = "udata"
    BY <1>1, <1>5, <1>12 DEF KindsRight, GCTypeOK, Marker
  <2>4. \A x \in All : kind'[x] \in {"string", "thread"} \/ place'[x] # Nothing => refs'[x] = {}
    BY <1>1, <1>5, <1>8 DEF KindsRight
  <2>5. ASSUME NEW x \in NonDead', kind'[x] = "closure", NEW u \in refs'[x]
        PROVE kind'[u] = "upval"
    <3>1. x \in NonDead /\ x \in All /\ kind[x] = "closure" /\ u \in refs[x]
      BY <1>1, <1>5, <1>6, <1>11, <2>5 DEF NonDead, Live
    <3>2. Holds(x) = refs[x]
      BY <3>1 DEF Holds
    <3>3. u \in NonDead /\ kind[u] = "upval"
      BY <3>1, <3>2 DEF Kept, KindsRight
    <3> QED
      BY <1>1, <1>5, <3>3 DEF NonDead, Live
  <2> QED
    BY <2>1, <2>2, <2>3, <2>4, <2>5 DEF KindsRight
<1>15. ASSUME NEW x \in All, x # o
       PROVE  /\ \A y \in Holds(x)' : y \in Holds(x) \/ y = o
              /\ kind[x] # "thread" /\ place[x] = Nothing => Holds(x)' = Holds(x)
  BY <1>1, <1>2, <1>5, <1>15, SlotHolds
<1>16. Holds(o)' = {}
  BY <1>1, <1>6, <1>8 DEF Holds
<1>17. ASSUME NEW x \in NonDead'  PROVE Holds(x)' \subseteq NonDead'
  <2>1. CASE x = o
    BY <1>16, <2>1
  <2>2. CASE x # o
    BY <1>11, <1>15, <1>17, <2>2 DEF Kept, NonDead, Live
  <2> QED
    BY <2>1, <2>2
<1>18. ASSUME gcstate = "propagate", NEW x \in All, colour'[x] = "black", NEW y \in Holds(x)', y \notin Holds(x)
       PROVE  FALSE
  <2>1. x # o /\ colour[x] = "black"
    BY <1>5, <1>16, <1>18
  <2>2. kind[x] # "thread" /\ place[x] = Nothing
    BY <1>18, <2>1 DEF Marks, MarkOK, Marking
  <2> QED
    BY <1>15, <1>18, <2>1, <2>2
<1>19. \A x \in All : colour[x] # "free" => kind'[x] = kind[x]
  BY <1>1, <1>5, <1>6
<1> QED
  BY <1>7, <1>9, <1>10, <1>13, <1>14, <1>17, <1>18, CalmKeeps

(* Writes to a table of what is at hand.  One that has been visited goes   *)
(* back to be visited again.                                               *)
LEMMA TableKeeps ==
    ASSUME GCIInv, NEW t \in Hand, kind[t] = "table", NEW R \in SUBSET All, NEW v \in Hand,
           R \subseteq refs[t] \cup {v}, refs' = [refs EXCEPT ![t] = R],
           \/ BarrierBack(t, v)
           \/ R \subseteq refs[t] /\ UNCHANGED <<colour, gray, grayagain, weaklist>>,
           UNCHANGED <<kind, slot, place, weak, Marker>>
    PROVE  GCIInv'
<1> USE DEF GCIInv
<1>0. kind' = kind /\ slot' = slot /\ place' = place /\ weak' = weak
  OBVIOUS
<1>1. t \in NonDead /\ t \in All /\ colour[t] # "free" /\ v \in NonDead /\ v \in All
  BY HandKept
<1>2. \/ UNCHANGED <<colour, gray, grayagain, weaklist>>
      \/ /\ colour[t] = "black" /\ colour' = [colour EXCEPT ![t] = "gray"]
         /\ grayagain' = grayagain \cup {t} /\ UNCHANGED <<gray, weaklist>>
  BY DEF BarrierBack
<1>3. \/ R \subseteq refs[t]
      \/ ~IsWhite(colour, v) \/ colour[t] # "black"
      \/ colour'[t] = "gray"
  BY <1>1 DEF BarrierBack, GCTypeOK
<1>4. GCTypeOK'
  <2>1. colour' \in [All -> Colours]
    BY <1>2 DEF GCTypeOK, Colours
  <2>2. gray' \subseteq All /\ grayagain' \subseteq All /\ weaklist' \subseteq All
    BY <1>1, <1>2 DEF GCTypeOK
  <2>3. refs' \in [All -> SUBSET All]
    BY DEF GCTypeOK
  <2> QED
    BY <2>1, <2>2, <2>3 DEF GCTypeOK, Marker
<1>5. \A x \in All : x # t => colour'[x] = colour[x] /\ refs'[x] = refs[x]
  BY <1>2 DEF GCTypeOK
<1>6. refs'[t] = R /\ (colour'[t] = colour[t] \/ (colour[t] = "black" /\ colour'[t] = "gray" /\ t \in grayagain'))
  BY <1>1, <1>2 DEF GCTypeOK
<1>7. \A x \in All : colour'[x] = "free" <=> colour[x] = "free"
  BY <1>5, <1>6
<1>8. Calm
  <2>1. \A x \in grayagain' \ grayagain : kind[x] = "table" /\ colour[x] = "black" /\ colour'[x] = "gray"
    BY <1>1, <1>2 DEF GCTypeOK
  <2>2. gray' = gray /\ weaklist' = weaklist /\ grayagain \subseteq grayagain'
    BY <1>2
  <2> QED
    BY <1>0, <1>5, <1>6, <2>1, <2>2 DEF Calm, Marker
<1>9. NonDead' = NonDead
  <2>1. Other(white) \in Whites
    BY OtherWhite DEF GCTypeOK
  <2> QED
    BY <1>5, <1>6, <1>7, <2>1 DEF NonDead, Live, IsDead, Marker, Whites
<1>10. FreeClean' /\ PlaceRight'
  <2>1. \A x \in All : place[x] # Nothing => place[x][1] \in All
    BY DEF GCTypeOK
  <2> QED
    BY <1>0, <1>1, <1>5, <1>7, <2>1 DEF FreeClean, PlaceRight
<1>11. KindsRight'
  <2>1. place[t] = Nothing
    BY <1>1 DEF PlaceRight
  <2>2. \A x \in All : kind[x] \in {"string", "thread"} \/ place[x] # Nothing => refs'[x] = {}
    BY <1>5, <2>1 DEF KindsRight
  <2>3. \A x \in NonDead : kind[x] = "closure" => refs'[x] = refs[x]
    BY <1>5 DEF NonDead, Live
  <2> QED
    BY <1>0, <1>9, <2>2, <2>3 DEF KindsRight, Marker
<1>12. \A x \in All : x # t => Holds(x)' = Holds(x)
  BY <1>0, <1>5 DEF Holds, Stack, ValueOf
<1>13. Holds(t)' = R /\ Holds(t) = refs[t]
  BY <1>0, <1>6 DEF Holds
<1>14. ASSUME NEW x \in NonDead'  PROVE Holds(x)' \subseteq NonDead'
  <2>1. x \in All /\ Holds(x) \subseteq NonDead
    BY <1>9, <1>14 DEF Kept, NonDead, Live
  <2> QED
    BY <1>1, <1>9, <1>12, <1>13, <2>1
<1>15. ASSUME gcstate = "propagate", NEW x \in All, colour'[x] = "black", NEW y \in Holds(x)', y \notin Holds(x)
       PROVE  ~IsWhite(colour', y)
  <2>1. x = t /\ y = v
    BY <1>12, <1>13, <1>15
  <2>2. ~IsWhite(colour, v)
    BY <1>3, <1>6, <1>13, <1>15, <2>1
  <2> QED
    BY <1>1, <1>5, <1>6, <2>1, <2>2 DEF IsWhite
<1> QED
  BY <1>4, <1>8, <1>10, <1>11, <1>14, <1>15, CalmKeeps

LEMMA PutKeeps ==
    ASSUME GCIInv, NEW t, NEW v, Put(t, v)
    PROVE  GCIInv'
<1>1. t \in All /\ v \in All
  BY HandKept DEF Put
<1>2. refs[t] \cup {v} \in SUBSET All
  BY <1>1 DEF GCIInv, GCTypeOK
<1> QED
  BY <1>2, TableKeeps DEF Put

LEMMA RemoveKeeps ==
    ASSUME GCIInv, NEW t, NEW v, Remove(t, v)
    PROVE  GCIInv'
<1>1. t \in All /\ G \in Hand
  BY HandKept DEF Remove, Hand
<1>2. refs[t] \ {v} \in SUBSET All
  BY <1>1 DEF GCIInv, GCTypeOK
<1> QED
  BY <1>1, <1>2, TableKeeps DEF Remove

(* Whether a table is weak says nothing of what it holds.                  *)
LEMMA SetModeKeeps ==
    ASSUME GCIInv, NEW t, SetMode(t)
    PROVE  GCIInv'
<1> USE DEF GCIInv
<1>1. /\ kind' = kind /\ refs' = refs /\ slot' = slot /\ place' = place /\ colour' = colour
      /\ UNCHANGED <<Marker, gray, grayagain, weaklist>>
      /\ weak' = (weak \ {t}) \cup ({t} \ weak) /\ kind[t] = "table" /\ t # G
  BY DEF SetMode
<1>2. t \in All /\ colour[t] # "free"
  BY HandKept DEF SetMode
<1>3. GCTypeOK'
  BY <1>1, <1>2 DEF GCTypeOK, Marker
<1>4. FreeClean' /\ PlaceRight'
  BY <1>1, <1>2 DEF FreeClean, PlaceRight
<1>5. NonDead' = NonDead
  BY <1>1 DEF NonDead, Live, IsDead, Marker
<1>6. KindsRight'
  BY <1>1, <1>5 DEF KindsRight, Marker
<1>7. Calm
  BY <1>1 DEF Calm, Marker
<1>8. \A o \in All : Holds(o)' = Holds(o)
  BY <1>1 DEF Holds, Stack, ValueOf
<1>9. \A o \in NonDead' : Holds(o)' \subseteq NonDead'
  BY <1>5, <1>8 DEF Kept, NonDead, Live
<1> QED
  BY <1>3, <1>4, <1>6, <1>7, <1>8, <1>9, CalmKeeps

(* A write to userdata or to a closed upvalue: what has been visited has   *)
(* its new value marked, or is made white again while nothing is marked.   *)
LEMMA BarrierKeeps ==
    ASSUME GCIInv, NEW o \in NonDead, kind[o] \in {"udata", "upval"}, place[o] = Nothing, NEW v \in NonDead,
           refs' = [refs EXCEPT ![o] = {v}], Barrier(o, v),
           UNCHANGED <<kind, slot, place, weak, Marker>>
    PROVE  GCIInv'
<1> USE DEF GCIInv
<1>1. /\ kind' = kind /\ slot' = slot /\ place' = place /\ weak' = weak /\ gcstate' = gcstate
      /\ white' = white /\ tmudata' = tmudata /\ pending' = pending /\ full' = full /\ finalized' = finalized
  BY DEF Marker
<1>2. o \in All /\ colour[o] # "free" /\ v \in All /\ colour[v] # "free"
  BY HandKept
<1>3. refs' \in [All -> SUBSET All] /\ refs'[o] = {v} /\ \A x \in All : x # o => refs'[x] = refs[x]
  BY <1>2 DEF GCTypeOK
<1>4. \A x \in All : x # o => Holds(x)' = Holds(x)
  BY <1>1, <1>3 DEF Holds, Stack, ValueOf
<1>5. Holds(o)' = {v}
  BY <1>1, <1>3 DEF Holds, ValueOf
<1>6. white \in Whites /\ Other(white) \in Whites /\ Other(white) # white
  BY OtherWhite DEF GCTypeOK
<1>7. ASSUME \A x \in All : colour'[x] = "free" <=> colour[x] = "free", NonDead' = NonDead
      PROVE  /\ FreeClean' /\ PlaceRight' /\ KindsRight' /\ \A x \in NonDead' : Holds(x)' \subseteq NonDead'
  <2>1. \A x \in All : place[x] # Nothing => place[x][1] \in All
    BY DEF GCTypeOK
  <2>2. FreeClean' /\ PlaceRight'
    BY <1>1, <1>2, <1>3, <1>7, <2>1 DEF FreeClean, PlaceRight
  <2>3. \A x \in All : kind[x] \in {"string", "thread"} \/ place[x] # Nothing => refs'[x] = {}
    BY <1>3 DEF KindsRight
  <2>4. \A x \in NonDead : kind[x] = "closure" => refs'[x] = refs[x]
    BY <1>3 DEF NonDead, Live
  <2>5. KindsRight'
    BY <1>1, <1>7, <2>3, <2>4 DEF KindsRight
  <2> QED
    BY <1>2, <1>4, <1>5, <1>7, <2>2, <2>5 DEF Kept, NonDead, Live
<1>8. CASE ~(IsWhite(colour, v) /\ colour[o] = "black") \/ gcstate # "propagate"
  <2>1. /\ gray' = gray /\ grayagain' = grayagain /\ weaklist' = weaklist
        /\ \/ colour' = colour /\ ~(IsWhite(colour, v) /\ colour[o] = "black")
           \/ gcstate # "propagate" /\ colour[o] = "black" /\ colour' = [colour EXCEPT ![o] = white]
    BY <1>8 DEF Barrier
  <2>2. GCTypeOK'
    <3>1. colour' \in [All -> Colours]
      BY <1>6, <2>1 DEF GCTypeOK, Colours
    <3> QED
      BY <1>1, <1>3, <2>1, <3>1 DEF GCTypeOK
  <2>3. \A x \in All :
           \/ colour'[x] = colour[x]
           \/ colour[x] = "black" /\ colour'[x] = white /\ gcstate # "propagate"
    BY <2>1 DEF GCTypeOK
  <2>4. \A x \in All : colour'[x] = "free" <=> colour[x] = "free"
    BY <1>6, <2>3 DEF Whites
  <2>5. NonDead' = NonDead
    BY <1>1, <1>6, <2>3 DEF NonDead, Live, IsDead, Whites
  <2>6. Calm
    BY <1>1, <2>1, <2>3 DEF Calm
  <2>7. ASSUME gcstate = "propagate", NEW x \in All, colour'[x] = "black", NEW y \in Holds(x)', y \notin Holds(x)
        PROVE  ~IsWhite(colour', y)
    <3>1. x = o /\ y = v /\ colour' = colour
      BY <1>4, <1>5, <2>1, <2>7
    <3> QED
      BY <2>1, <2>7, <3>1
  <2> QED
    BY <1>7, <2>2, <2>4, <2>5, <2>6, <2>7, CalmKeeps
<1>9. CASE IsWhite(colour, v) /\ colour[o] = "black" /\ gcstate = "propagate"
  <2> DEFINE m == Marking
             r == Mark({v}, m)
  <2>1. colour' = r.colour /\ gray' = r.gray /\ grayagain' = r.again /\ weaklist' = r.weak
    BY <1>9 DEF Barrier, Marked
  <2>2. m \in MarkType /\ m.colour = colour
    BY DEF Marking, MarkType, GCTypeOK
  <2>3. MarkOK(m, tmudata, {}) /\ {v} \in SUBSET All
    BY <1>2, <1>9 DEF Marks
  <2>4. MarkOK(m, tmudata, {v})
    BY <2>3 DEF MarkOK
  <2> HIDE DEF m
  <2>5. MarkOK(r, tmudata, {})
    BY <2>2, <2>3, <2>4, MarkKeeps
  <2>6. Darkens(m, {v}, r)
    BY <2>2, <2>3, MarkFacts
  <2> HIDE DEF r
  <2>7. r \in MarkType /\ ~IsWhite(r.colour, v)
    BY <2>6 DEF Darkens
  <2>8. \A x \in All : colour'[x] # Other(white) /\ (colour'[x] = "free" <=> colour[x] = "free")
    BY <2>1, <2>5 DEF MarkOK
  <2>9. \A x \in All : colour[x] # Other(white)
    BY <2>2, <2>3 DEF MarkOK
  <2>10. NonDead' = NonDead
    BY <1>1, <2>8, <2>9 DEF NonDead, Live, IsDead
  <2>11. /\ FreeClean' /\ PlaceRight' /\ KindsRight' /\ \A x \in NonDead' : Holds(x)' \subseteq NonDead'
    BY <1>7, <2>8, <2>10
  <2>12. GCTypeOK'
    BY <1>1, <1>3, <2>1, <2>7 DEF GCTypeOK, MarkType
  <2>13. Kept'
    BY <1>1, <2>10, <2>11 DEF Kept
  <2>14. Swept'
    <3>1. Live' = Live /\ Open' = Open
      BY <1>1, <2>8 DEF Live, Open, Of
    <3>2. \A u \in Open : colour'[u] # "black"
      BY <2>1, <2>5 DEF MarkOK, Open, Of, Live
    <3> QED
      BY <1>1, <1>9, <3>1, <3>2 DEF Swept
  <2>15. Marks'
    <3>1. /\ \A x \in {M, G} : IsWhite(colour', x) => x \in {}
          /\ \A x \in gray' \cup grayagain' \cup weaklist' :
                colour'[x] \in {"gray", "black"} /\ kind[x] \in {"table", "closure", "thread"}
          /\ \A x \in All : colour'[x] = "black" => kind[x] # "thread" /\ place[x] = Nothing
          /\ \A x \in All \ tmudata : colour'[x] = "gray" =>
                x \in gray' \cup grayagain' \cup weaklist' \/ kind[x] = "string" \/ place[x] # Nothing
      BY <2>1, <2>5 DEF MarkOK, Lists
    <3>2. ASSUME NEW x \in All \ tmudata, colour'[x] = "black", NEW y \in Holds(x)'
          PROVE  ~IsWhite(colour', y)
      BY <1>4, <1>5, <2>1, <2>5, <2>7, <3>2 DEF MarkOK
    <3> QED
      BY <1>1, <2>8, <3>1, <3>2 DEF Marks, MarkOK, Marking, Lists
  <2> QED
    BY <2>11, <2>12, <2>13, <2>14, <2>15
<1> QED
  BY <1>8, <1>9

LEMMA SetEnvKeeps ==
    ASSUME GCIInv, NEW u, NEW t, SetEnv(u, t)
    PROVE  GCIInv'
<1>1. u \in NonDead /\ t \in NonDead /\ u \in All /\ kind[u] = "udata"
  BY HandKept DEF SetEnv
<1>2. place[u] = Nothing
  BY <1>1 DEF GCIInv, PlaceRight
<1> QED
  BY <1>1, <1>2, BarrierKeeps DEF SetEnv

LEMMA SetUpvalKeeps ==
    ASSUME GCIInv, NEW c, NEW v, SetUpval(c, v)
    PROVE  GCIInv'
<1>1. c \in NonDead /\ v \in NonDead /\ kind[c] = "closure"
  BY HandKept DEF SetUpval
<1>2. Holds(c) = refs[c]
  BY <1>1 DEF Holds
<1>3. PICK u \in refs[c] :
          IF place[u] = Nothing THEN refs' = [refs EXCEPT ![u] = {v}] /\ Barrier(u, v) /\ UNCHANGED slot
          ELSE /\ slot' = [slot EXCEPT ![place[u][1]][place[u][2]] = v]
               /\ UNCHANGED <<refs, colour, gray, grayagain, weaklist>>
  BY DEF SetUpval
<1>4. UNCHANGED <<kind, place, weak, Marker>>
  BY DEF SetUpval
<1>5. u \in NonDead /\ kind[u] = "upval" /\ u \in All
  BY <1>1, <1>2, HandKept DEF GCIInv, Kept, KindsRight
<1>6. CASE place[u] = Nothing
  BY <1>1, <1>3, <1>4, <1>5, <1>6, BarrierKeeps
<1>7. CASE place[u] # Nothing
  <2>1. place[u] \in All \X Levels
    BY <1>5, <1>7 DEF GCIInv, GCTypeOK
  <2>2. place[u][1] \in All /\ place[u][2] \in Levels
    BY <2>1
  <2>3. kind[place[u][1]] = "thread" /\ colour[place[u][1]] # "free"
    BY <1>5, <1>7 DEF GCIInv, PlaceRight
  <2> QED
    BY <1>1, <1>3, <1>4, <1>7, <2>2, <2>3, SlotKeeps
<1> QED
  BY <1>6, <1>7

(* A closure is made with an upvalue of a place on a stack that is there.  *)
LEMMA NewClosureKeeps ==
    ASSUME GCIInv, NEW o \in Obj, NEW u \in Obj, NEW th \in {M} \cup (Hand \cap Of("thread")),
           NEW n \in Levels, NEW i \in Levels, NewClosure(o, u, th, n, i)
    PROVE  GCIInv'
<1> USE DEF GCIInv
<1>1. /\ colour[o] = "free" /\ o # u /\ o \in All /\ u \in All
      /\ kind' = [kind EXCEPT ![o] = "closure", ![u] = "upval"]
      /\ colour' = [colour EXCEPT ![o] = white, ![u] = IF @ = "free" \/ IsDead(u) THEN white ELSE @]
      /\ place' = [place EXCEPT ![u] = <<th, n>>]
      /\ refs' = [refs EXCEPT ![o] = {u}]
      /\ slot' = [slot EXCEPT ![M][i] = o] /\ weak' = weak
      /\ UNCHANGED <<Marker, gray, grayagain, weaklist>>
  BY DEF NewClosure, Push, All
<1>2. colour[u] = "free" \/ (colour[u] # "free" /\ kind[u] = "upval" /\ place[u] = <<th, n>> /\ place[u] # Nothing)
  BY DEF NewClosure, Open, Of, Live
<1>3. th \in NonDead /\ th \in All /\ colour[th] # "free" /\ kind[th] = "thread"
  BY HandKept DEF Kept, KindsRight, Of
<1>4. M \in All /\ kind[M] = "thread" /\ colour[M] # "free" /\ o \notin {M, G} /\ u \notin {M, G} /\ th # o /\ th # u
  BY <1>1, <1>2, <1>3, HandKept, GCAssumption DEF Kept, KindsRight
<1>5. white # "free" /\ white \in Whites /\ Other(white) \in Whites /\ Other(white) # white
  BY OtherWhite DEF GCTypeOK, Whites
<1>6. /\ slot' \in [All -> [Levels -> All \cup {Nothing}]]
      /\ \A x \in All \ {M} : slot'[x] = slot[x]
  BY <1>1, <1>4, SlotType
<1>7. \A x \in All : x # o /\ x # u =>
         kind'[x] = kind[x] /\ colour'[x] = colour[x] /\ place'[x] = place[x] /\ refs'[x] = refs[x]
  BY <1>1 DEF GCTypeOK
<1>8. kind'[o] = "closure" /\ colour'[o] = white /\ place'[o] = place[o] /\ refs'[o] = {u}
  BY <1>1 DEF GCTypeOK
<1>9. /\ kind'[u] = "upval" /\ colour'[u] = IF colour[u] \in {"free", Other(white)} THEN white ELSE colour[u]
      /\ place'[u] = <<th, n>> /\ refs'[u] = refs[u]
  BY <1>1 DEF GCTypeOK, IsDead
<1>10. <<th, n>> \in All \X Levels /\ <<th, n>> # Nothing /\ <<th, n>>[1] = th /\ <<th, n>>[2] = n
  BY <1>3, GCAssumption DEF All, Levels
<1>11. GCTypeOK'
  <2>1. colour' \in [All -> Colours]
    BY <1>1, <1>5 DEF GCTypeOK, Colours
  <2>2. place' \in [All -> (All \X Levels) \cup {Nothing}]
    BY <1>1, <1>10 DEF GCTypeOK
  <2>3. kind' \in [All -> Kinds]
    BY <1>1 DEF GCTypeOK, Kinds
  <2>4. refs' \in [All -> SUBSET All]
    BY <1>1 DEF GCTypeOK
  <2> QED
    BY <1>1, <1>6, <2>1, <2>2, <2>3, <2>4 DEF GCTypeOK, Marker
<1>12. /\ refs[o] = {} /\ place[o] = Nothing /\ o \notin weak
       /\ refs[u] = {} /\ u \notin weak /\ (colour[u] = "free" => place[u] = Nothing)
  BY <1>1, <1>2 DEF FreeClean, KindsRight
<1>13. colour'[o] # "free" /\ colour'[u] # "free"
  BY <1>5, <1>8, <1>9
<1>14. FreeClean'
  <2>1. ASSUME NEW x \in All, colour'[x] = "free" \/ kind'[x] # "thread", NEW j \in Levels
        PROVE  slot'[x][j] = Nothing
    <3>1. slot[o][j] = Nothing /\ slot[u][j] = Nothing
      BY <1>1, <1>2 DEF FreeClean
    <3>2. x # M
      BY <1>4, <1>7, <2>1
    <3> QED
      BY <1>6, <1>7, <2>1, <3>1, <3>2 DEF FreeClean
  <2> QED
    BY <1>1, <1>7, <1>13, <2>1 DEF FreeClean
<1>15. Calm
  <2>1. /\ gcstate' = gcstate /\ white' = white /\ tmudata' = tmudata /\ pending' = pending
        /\ gray' = gray /\ weaklist' = weaklist /\ grayagain' = grayagain
    BY <1>1 DEF Marker
  <2>2. ASSUME NEW x \in All
        PROVE  \/ colour'[x] = colour[x]
               \/ colour[x] \in {"free", Other(white)} /\ colour'[x] = white
    <3>1. CASE x = o
      BY <1>1, <1>8, <3>1
    <3>2. CASE x = u
      BY <1>9, <3>2
    <3>3. CASE x # o /\ x # u
      BY <1>7, <3>3
    <3> QED
      BY <3>1, <3>2, <3>3
  <2>3. ASSUME NEW x \in All, colour[x] # "free"
        PROVE  kind'[x] = kind[x] /\ place'[x] = place[x]
    <3>1. CASE x = u
      BY <1>2, <1>9, <2>3, <3>1
    <3>2. CASE x # u
      BY <1>1, <1>7, <2>3, <3>2
    <3> QED
      BY <3>1, <3>2
  <2> QED
    BY <2>1, <2>2, <2>3 DEF Calm
<1>16. NonDead' = NonDead \cup {o, u}
  <2>1. white' = white
    BY <1>1 DEF Marker
  <2>2. ASSUME NEW x \in All, x # o, x # u  PROVE x \in NonDead' <=> x \in NonDead
    BY <1>7, <2>1, <2>2 DEF NonDead, Live, IsDead
  <2>3. o \in NonDead' /\ u \in NonDead'
    BY <1>1, <1>5, <1>8, <1>9, <2>1 DEF NonDead, Live, IsDead
  <2>4. NonDead' \subseteq All /\ NonDead \subseteq All
    BY DEF NonDead, Live
  <2> QED
    BY <1>1, <2>2, <2>3, <2>4
<1>17. o \notin tmudata /\ u \notin tmudata /\ o \notin NonDead
  BY <1>1, <1>2 DEF NonDead, Live, Kept, KindsRight
<1>18. PlaceRight'
  <2>1. ASSUME NEW x \in All, place'[x] # Nothing, x # u
        PROVE  /\ kind'[x] = "upval" /\ colour'[x] # "free"
               /\ kind'[place'[x][1]] = "thread" /\ colour'[place'[x][1]] # "free"
    <3>1. place'[x] = place[x] /\ x # o
      BY <1>7, <1>8, <1>12, <2>1
    <3>2. place[x][1] \in All
      BY <2>1, <3>1 DEF GCTypeOK
    <3>3. place[x][1] # o /\ place[x][1] # u
      BY <1>1, <1>2, <2>1, <3>1 DEF PlaceRight
    <3> QED
      BY <1>7, <2>1, <3>1, <3>2, <3>3 DEF PlaceRight
  <2>2. kind'[th] = "thread" /\ colour'[th] # "free"
    BY <1>3, <1>4, <1>7
  <2> QED
    BY <1>9, <1>10, <1>13, <2>1, <2>2 DEF PlaceRight
<1>19. KindsRight'
  <2>1. kind'[M] = "thread" /\ kind'[G] = "table" /\ G \notin weak'
    BY <1>1, <1>4, <1>7 DEF KindsRight, All
  <2>2. \A x \in weak' : kind'[x] = "table"
    BY <1>1, <1>7, <1>12 DEF KindsRight, GCTypeOK
  <2>3. \A x \in tmudata' : kind'[x] = "udata"
    BY <1>1, <1>7, <1>17 DEF KindsRight, GCTypeOK, Marker
  <2>4. \A x \in All : kind'[x] \in {"string", "thread"} \/ place'[x] # Nothing => refs'[x] = {}
    BY <1>7, <1>8, <1>9, <1>12 DEF KindsRight
  <2>5. ASSUME NEW x \in NonDead', kind'[x] = "closure", NEW w \in refs'[x]
        PROVE kind'[w] = "upval"
    <3>1. CASE x = o
      BY <1>8, <1>9, <2>5, <3>1
    <3>2. CASE x # o
      <4>1. x \in NonDead /\ x \in All /\ kind[x] = "closure" /\ w \in refs[x]
        BY <1>7, <1>9, <1>16, <2>5, <3>2 DEF NonDead, Live
      <4>2. Holds(x) = refs[x]
        BY <4>1 DEF Holds
      <4>3. w \in NonDead /\ w \in All /\ kind[w] = "upval"
        BY <4>1, <4>2 DEF Kept, KindsRight, NonDead, Live
      <4> QED
        BY <1>7, <1>9, <1>17, <4>3
    <3> QED
      BY <3>1, <3>2
  <2> QED
    BY <2>1, <2>2, <2>3, <2>4, <2>5 DEF KindsRight
<1>20. ASSUME NEW x \in All, x # o, x # u \/ colour[u] # "free"
       PROVE  /\ \A y \in Holds(x)' : y \in Holds(x) \/ y = o
              /\ kind[x] # "thread" /\ place[x] = Nothing => Holds(x)' = Holds(x)
  <2>1. kind'[x] = kind[x] /\ place'[x] = place[x] /\ refs'[x] = refs[x]
    BY <1>2, <1>7, <1>9, <1>20
  <2> QED
    BY <1>1, <1>4, <1>20, <2>1, SlotHolds
<1>21. Holds(o)' = {u}
  BY <1>8 DEF Holds
<1>22. \A y \in Holds(u)' : y \in Holds(th) \/ y = o
  <2>1. Holds(u)' = {slot'[th][n]} \ {Nothing}
    BY <1>9, <1>10 DEF Holds, ValueOf
  <2>2. slot'[th][n] = slot[th][n] \/ slot'[th][n] = o
    BY <1>1, <1>3, <1>4 DEF GCTypeOK
  <2>3. slot[th][n] # Nothing => slot[th][n] \in Holds(th)
    BY <1>3 DEF Holds, Stack
  <2> QED
    BY <2>1, <2>2, <2>3
<1>23. ASSUME NEW x \in NonDead'  PROVE Holds(x)' \subseteq NonDead'
  <2>1. CASE x = o
    BY <1>16, <1>21, <2>1
  <2>2. CASE x = u
    BY <1>3, <1>16, <1>22, <2>2 DEF Kept
  <2>3. CASE x # o /\ x # u
    BY <1>16, <1>20, <1>23, <2>3 DEF Kept, NonDead, Live
  <2> QED
    BY <2>1, <2>2, <2>3
<1>24. ASSUME gcstate = "propagate", NEW x \in All, colour'[x] = "black", NEW y \in Holds(x)', y \notin Holds(x)
       PROVE  FALSE
  <2>1. x # o /\ colour[x] = "black" /\ (x # u \/ colour[u] # "free")
    BY <1>5, <1>7, <1>8, <1>9, <1>24 DEF Whites
  <2>2. kind[x] # "thread" /\ place[x] = Nothing
    BY <1>24, <2>1 DEF Marks, MarkOK, Marking
  <2> QED
    BY <1>20, <1>24, <2>1, <2>2
<1> QED
  BY <1>11, <1>14, <1>15, <1>18, <1>19, <1>23, <1>24, CalmKeeps

(* Upvalues are closed: those that are dead are freed, into the others the *)
(* value moves, and what has been visited has it marked.                   *)
LEMMA CloseKeeps ==
    ASSUME GCIInv, NEW th, NEW n \in Levels, Close(th, n)
    PROVE  GCIInv'
<1> USE DEF GCIInv
<1> DEFINE uvs == {u \in Open : place[u][1] = th /\ place[u][2] >= n}
           dead == {u \in uvs : IsDead(u)}
           kept == uvs \ dead
           grays == {u \in kept : colour[u] = "gray"}
           S == UNION {ValueOf(u) : u \in grays}
           linked == IF gcstate = "propagate" THEN "black" ELSE white
           m == IF gcstate = "propagate" THEN Mark(S, Marking) ELSE Marking
<1>1. /\ colour' = [o \in All |-> IF o \in dead THEN "free"
                                  ELSE IF o \in kept /\ m.colour[o] = "gray" THEN linked ELSE m.colour[o]]
      /\ grayagain' = grayagain /\ weaklist' = weaklist /\ gray' = m.gray
      /\ refs' = [o \in All |-> IF o \in kept THEN ValueOf(o) ELSE refs[o]]
      /\ place' = [o \in All |-> IF o \in uvs THEN Nothing ELSE place[o]]
      /\ kind' = [o \in All |-> IF o \in dead THEN "table" ELSE kind[o]]
      /\ slot' = slot /\ weak' = weak /\ UNCHANGED Marker
  BY DEF Close
<1>2. /\ gcstate' = gcstate /\ white' = white /\ tmudata' = tmudata /\ pending' = pending
      /\ full' = full /\ finalized' = finalized
  BY <1>1 DEF Marker
<1>3. \A u \in uvs : /\ u \in All /\ u \in Open /\ kind[u] = "upval" /\ place[u] # Nothing
                    /\ colour[u] # "free" /\ colour[u] # "black"
                    /\ ValueOf(u) = Holds(u) /\ Strong(u) = Holds(u) /\ Holds(u) \subseteq All
  BY HoldsType DEF Open, Of, Live, Holds, Swept, Strong, KindsRight
<1>4. S \in SUBSET All
  BY <1>3
<1>5. /\ m \in MarkType /\ m.again = grayagain /\ m.weak = weaklist
      /\ gcstate # "propagate" => m.colour = colour /\ m.gray = gray
      /\ gcstate = "propagate" => /\ MarkOK(m, tmudata, {}) /\ Darkens(Marking, S, m) /\ dead = {}
                                  /\ \A o \in All : colour[o] # Other(white)
  <2>1. Marking \in MarkType
    BY DEF Marking, MarkType, GCTypeOK
  <2>2. CASE gcstate # "propagate"
    BY <2>1, <2>2 DEF Marking
  <2>3. CASE gcstate = "propagate"
    <3>1. MarkOK(Marking, tmudata, {})
      BY <2>3 DEF Marks
    <3>2. MarkOK(Marking, tmudata, S)
      BY <3>1 DEF MarkOK
    <3>3. m = Mark(S, Marking)
      BY <2>3
    <3> HIDE DEF m, S
    <3>4. MarkOK(m, tmudata, {})
      BY <1>4, <2>1, <3>2, <3>3, MarkKeeps
    <3>5. Darkens(Marking, S, m)
      BY <1>4, <2>1, <3>3, MarkFacts
    <3>6. \A o \in All : colour[o] # Other(white)
      BY <3>1 DEF MarkOK, Marking
    <3>7. dead = {}
      BY <1>3, <3>6 DEF IsDead
    <3> QED
      BY <2>3, <3>4, <3>5, <3>6, <3>7 DEF Darkens, Marking
  <2> QED
    BY <2>2, <2>3
<1> HIDE DEF m, S
<1>6. \A o \in dead : o \in uvs /\ colour[o] = Other(white)
  BY DEF IsDead
<1>7. \A o \in kept : o \in uvs /\ colour[o] # Other(white) /\ o \notin dead
  BY DEF IsDead
<1>8. \A o \in uvs : o \in kept \/ o \in dead
  OBVIOUS
<1>9. \A o \in grays : o \in kept
  OBVIOUS
<1>10. \A o \in kept : colour[o] = "gray" => \A y \in Holds(o) : y \in S
  BY <1>3, <1>7 DEF S
<1> HIDE DEF dead, kept, grays
<1>11. white \in Whites /\ Other(white) \in Whites /\ Other(white) # white
  BY OtherWhite DEF GCTypeOK
<1>12. \A o \in kept : colour[o] = white \/ colour[o] = "gray"
  <2>1. \A c \in Colours : c = "free" \/ c = "black" \/ c = "gray" \/ c = white \/ c = Other(white)
    BY DEF Colours, Whites, Other, GCTypeOK
  <2> QED
    BY <1>3, <1>7, <2>1 DEF GCTypeOK
<1> HIDE DEF uvs
<1>13. \A o \in All :
          /\ o \in dead => colour'[o] = "free"
          /\ o \in kept /\ m.colour[o] = "gray" => colour'[o] = linked
          /\ o \in kept /\ m.colour[o] # "gray" => colour'[o] = m.colour[o]
          /\ o \notin uvs => colour'[o] = m.colour[o]
  BY <1>1, <1>6, <1>7
<1>14. /\ \A o \in All : (m.colour[o] = "free") <=> (colour[o] = "free")
       /\ \A o \in All : (m.colour[o] = Other(white)) <=> (colour[o] = Other(white))
  BY <1>5 DEF MarkOK
<1>15. \A o \in All \ dead : /\ colour'[o] = "free" <=> colour[o] = "free"
                             /\ colour'[o] = Other(white) <=> colour[o] = Other(white)
  BY <1>3, <1>7, <1>8, <1>11, <1>13, <1>14 DEF Whites
<1>16. NonDead' = NonDead
  <2>1. \A o \in dead : colour'[o] = "free" /\ o \in All
    BY <1>3, <1>6, <1>13
  <2> QED
    BY <1>2, <1>6, <1>15, <2>1 DEF NonDead, Live, IsDead
<1>17. /\ \A o \in All : o \notin uvs => refs'[o] = refs[o] /\ place'[o] = place[o] /\ kind'[o] = kind[o]
       /\ \A o \in kept : refs'[o] = Holds(o) /\ place'[o] = Nothing /\ kind'[o] = "upval"
       /\ \A o \in dead : refs'[o] = {} /\ place'[o] = Nothing /\ kind'[o] = "table"
  <2>1. ASSUME NEW o \in All, o \notin uvs
        PROVE  refs'[o] = refs[o] /\ place'[o] = place[o] /\ kind'[o] = kind[o]
    <3>1. o \notin kept /\ o \notin dead
      BY <1>6, <1>7, <2>1
    <3> QED
      BY <1>1, <2>1, <3>1
  <2>2. ASSUME NEW o \in kept
        PROVE  refs'[o] = Holds(o) /\ place'[o] = Nothing /\ kind'[o] = "upval"
    <3>1. o \in All /\ o \in uvs /\ o \notin dead /\ kind[o] = "upval" /\ ValueOf(o) = Holds(o)
      BY <1>3, <1>7, <2>2
    <3> QED
      BY <1>1, <2>2, <3>1
  <2>3. ASSUME NEW o \in dead
        PROVE  refs'[o] = {} /\ place'[o] = Nothing /\ kind'[o] = "table"
    <3>1. o \in All /\ o \in uvs /\ refs[o] = {}
      BY <1>3, <1>6, <2>3 DEF KindsRight
    <3>2. o \notin kept
      BY <1>6, <1>7, <2>3
    <3> QED
      BY <1>1, <2>3, <3>1, <3>2
  <2> QED
    BY <2>1, <2>2, <2>3
<1>18. ASSUME NEW o \in All, o \notin dead  PROVE Holds(o)' = Holds(o) /\ kind'[o] = kind[o]
  <2>1. CASE o \in kept
    <3>1. kind[o] = "upval" /\ kind'[o] = "upval" /\ place'[o] = Nothing /\ refs'[o] = Holds(o)
      BY <1>3, <1>7, <1>17, <2>1
    <3> QED
      BY <3>1 DEF Holds, ValueOf
  <2>2. CASE o \notin uvs
    <3>1. refs'[o] = refs[o] /\ place'[o] = place[o] /\ kind'[o] = kind[o] /\ slot' = slot
      BY <1>1, <1>17, <1>18, <2>2
    <3> QED
      BY <3>1 DEF Holds, Stack, ValueOf
  <2> QED
    BY <1>8, <1>18, <2>1, <2>2
<1>19. \A o \in NonDead : o \in All /\ o \notin dead
  BY <1>6 DEF NonDead, Live, IsDead
<1>20. GCTypeOK'
  <2>1. linked \in Colours
    BY DEF GCTypeOK, Colours
  <2> HIDE DEF linked
  <2>2. colour' \in [All -> Colours]
    <3>1. "free" \in Colours /\ m.colour \in [All -> Colours]
      BY <1>5 DEF Colours, MarkType
    <3> QED
      BY <1>1, <2>1, <3>1
  <2>3. refs' \in [All -> SUBSET All]
    BY <1>1, <1>3, <1>7 DEF GCTypeOK
  <2>4. place' \in [All -> (All \X Levels) \cup {Nothing}]
    BY <1>1 DEF GCTypeOK
  <2>5. kind' \in [All -> Kinds]
    BY <1>1 DEF GCTypeOK, Kinds
  <2>6. gray' \subseteq All
    BY <1>1, <1>5 DEF MarkType
  <2> QED
    BY <1>1, <1>2, <2>2, <2>3, <2>4, <2>5, <2>6 DEF GCTypeOK
<1>21. FreeClean'
  <2>1. ASSUME NEW o \in All, colour'[o] = "free"
        PROVE  refs'[o] = {} /\ place'[o] = Nothing /\ o \notin weak
    <3>1. CASE o \in dead
      BY <1>3, <1>6, <1>17, <3>1 DEF KindsRight
    <3>2. CASE o \notin dead
      <4>1. colour[o] = "free" /\ o \notin uvs
        BY <1>3, <1>15, <2>1, <3>2
      <4> QED
        BY <1>17, <4>1 DEF FreeClean
    <3> QED
      BY <3>1, <3>2
  <2>2. ASSUME NEW o \in All, colour'[o] = "free" \/ kind'[o] # "thread", NEW j \in Levels
        PROVE  slot[o][j] = Nothing
    <3>1. CASE o \in uvs
      BY <1>3, <3>1 DEF FreeClean
    <3>2. CASE o \notin uvs
      <4>1. o \notin dead
        BY <1>6, <3>2
      <4> QED
        BY <1>15, <1>17, <2>2, <3>2, <4>1 DEF FreeClean
    <3> QED
      BY <3>1, <3>2
  <2> QED
    BY <1>1, <2>1, <2>2 DEF FreeClean
<1>22. PlaceRight'
  <2>1. ASSUME NEW o \in All, place'[o] # Nothing
        PROVE  /\ kind'[o] = "upval" /\ colour'[o] # "free"
               /\ kind'[place'[o][1]] = "thread" /\ colour'[place'[o][1]] # "free"
    <3>1. o \notin uvs /\ o \notin dead
      BY <1>6, <1>8, <1>17, <2>1
    <3>2. place'[o] = place[o] /\ place[o][1] \in All
      BY <1>17, <2>1, <3>1 DEF GCTypeOK
    <3>3. kind[place[o][1]] = "thread"
      BY <2>1, <3>2 DEF PlaceRight
    <3>4. place[o][1] \notin uvs /\ place[o][1] \notin dead
      BY <1>3, <1>6, <3>3
    <3> QED
      BY <1>15, <1>17, <2>1, <3>1, <3>2, <3>4 DEF PlaceRight
  <2> QED
    BY <2>1 DEF PlaceRight
<1>23. KindsRight'
  <2>1. kind'[M] = "thread" /\ kind'[G] = "table" /\ G \notin weak'
    BY <1>1, <1>18, <1>19 DEF KindsRight, Kept
  <2>2. ASSUME NEW o \in weak  PROVE kind'[o] = "table"
    <3>1. o \in All /\ kind[o] = "table"
      BY <2>2 DEF KindsRight, GCTypeOK
    <3> QED
      BY <1>17, <1>18, <3>1
  <2>3. \A o \in tmudata : kind'[o] = "udata"
    BY <1>18, <1>19 DEF KindsRight, Kept
  <2>4. ASSUME NEW o \in All, kind'[o] \in {"string", "thread"} \/ place'[o] # Nothing
        PROVE  refs'[o] = {}
    BY <1>8, <1>17, <2>4 DEF KindsRight
  <2>5. ASSUME NEW o \in NonDead, kind'[o] = "closure", NEW u \in refs'[o]  PROVE kind'[u] = "upval"
    <3>1. o \in All /\ o \notin uvs /\ kind[o] = "closure" /\ refs'[o] = refs[o]
      BY <1>8, <1>17, <1>19, <2>5
    <3>2. Holds(o) = refs[o]
      BY <3>1 DEF Holds
    <3>3. u \in NonDead /\ kind[u] = "upval"
      BY <2>5, <3>1, <3>2 DEF Kept, KindsRight
    <3> QED
      BY <1>18, <1>19, <3>3
  <2> QED
    BY <1>1, <1>2, <1>16, <2>1, <2>2, <2>3, <2>4, <2>5 DEF KindsRight
<1>24. Kept'
  BY <1>2, <1>16, <1>18, <1>19 DEF Kept
<1>25. Swept'
  <2>1. ASSUME NEW o \in pending  PROVE o \in Live' \ Open'
    <3>1. o \in All /\ colour[o] # "free" /\ o \notin Open /\ o \notin uvs
      BY <1>3, <2>1 DEF Swept, Live
    <3>2. o \notin dead /\ place'[o] = place[o] /\ kind'[o] = kind[o]
      BY <1>6, <1>17, <3>1
    <3> QED
      BY <1>15, <3>1, <3>2 DEF Live, Open, Of
  <2>2. ASSUME NEW u \in Open'  PROVE colour'[u] # "black"
    <3>1. u \in All /\ place'[u] # Nothing /\ colour'[u] # "free"
      BY <2>2 DEF Open, Of, Live
    <3>2. u \notin uvs /\ place[u] # Nothing
      BY <1>8, <1>17, <3>1
    <3>3. m.colour[u] # "black"
      <4>1. CASE gcstate = "propagate"
        BY <1>5, <3>1, <3>2, <4>1 DEF MarkOK
      <4>2. CASE gcstate # "propagate"
        BY <1>5, <3>1, <3>2, <4>2 DEF Swept, Open, Of, Live, PlaceRight
      <4> QED
        BY <4>1, <4>2
    <3> QED
      BY <1>13, <3>1, <3>2, <3>3
  <2>3. ASSUME gcstate # "propagate", NEW o \in Live' \ (tmudata \cup pending),
               place'[o] # Nothing => place'[o][1] \notin pending
        PROVE  colour'[o] = white
    <3>1. o \in All /\ colour'[o] # "free" /\ m.colour = colour
      BY <1>5, <2>3 DEF Live
    <3>2. o \notin dead
      BY <1>13, <3>1
    <3>3. CASE o \in kept
      BY <1>12, <1>13, <2>3, <3>1, <3>3
    <3>4. CASE o \notin uvs
      <4>1. o \in Live /\ place'[o] = place[o] /\ colour'[o] = colour[o]
        BY <1>13, <1>17, <3>1, <3>4 DEF Live
      <4> QED
        BY <2>3, <4>1 DEF Swept
    <3> QED
      BY <1>8, <3>2, <3>3, <3>4
  <2> QED
    BY <1>2, <2>1, <2>2, <2>3 DEF Swept
<1>26. Marks'
  <2> SUFFICES ASSUME gcstate = "propagate"  PROVE MarkOK(Marking, tmudata, {})'
    BY <1>2 DEF Marks
  <2>1. linked = "black" /\ MarkOK(m, tmudata, {}) /\ Darkens(Marking, S, m) /\ dead = {}
    BY <1>5
  <2> HIDE DEF linked
  <2>2. \A o \in All : colour'[o] # Other(white)
    BY <1>5, <1>6, <1>15, <2>1
  <2>3. \A o \in All : IsWhite(colour', o) => IsWhite(m.colour, o)
    BY <1>8, <1>13, <2>1 DEF IsWhite
  <2>4. ASSUME NEW o \in gray' \cup grayagain' \cup weaklist'
        PROVE  colour'[o] \in {"gray", "black"} /\ kind'[o] \in {"table", "closure", "thread"}
    <3>1. o \in Lists(m) /\ o \in All
      BY <1>1, <1>5, <2>4 DEF Lists, MarkType
    <3>2. m.colour[o] \in {"gray", "black"} /\ kind[o] \in {"table", "closure", "thread"}
      BY <2>1, <3>1 DEF MarkOK
    <3>3. o \notin uvs
      BY <1>3, <3>2
    <3> QED
      BY <1>13, <1>17, <3>1, <3>2, <3>3
  <2>5. ASSUME NEW o \in All, colour'[o] = "black"  PROVE kind'[o] # "thread" /\ place'[o] = Nothing
    <3>1. CASE o \in uvs
      BY <1>8, <1>17, <3>1
    <3>2. CASE o \notin uvs
      BY <1>13, <1>17, <2>1, <2>5, <3>2 DEF MarkOK
    <3> QED
      BY <3>1, <3>2
  <2>6. ASSUME NEW o \in All \ tmudata, colour'[o] = "gray"
        PROVE  o \in gray' \cup grayagain' \cup weaklist' \/ kind'[o] = "string" \/ place'[o] # Nothing
    <3>1. o \notin uvs
      BY <1>8, <1>13, <2>1, <2>6
    <3>2. o \in Lists(m) \/ kind[o] = "string" \/ place[o] # Nothing
      BY <1>13, <2>1, <2>6, <3>1 DEF MarkOK
    <3> QED
      BY <1>1, <1>5, <1>17, <3>1, <3>2 DEF Lists
  <2>7. ASSUME NEW o \in All \ tmudata, colour'[o] = "black", NEW y \in Holds(o)'
        PROVE  ~IsWhite(colour', y)
    <3>1. y \in Holds(o) /\ y \in All
      BY <1>18, <2>1, <2>7, HoldsType
    <3>2. CASE m.colour[o] = "black"
      BY <2>1, <2>3, <2>7, <3>1, <3>2 DEF MarkOK
    <3>3. CASE m.colour[o] # "black"
      <4>1. o \in kept /\ m.colour[o] = "gray"
        BY <1>8, <1>13, <2>1, <2>7, <3>3
      <4>2. kind[o] = "upval" /\ Strong(o) = Holds(o)
        BY <1>3, <1>7, <4>1
      <4>3. CASE colour[o] = "gray"
        BY <1>10, <2>1, <2>3, <3>1, <4>1, <4>3 DEF Darkens
      <4>4. CASE colour[o] = white
        <5>1. IsWhite(colour, o) /\ ~IsWhite(m.colour, o)
          BY <1>11, <4>1, <4>4 DEF IsWhite, Whites
        <5>2. \A x \in All : IsWhite(colour, x) /\ ~IsWhite(m.colour, x) /\ kind[x] \in {"udata", "upval"} =>
                 \A z \in Strong(x) : ~IsWhite(m.colour, z)
          BY <2>1 DEF Darkens, Marking
        <5> QED
          BY <2>3, <3>1, <4>2, <5>1, <5>2
      <4> QED
        BY <1>12, <4>1, <4>3, <4>4
    <3> QED
      BY <3>2, <3>3
  <2>8. /\ \A o \in {M, G} : IsWhite(colour', o) => o \in {}
        /\ tmudata' = tmudata /\ white' = white
    BY <1>2, <2>1, <2>3 DEF MarkOK, All
  <2> QED
    BY <2>2, <2>4, <2>5, <2>6, <2>7, <2>8 DEF MarkOK, Marking, Lists
<1> QED
  BY <1>20, <1>21, <1>22, <1>23, <1>24, <1>25, <1>26

-----------------------------------------------------------------------------
(* The collector marks: what is dead was swept before, so that nothing is. *)
LEMMA MarkedKeeps ==
    ASSUME GCIInv, NEW r \in MarkType, MarkOK(r, tmudata, {}), Marked(r), gcstate' = "propagate", pending = {},
           \A o \in All : colour[o] # Other(white), full' \in {"no", "sweep", "mark"},
           UNCHANGED <<heap, finalized, white, tmudata, pending>>
    PROVE  GCIInv'
<1> USE DEF GCIInv
<1>1. /\ kind' = kind /\ refs' = refs /\ slot' = slot /\ place' = place /\ weak' = weak
      /\ white' = white /\ tmudata' = tmudata /\ pending' = {} /\ finalized' = finalized
  BY DEF heap
<1>2. colour' = r.colour /\ gray' = r.gray /\ grayagain' = r.again /\ weaklist' = r.weak
  BY DEF Marked
<1>3. \A x \in All : colour'[x] # Other(white) /\ (colour'[x] = "free" <=> colour[x] = "free")
  BY <1>2 DEF MarkOK
<1>4. NonDead' = NonDead
  BY <1>1, <1>3 DEF NonDead, Live, IsDead
<1>5. \A o \in All : Holds(o)' = Holds(o)
  BY <1>1 DEF Holds, Stack, ValueOf
<1>6. GCTypeOK'
  BY <1>1, <1>2 DEF GCTypeOK, MarkType, Phases
<1>7. FreeClean' /\ PlaceRight' /\ KindsRight'
  <2>1. \A x \in All : place[x] # Nothing => place[x][1] \in All
    BY DEF GCTypeOK
  <2> QED
    BY <1>1, <1>3, <1>4, <2>1 DEF FreeClean, PlaceRight, KindsRight
<1>8. Kept'
  BY <1>1, <1>4, <1>5 DEF Kept, NonDead, Live
<1>9. Swept'
  <2>1. \A u \in Open' : colour'[u] # "black"
    BY <1>1, <1>2 DEF MarkOK, Open, Of, Live
  <2> QED
    BY <1>1, <2>1 DEF Swept
<1>10. Marks'
  <2>1. /\ \A x \in {M, G} : IsWhite(colour', x) => x \in {}
        /\ \A x \in gray' \cup grayagain' \cup weaklist' :
              colour'[x] \in {"gray", "black"} /\ kind[x] \in {"table", "closure", "thread"}
        /\ \A x \in All : colour'[x] = "black" => kind[x] # "thread" /\ place[x] = Nothing
        /\ \A x \in All \ tmudata : colour'[x] = "gray" =>
              x \in gray' \cup grayagain' \cup weaklist' \/ kind[x] = "string" \/ place[x] # Nothing
    BY <1>2 DEF MarkOK, Lists
  <2>2. ASSUME NEW x \in All \ tmudata, colour'[x] = "black", NEW y \in Holds(x)'
        PROVE  ~IsWhite(colour', y)
    BY <1>2, <1>5, <2>2 DEF MarkOK
  <2> QED
    BY <1>1, <1>3, <2>1, <2>2 DEF Marks, MarkOK, Marking, Lists
<1> QED
  BY <1>6, <1>7, <1>8, <1>9, <1>10

LEMMA StartMarkingKeeps ==
    ASSUME GCIInv, StartMarking
    PROVE  GCIInv'
<1> USE DEF GCIInv
<1> DEFINE m == [colour |-> colour, gray |-> {}, again |-> {}, weak |-> {}]
<1>1. /\ gcstate \in {"pause", "finalize"} /\ gcstate' = "propagate" /\ Marked(MarkRoot)
      /\ full' \in {"no", "sweep", "mark"} /\ UNCHANGED <<heap, finalized, white, tmudata, pending>>
  BY DEF StartMarking, GCTypeOK
<1>2. m \in MarkType /\ m.colour = colour /\ Lists(m) = {}
  BY DEF MarkType, GCTypeOK, Lists
<1>3. MarkRoot = Mark({M, G}, m)
  BY DEF MarkRoot
<1> HIDE DEF m
<1>4. pending = {} /\ \A o \in All : colour[o] # "free" /\ o \notin tmudata => colour[o] = white
  BY <1>1 DEF Swept, Live
<1>5. white \in Whites /\ Other(white) \in Whites /\ Other(white) # white
  BY OtherWhite DEF GCTypeOK
<1>6. \A o \in tmudata : colour[o] # Other(white) /\ kind[o] = "udata"
  BY DEF Kept, NonDead, IsDead, KindsRight
<1>7. \A o \in All : colour[o] # Other(white)
  BY <1>4, <1>5, <1>6 DEF Whites
<1>8. \A o \in All : colour[o] \in {"gray", "black"} => o \in tmudata
  BY <1>4, <1>5 DEF Whites
<1>9. \A o \in All : colour[o] = "black" => kind[o] # "thread" /\ place[o] = Nothing
  BY <1>6, <1>8 DEF PlaceRight
<1>10. MarkOK(m, tmudata, {M, G})
  BY <1>2, <1>7, <1>8, <1>9 DEF MarkOK
<1>11. {M, G} \in SUBSET All
  BY DEF All
<1>12. MarkOK(MarkRoot, tmudata, {}) /\ MarkRoot \in MarkType
  <2>1. MarkOK(MarkRoot, tmudata, {})
    BY <1>2, <1>3, <1>10, <1>11, MarkKeeps
  <2>2. Darkens(m, {M, G}, MarkRoot)
    BY <1>2, <1>3, <1>11, MarkFacts
  <2> QED
    BY <2>1, <2>2 DEF Darkens
<1> QED
  BY <1>1, <1>4, <1>7, <1>12, MarkedKeeps

LEMMA PropagateStepKeeps ==
    ASSUME GCIInv, PropagateStep
    PROVE  GCIInv'
<1> USE DEF GCIInv
<1>1. /\ gcstate = "propagate" /\ gcstate' = gcstate /\ full' = full
      /\ UNCHANGED <<heap, finalized, white, tmudata, pending>>
  BY DEF PropagateStep
<1>2. Marking \in MarkType /\ Marking.gray = gray /\ Marking.colour = colour
  BY DEF Marking, MarkType, GCTypeOK
<1>3. MarkOK(Marking, tmudata, {})
  BY <1>1 DEF Marks
<1>4. PICK r \in MarkType : Marked(r) /\ MarkOK(r, tmudata, {})
  <2>1. CASE full = "no"
    <3>1. PICK o \in gray : Marked(Propagate(o, Marking))
      BY <2>1 DEF PropagateStep
    <3> QED
      BY <1>2, <1>3, <3>1, PropagateKeeps
  <2>2. CASE full # "no"
    <3>1. Marked(PropagateAll(Marking))
      BY <2>2 DEF PropagateStep
    <3>2. PropagateAll(Marking) \in MarkType
      BY <1>2, PropagateAllFacts
    <3>3. MarkOK(PropagateAll(Marking), tmudata, {})
      BY <1>2, <1>3, PropagateAllKeeps
    <3> QED
      BY <3>1, <3>2, <3>3
  <2> QED
    BY <2>1, <2>2
<1>5. pending = {} /\ \A o \in All : colour[o] # Other(white)
  BY <1>1, <1>2, <1>3 DEF Swept, MarkOK
<1>6. full' \in {"no", "sweep", "mark"}
  BY <1>1 DEF GCTypeOK
<1> QED
  BY <1>1, <1>4, <1>5, <1>6, MarkedKeeps

(* Sweeping frees what is dead and leaves the rest white.                  *)
LEMMA SweepKeeps ==
    ASSUME GCIInv, NEW S \in SUBSET pending, Sweep(S), gcstate \in {"sweepstring", "sweep"},
           UNCHANGED <<gcstate, mix, white, gray, grayagain, weaklist, tmudata, full>>
    PROVE  GCIInv'
<1> USE DEF GCIInv
<1> DEFINE uvs == {u \in Open : place[u][1] \in S}
           freed == {x \in S \cup uvs : IsDead(x)}
           closed == {u \in uvs \ freed : place[u][1] \in freed}
<1>1. /\ colour' = [x \in All |-> IF x \in freed THEN "free"
                                  ELSE IF x \in S \cup uvs THEN white ELSE colour[x]]
      /\ kind' = [x \in All |-> IF x \in freed THEN "table" ELSE kind[x]]
      /\ refs' = [x \in All |-> IF x \in freed THEN {} ELSE IF x \in closed THEN ValueOf(x) ELSE refs[x]]
      /\ place' = [x \in All |-> IF x \in freed \cup closed THEN Nothing ELSE place[x]]
      /\ slot' = [x \in All |-> IF x \in freed THEN [i \in Levels |-> Nothing] ELSE slot[x]]
      /\ weak' = weak \ freed /\ finalized' = finalized \ freed /\ pending' = pending \ S
  BY DEF Sweep
<1>2. gcstate' = gcstate /\ white' = white /\ tmudata' = tmudata /\ full' = full
  OBVIOUS
<1>3. \A x \in pending : x \in All /\ colour[x] # "free" /\ x \notin Open
  BY DEF Swept, Live
<1>4. \A u \in Open : u \in All /\ kind[u] = "upval" /\ place[u] # Nothing /\ colour[u] # "free"
                     /\ ValueOf(u) = Holds(u) /\ Holds(u) \subseteq All
  BY HoldsType DEF Open, Of, Live, Holds
<1>5. \A x \in S \cup uvs : x \in All /\ colour[x] # "free"
  BY <1>3, <1>4
<1>6. \A x \in freed : x \in S \cup uvs /\ x \in All /\ colour[x] = Other(white)
  BY <1>5 DEF IsDead
<1>7. \A x \in S \cup uvs : x \in freed <=> colour[x] = Other(white)
  BY DEF IsDead
<1>8. \A u \in closed : u \in Open /\ u \in uvs /\ u \notin freed
  OBVIOUS
(* The open upvalues of a thread that is freed are freed or closed.        *)
<1>9. ASSUME NEW u \in Open, u \notin freed, u \notin closed
      PROVE place[u][1] \in All /\ place[u][1] \notin freed
  <2>1. place[u] # Nothing /\ u \in All
    BY <1>4
  <2>2. place[u][1] \in All /\ kind[place[u][1]] = "thread"
    BY <2>1 DEF GCTypeOK, PlaceRight
  <2>3. place[u][1] \notin uvs
    BY <1>4, <2>2
  <2> QED
    BY <1>6, <1>9, <2>2, <2>3
<1>10. \A u \in Open : u \notin uvs => place[u][1] \notin S
  OBVIOUS
<1>11. \A u \in uvs : u \in Open
  OBVIOUS
<1> HIDE DEF uvs, freed, closed
<1>12. white \in Whites /\ Other(white) \in Whites /\ Other(white) # white
  BY OtherWhite DEF GCTypeOK
<1>13. \A x \in All :
          /\ x \in freed => /\ colour'[x] = "free" /\ kind'[x] = "table" /\ refs'[x] = {} /\ place'[x] = Nothing
                            /\ \A i \in Levels : slot'[x][i] = Nothing
          /\ x \notin freed => kind'[x] = kind[x] /\ slot'[x] = slot[x]
          /\ x \notin freed /\ x \in S \cup uvs => colour'[x] = white
          /\ x \notin S \cup uvs => colour'[x] = colour[x]
          /\ x \notin freed /\ x \in closed => refs'[x] = ValueOf(x) /\ place'[x] = Nothing
          /\ x \notin freed /\ x \notin closed => refs'[x] = refs[x] /\ place'[x] = place[x]
  BY <1>1, <1>6
<1>14. ASSUME NEW x \in All, x \notin freed
       PROVE  /\ colour'[x] = "free" <=> colour[x] = "free"
              /\ colour'[x] = Other(white) <=> colour[x] = Other(white)
  BY <1>5, <1>7, <1>12, <1>13, <1>14 DEF Whites
<1>15. NonDead' = NonDead
  BY <1>2, <1>6, <1>13, <1>14 DEF NonDead, Live, IsDead
<1>16. \A x \in NonDead : x \in All /\ x \notin freed /\ kind'[x] = kind[x]
  BY <1>6, <1>13 DEF NonDead, Live, IsDead
<1>17. ASSUME NEW x \in NonDead  PROVE Holds(x)' = Holds(x)
  <2>1. x \in All /\ x \notin freed /\ kind'[x] = kind[x] /\ slot'[x] = slot[x]
    BY <1>13, <1>16
  <2>2. CASE x \in closed
    BY <1>4, <1>8, <1>13, <2>1, <2>2 DEF Holds, ValueOf
  <2>3. CASE x \in Open /\ x \notin closed
    <3>1. place[x][1] \in All /\ place[x][1] \notin freed /\ place[x] # Nothing /\ place'[x] = place[x]
      BY <1>4, <1>9, <1>13, <2>1, <2>3
    <3>2. slot'[place[x][1]] = slot[place[x][1]]
      BY <1>13, <3>1
    <3> QED
      BY <1>4, <2>1, <2>3, <3>1, <3>2 DEF Holds, ValueOf
  <2>4. CASE x \notin Open /\ x \notin closed
    <3>1. refs'[x] = refs[x] /\ place'[x] = place[x] /\ place[x] = Nothing
      BY <1>13, <2>1, <2>4 DEF Open, Of, Live, PlaceRight
    <3> QED
      BY <2>1, <3>1 DEF Holds, Stack, ValueOf
  <2> QED
    BY <2>2, <2>3, <2>4
<1>18. GCTypeOK'
  <2>1. colour' \in [All -> Colours] /\ kind' \in [All -> Kinds]
    BY <1>1, <1>12 DEF GCTypeOK, Colours, Kinds
  <2>2. refs' \in [All -> SUBSET All]
    BY <1>1, <1>4, <1>8 DEF GCTypeOK
  <2>3. place' \in [All -> (All \X Levels) \cup {Nothing}]
    BY <1>1 DEF GCTypeOK
  <2>4. slot' \in [All -> [Levels -> All \cup {Nothing}]]
    BY <1>1 DEF GCTypeOK
  <2> QED
    BY <1>1, <1>2, <2>1, <2>2, <2>3, <2>4 DEF GCTypeOK
<1>19. FreeClean'
  <2>1. ASSUME NEW x \in All, colour'[x] = "free"
        PROVE  refs'[x] = {} /\ place'[x] = Nothing /\ x \notin weak'
    <3>1. CASE x \in freed
      BY <1>1, <1>13, <3>1
    <3>2. CASE x \notin freed
      <4>1. colour[x] = "free" /\ x \notin closed
        BY <1>4, <1>8, <1>14, <2>1, <3>2
      <4> QED
        BY <1>1, <1>13, <3>2, <4>1 DEF FreeClean
    <3> QED
      BY <3>1, <3>2
  <2>2. ASSUME NEW x \in All, colour'[x] = "free" \/ kind'[x] # "thread", NEW i \in Levels
        PROVE  slot'[x][i] = Nothing
    <3>1. CASE x \in freed
      BY <1>13, <3>1
    <3>2. CASE x \notin freed
      BY <1>13, <1>14, <2>2, <3>2 DEF FreeClean
    <3> QED
      BY <3>1, <3>2
  <2> QED
    BY <2>1, <2>2 DEF FreeClean
<1>20. ASSUME NEW x \in All, place'[x] # Nothing
       PROVE  /\ x \in Open /\ place'[x] = place[x] /\ x \notin freed /\ x \notin closed
              /\ place[x] # Nothing /\ place[x][1] \in All /\ place[x][1] \notin freed
  <2>1. x \notin freed /\ x \notin closed /\ place'[x] = place[x]
    BY <1>13, <1>20
  <2>2. x \in Open
    BY <1>20, <2>1 DEF Open, Of, Live, PlaceRight
  <2> QED
    BY <1>4, <1>9, <2>1, <2>2
<1>21. PlaceRight'
  <2>1. ASSUME NEW x \in All, place'[x] # Nothing
        PROVE  /\ kind'[x] = "upval" /\ colour'[x] # "free"
               /\ kind'[place'[x][1]] = "thread" /\ colour'[place'[x][1]] # "free"
    BY <1>13, <1>14, <1>20, <2>1 DEF PlaceRight
  <2> QED
    BY <2>1 DEF PlaceRight
<1>22. KindsRight'
  <2>1. kind'[M] = "thread" /\ kind'[G] = "table" /\ G \notin weak'
    BY <1>1, <1>16 DEF KindsRight, Kept
  <2>2. ASSUME NEW x \in weak'  PROVE kind'[x] = "table"
    <3>1. x \in All /\ kind[x] = "table" /\ x \notin freed
      BY <1>1, <2>2 DEF KindsRight, GCTypeOK
    <3> QED
      BY <1>13, <3>1
  <2>3. \A x \in tmudata : kind'[x] = "udata"
    BY <1>16 DEF KindsRight, Kept
  <2>4. ASSUME NEW x \in All, kind'[x] \in {"string", "thread"} \/ place'[x] # Nothing
        PROVE  refs'[x] = {}
    <3>1. x \notin freed => x \notin closed
      BY <1>4, <1>8, <1>13, <1>20, <2>4
    <3> QED
      BY <1>13, <2>4, <3>1 DEF KindsRight
  <2>5. ASSUME NEW x \in NonDead, kind'[x] = "closure", NEW u \in refs'[x]  PROVE kind'[u] = "upval"
    <3>1. kind[x] = "closure" /\ Holds(x)' = refs'[x] /\ Holds(x) = refs[x]
      BY <1>16, <2>5 DEF Holds
    <3>2. u \in refs[x]
      BY <1>17, <2>5, <3>1
    <3>3. u \in NonDead /\ kind[u] = "upval"
      BY <3>1, <3>2 DEF Kept, KindsRight
    <3> QED
      BY <1>16, <3>3
  <2> QED
    BY <1>2, <1>15, <2>1, <2>2, <2>3, <2>4, <2>5 DEF KindsRight
<1>23. Kept'
  BY <1>2, <1>15, <1>17 DEF Kept
<1>24. Swept'
  <2>1. ASSUME NEW x \in pending'  PROVE x \in Live' \ Open'
    <3>1. x \in pending /\ x \notin S /\ x \in All /\ colour[x] # "free" /\ x \notin Open
      BY <1>1, <1>3, <2>1
    <3>2. x \notin freed
      BY <1>6, <1>11, <3>1
    <3> QED
      BY <1>14, <1>20, <3>1, <3>2 DEF Live, Open, Of
  <2>2. ASSUME NEW u \in Open'  PROVE colour'[u] # "black"
    <3>1. u \in All /\ place'[u] # Nothing
      BY <2>2 DEF Open, Of, Live
    <3>2. u \in Open /\ u \notin freed
      BY <1>20, <3>1
    <3> QED
      BY <1>12, <1>13, <3>1, <3>2 DEF Swept, Whites
  <2>3. ASSUME NEW x \in Live' \ (tmudata \cup pending'), place'[x] # Nothing => place'[x][1] \notin pending'
        PROVE  colour'[x] = white
    <3>1. x \in All /\ x \notin freed
      BY <1>13, <2>3 DEF Live
    <3>2. CASE x \in S \cup uvs
      BY <1>13, <3>1, <3>2
    <3>3. CASE x \notin S \cup uvs
      <4>1. x \notin closed /\ place'[x] = place[x] /\ colour'[x] = colour[x] /\ x \in Live
        BY <1>8, <1>13, <2>3, <3>1, <3>3 DEF Live
      <4>2. x \notin pending
        BY <1>1, <2>3, <3>3
      <4>3. place[x] # Nothing => place[x][1] \notin pending
        BY <1>1, <1>10, <1>20, <2>3, <3>1, <3>3, <4>1
      <4> QED
        BY <2>3, <4>1, <4>2, <4>3 DEF Swept
    <3> QED
      BY <3>2, <3>3
  <2> QED
    BY <1>2, <2>1, <2>2, <2>3 DEF Swept
<1>25. Marks'
  BY <1>2 DEF Marks
<1> QED
  BY <1>18, <1>19, <1>21, <1>22, <1>23, <1>24, <1>25

LEMMA FirstOf ==
    ASSUME NEW S
    PROVE  First(S) \subseteq S /\ (First(S) = {} => S = {})
BY DEF First

LEMMA SweepStepKeeps ==
    ASSUME GCIInv, SweepStep
    PROVE  GCIInv'
<1> USE DEF GCIInv
<1> DEFINE now == First(IF gcstate = "sweepstring" THEN pending \cap Of("string") ELSE pending)
<1>1. gcstate \in {"sweepstring", "sweep"} /\ UNCHANGED <<mix, white, gray, grayagain, weaklist, tmudata, full>>
  BY DEF SweepStep
<1>2. now \subseteq pending /\ (now = {} /\ gcstate = "sweep" => pending = {})
  BY FirstOf
<1>3. CASE now # {}
  <2>1. PICK S \in SUBSET pending : Sweep(S) /\ UNCHANGED gcstate
    <3>1. CASE full = "no"
      <4>1. PICK o \in now : Sweep({o}) /\ UNCHANGED gcstate
        BY <1>3, <3>1 DEF SweepStep
      <4> QED
        BY <1>2, <4>1
    <3>2. CASE full # "no"
      BY <1>2, <1>3, <3>2 DEF SweepStep
    <3> QED
      BY <3>1, <3>2
  <2> QED
    BY <1>1, <2>1, SweepKeeps
<1>4. CASE now = {}
  <2>1. /\ gcstate' = IF gcstate = "sweepstring" THEN "sweep" ELSE "finalize"
        /\ UNCHANGED <<colour, heap, finalized, pending>>
    BY <1>4 DEF SweepStep
  <2>2. /\ kind' = kind /\ refs' = refs /\ slot' = slot /\ place' = place /\ weak' = weak /\ colour' = colour
        /\ white' = white /\ tmudata' = tmudata /\ pending' = pending
        /\ finalized' = finalized /\ full' = full
        /\ gray' = gray /\ grayagain' = grayagain /\ weaklist' = weaklist
    BY <1>1, <2>1 DEF heap
  <2>3. GCTypeOK'
    BY <2>1, <2>2 DEF GCTypeOK, Phases
  <2>4. NonDead' = NonDead
    BY <2>2 DEF NonDead, Live, IsDead
  <2>5. FreeClean' /\ PlaceRight' /\ KindsRight'
    BY <2>2, <2>4 DEF FreeClean, PlaceRight, KindsRight
  <2>6. Kept'
    BY <2>2, <2>4 DEF Kept, Holds, Stack, ValueOf
  <2>7. Swept'
    BY <1>1, <1>2, <1>4, <2>1, <2>2 DEF Swept, Live, Open, Of
  <2>8. Marks'
    BY <2>1 DEF Marks
  <2> QED
    BY <2>3, <2>5, <2>6, <2>7, <2>8
<1> QED
  BY <1>3, <1>4

(* A finalizer is run: its object is back among the others.                *)
LEMMA FinalizeKeeps ==
    ASSUME GCIInv, NEW u \in tmudata, NEW i \in Levels \cup {Nothing}, Finalize(u, i)
    PROVE  GCIInv'
<1> USE DEF GCIInv
<1>1. /\ gcstate = "finalize" /\ gcstate' = "finalize" /\ tmudata' = tmudata \ {u}
      /\ colour' = [colour EXCEPT ![u] = white]
      /\ slot' = IF i = Nothing THEN slot ELSE [slot EXCEPT ![M][i] = u]
      /\ kind' = kind /\ refs' = refs /\ place' = place /\ weak' = weak /\ finalized' = finalized
      /\ white' = white /\ gray' = gray /\ grayagain' = grayagain /\ weaklist' = weaklist
      /\ pending' = pending /\ full' = full
  BY DEF Finalize
<1>2. u \in NonDead /\ u \in All /\ colour[u] # "free" /\ kind[u] = "udata" /\ pending = {}
  BY <1>1, HandKept DEF Kept, KindsRight, Swept
<1>3. M \in All /\ kind[M] = "thread" /\ colour[M] # "free" /\ M # u
  BY <1>2, HandKept DEF Kept, KindsRight
<1>4. white # "free" /\ white \in Whites /\ Other(white) \in Whites /\ Other(white) # white
  BY OtherWhite DEF GCTypeOK, Whites
<1>5. colour'[u] = white /\ \A x \in All : x # u => colour'[x] = colour[x]
  BY <1>1, <1>2 DEF GCTypeOK
<1>6. /\ slot' \in [All -> [Levels -> All \cup {Nothing}]]
      /\ \A x \in All \ {M} : slot'[x] = slot[x]
  <2>1. CASE i = Nothing
    BY <1>1, <2>1 DEF GCTypeOK
  <2>2. CASE i # Nothing
    BY <1>1, <1>2, <1>3, <2>2, SlotType
  <2> QED
    BY <2>1, <2>2
<1>7. NonDead' = NonDead
  BY <1>1, <1>2, <1>4, <1>5 DEF NonDead, Live, IsDead
<1>8. \A x \in All : colour'[x] = "free" <=> colour[x] = "free"
  BY <1>2, <1>4, <1>5
<1>9. GCTypeOK'
  <2>1. colour' \in [All -> Colours]
    BY <1>1, <1>4 DEF GCTypeOK, Colours
  <2> QED
    BY <1>1, <1>6, <2>1 DEF GCTypeOK
<1>10. FreeClean' /\ PlaceRight' /\ KindsRight'
  <2>1. \A x \in All : place[x] # Nothing => place[x][1] \in All
    BY DEF GCTypeOK
  <2>2. FreeClean'
    BY <1>1, <1>3, <1>6, <1>8 DEF FreeClean
  <2>3. PlaceRight'
    BY <1>1, <1>8, <2>1 DEF PlaceRight
  <2>4. KindsRight'
    BY <1>1, <1>7 DEF KindsRight
  <2> QED
    BY <2>2, <2>3, <2>4
<1>11. ASSUME NEW x \in NonDead'  PROVE Holds(x)' \subseteq NonDead'
  <2>1. x \in All /\ Holds(x) \subseteq NonDead
    BY <1>7, <1>11 DEF Kept, NonDead, Live
  <2>2. CASE i = Nothing
    <3>1. Holds(x)' = Holds(x)
      BY <1>1, <2>2 DEF Holds, Stack, ValueOf
    <3> QED
      BY <1>7, <2>1, <3>1
  <2>3. CASE i # Nothing
    <3>1. \A y \in Holds(x)' : y \in Holds(x) \/ (y = u /\ u # Nothing)
      BY <1>1, <1>3, <2>1, <2>3, SlotHolds
    <3> QED
      BY <1>2, <1>7, <2>1, <3>1
  <2> QED
    BY <2>2, <2>3
<1>12. Kept'
  BY <1>1, <1>7, <1>11 DEF Kept
<1>13. Swept'
  <2>1. \A x \in Open' : colour'[x] # "black"
    BY <1>1, <1>2, <1>4, <1>5, <1>8 DEF Swept, Open, Of, Live, Whites
  <2>2. \A x \in Live' \ tmudata' : colour'[x] = white
    BY <1>1, <1>2, <1>5, <1>8 DEF Swept, Live
  <2> QED
    BY <1>1, <1>2, <2>1, <2>2 DEF Swept
<1>14. Marks'
  BY <1>1 DEF Marks
<1> QED
  BY <1>9, <1>10, <1>12, <1>13, <1>14

(* The steps that change nothing but where the collector stands.           *)
LEMMA TurnKeeps ==
    ASSUME GCIInv, End \/ FullGC \/ UNCHANGED gcVars
    PROVE  GCIInv'
<1> USE DEF GCIInv
<1>1. /\ kind' = kind /\ refs' = refs /\ slot' = slot /\ place' = place /\ weak' = weak /\ colour' = colour
      /\ white' = white /\ tmudata' = tmudata /\ finalized' = finalized
      /\ full' = full \/ full' \in {"no", "sweep"}
  BY DEF End, FullGC, gcVars, heap, lists
<1>2. \/ /\ gray' = gray /\ grayagain' = grayagain /\ weaklist' = weaklist /\ pending' = pending
         /\ gcstate' = gcstate \/ (gcstate = "finalize" /\ gcstate' = "pause" /\ tmudata = {})
      \/ /\ gray' = {} /\ grayagain' = {} /\ weaklist' = {} /\ gcstate' = "sweepstring"
         /\ pending' = Live \ (tmudata \cup Open)
  BY DEF End, FullGC, gcVars, heap, lists
<1>3. Live' = Live /\ Open' = Open /\ NonDead' = NonDead
  BY <1>1 DEF Live, Open, Of, NonDead, IsDead
<1>4. GCTypeOK'
  <2>1. Live \subseteq All
    BY DEF Live
  <2> QED
    BY <1>1, <1>2, <2>1 DEF GCTypeOK, Phases
<1>5. FreeClean' /\ PlaceRight' /\ KindsRight'
  BY <1>1, <1>3 DEF FreeClean, PlaceRight, KindsRight
<1>6. \A o \in All : Holds(o)' = Holds(o)
  BY <1>1 DEF Holds, Stack, ValueOf
<1>7. Kept'
  BY <1>1, <1>3, <1>6 DEF Kept, NonDead, Live
<1>8. CASE gcstate' = gcstate /\ pending' = pending /\ gray' = gray /\ grayagain' = grayagain /\ weaklist' = weaklist
  <2>1. Swept'
    BY <1>1, <1>3, <1>8 DEF Swept
  <2>2. Marks'
    BY <1>1, <1>6, <1>8 DEF Marks, MarkOK, Marking, Lists
  <2> QED
    BY <1>4, <1>5, <1>7, <2>1, <2>2
<1>9. CASE gcstate = "finalize" /\ gcstate' = "pause" /\ pending' = pending
  <2>1. Swept'
    BY <1>1, <1>3, <1>9 DEF Swept
  <2> QED
    BY <1>4, <1>5, <1>7, <1>9, <2>1 DEF Marks
<1>10. CASE gcstate' = "sweepstring" /\ pending' = Live \ (tmudata \cup Open)
  <2>1. ASSUME NEW o \in Live \ (tmudata \cup pending'), place[o] # Nothing => place[o][1] \notin pending'
        PROVE  FALSE
    <3>1. o \in Open /\ o \in All /\ place[o] # Nothing
      BY <1>10, <2>1 DEF Open, Of, Live
    <3>2. place[o][1] \in All /\ kind[place[o][1]] = "thread" /\ colour[place[o][1]] # "free"
      BY <3>1 DEF GCTypeOK, PlaceRight
    <3>3. place[o][1] \in Live /\ place[o][1] \notin Open /\ place[o][1] \notin tmudata
      BY <3>2 DEF Live, Open, Of, KindsRight
    <3> QED
      BY <1>10, <2>1, <3>1, <3>3
  <2>2. Swept'
    BY <1>1, <1>3, <1>10, <2>1 DEF Swept
  <2> QED
    BY <1>4, <1>5, <1>7, <1>10, <2>2 DEF Marks
<1> QED
  BY <1>2, <1>8, <1>9, <1>10

-----------------------------------------------------------------------------
LEMMA GCNextKeeps ==
    ASSUME GCIInv, [GCNext]_gcVars
    PROVE  GCIInv'
<1>1. CASE Program
  <2>1. ASSUME NEW o \in Obj, NEW i \in Levels, NewString(o, i)  PROVE GCIInv'
    BY <2>1, NewStringKeeps
  <2>2. ASSUME NEW o \in Obj, NEW i \in Levels, NEW k \in DOMAIN mix, NewObject(k, o, i)
        PROVE GCIInv'
    BY <2>2, NewObjectKeeps
  <2>3. ASSUME NEW o \in Obj, NEW u \in Obj, NEW th \in {M} \cup (Hand \cap Of("thread")),
               NEW n \in Levels, NEW i \in Levels, NewClosure(o, u, th, n, i)
        PROVE  GCIInv'
    BY <2>3, NewClosureKeeps
  <2>4. ASSUME NEW th \in Of("thread"), NEW n \in Levels, Close(th, n)  PROVE GCIInv'
    BY <2>4, CloseKeeps
  <2>5. ASSUME NEW x \in Live, NEW v \in Live, NEW i \in Levels, Load(x, v, i) \/ Give(x, v, i)
        PROVE GCIInv'
    BY <2>5, LoadKeeps, GiveKeeps
  <2>6. ASSUME NEW i \in Levels, Pop(i)  PROVE GCIInv'
    BY <2>6, PopKeeps
  <2>7. ASSUME NEW x \in Hand, NEW v \in Hand, Put(x, v) \/ SetEnv(x, v) \/ SetUpval(x, v)
        PROVE GCIInv'
    BY <2>7, PutKeeps, SetEnvKeeps, SetUpvalKeeps
  <2>8. ASSUME NEW t \in Hand, SetMode(t)  PROVE GCIInv'
    BY <2>8, SetModeKeeps
  <2>9. ASSUME NEW t \in Hand, NEW v \in refs[t], Remove(t, v)  PROVE GCIInv'
    BY <2>9, RemoveKeeps
  <2> QED
    BY <1>1, <2>1, <2>2, <2>3, <2>4, <2>5, <2>6, <2>7, <2>8, <2>9 DEF Program
<1>2. CASE Collector
  BY <1>2, StartMarkingKeeps, PropagateStepKeeps, AtomicKeeps, SweepStepKeeps, FinalizeKeeps, TurnKeeps
     DEF Collector
<1>3. CASE UNCHANGED gcVars
  BY <1>3, TurnKeeps
<1> QED
  BY <1>1, <1>2, <1>3 DEF GCNext

(* What is reached from the main thread and the globals is not dead, and   *)
(* holds nothing that is.                                                  *)
LEMMA KeptReaches ==
    ASSUME GCIInv
    PROVE  NoDangling
<1> USE DEF GCIInv
<1>1. NonDead \in SUBSET All
  BY DEF NonDead, Live
<1>2. {M, G} \subseteq NonDead /\ \A x \in NonDead : Strong(x) \subseteq NonDead
  BY <1>1, HoldsType DEF Kept
<1>3. Reachable \subseteq NonDead
  BY <1>1, <1>2 DEF Reachable, Closure
<1>4. NonDead \subseteq Live
  BY DEF NonDead
<1>5. ASSUME NEW o \in Reachable
      PROVE refs[o] \subseteq Live /\ (kind[o] = "thread" => Stack(o) \subseteq Live)
  <2>1. o \in NonDead /\ o \in All /\ Holds(o) \subseteq Live
    BY <1>1, <1>3, <1>4 DEF Kept
  <2>2. refs[o] = {} \/ refs[o] = Holds(o)
    BY <2>1 DEF Holds, ValueOf, KindsRight
  <2>3. kind[o] = "thread" => Stack(o) \subseteq Holds(o)
    BY DEF Holds
  <2> QED
    BY <2>1, <2>2, <2>3
<1> QED
  BY <1>5 DEF NoDangling

(* GCIInv holds in every state of the collector and the program.           *)
THEOREM GCInvariance == GCSpec => []GCIInv
<1>1. GCInit => GCIInv
  BY GCInitRight
<1>2. GCIInv /\ [GCNext]_gcVars => GCIInv'
  BY GCNextKeeps
<1> QED
  BY <1>1, <1>2, PTL DEF GCSpec

(* Nothing the program can still get at is ever freed (lgc.cc:277-320).    *)
THEOREM DanglingCorrect == GCSpec => []NoDangling
<1>1. GCIInv => NoDangling
  BY KeptReaches
<1> QED
  BY <1>1, GCInvariance, PTL
=============================================================================
