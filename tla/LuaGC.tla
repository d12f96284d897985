------------------------------- MODULE LuaGC -------------------------------
(***************************************************************************)
(* The garbage collector of the embedded Lua (src/lib/lua51/lgc.cc, with   *)
(* the upvalues of lfunc.cc and the strings of lstring.cc): an incremental *)
(* mark and sweep with two whites and write barriers, interleaved with the *)
(* program it collects for.  Lists are sets here: no order in them matters *)
(* to what is kept.  M is the main thread, G the table of globals.         *)
(***************************************************************************)
EXTENDS Integers, FiniteSets

CONSTANTS Obj,        \* the memory objects are made in
          M, G, Nothing,
          Mixes,      \* bounds: how many objects of which kinds a program has,
                      \* how many of its tables are weak, how many things ("width")
                      \* it puts into one, and if it sets environments ("env")
          StackSize

ASSUME GCAssumption ==
    /\ M # G /\ M \notin Obj /\ G \notin Obj
    /\ Nothing \notin Obj \cup {M, G} /\ Nothing \notin (Obj \cup {M, G}) \X (1 .. StackSize)

VARIABLES mix, kind,
          colour,      \* "free", "white0", "white1", "gray", "black"
          refs,       \* tables: values; closures: upvalues; udata: environment;
                      \* closed upvalues: the value
          slot,       \* of threads: the stack
          place,      \* of open upvalues: <<thread, level>>, else Nothing
          weak,       \* tables with weak values
          finalized,  \* userdata with FINALIZEDBIT
          gcstate, white, gray, grayagain, weaklist, tmudata,
          pending,    \* what sweepstrgc and sweepgc have yet to reach
          full        \* the part of luaC_fullgc in progress, "no" for none

heap == <<kind, refs, slot, place, weak>>
lists == <<gray, grayagain, weaklist, tmudata, pending>>
gcVars == <<mix, heap, colour, finalized, gcstate, white, lists, full>>

All == Obj \cup {M, G}
Levels == 1 .. StackSize
Live == {o \in All : colour[o] # "free"}
Of(k) == {o \in Live : kind[o] = k}
Open == {u \in Of("upval") : place[u] # Nothing}
Other(w) == IF w = "white0" THEN "white1" ELSE "white0"
IsWhite(c, o) == c[o] \in {"white0", "white1"}
IsDead(o) == colour[o] = Other(white)
Stack(th) == {slot[th][i] : i \in Levels} \ {Nothing}
ValueOf(u) == IF place[u] = Nothing THEN refs[u] ELSE {slot[place[u][1]][place[u][2]]} \ {Nothing}

GCInit ==
    /\ mix \in Mixes
    /\ kind = [o \in All |-> IF o = M THEN "thread" ELSE "table"]
    /\ colour = [o \in All |-> IF o \in Obj THEN "free" ELSE "white0"]
    /\ refs = [o \in All |-> {}] /\ slot = [o \in All |-> [i \in Levels |-> Nothing]]
    /\ place = [o \in All |-> Nothing] /\ weak = {} /\ finalized = {}
    /\ gcstate = "pause" /\ white = "white0"
    /\ gray = {} /\ grayagain = {} /\ weaklist = {} /\ tmudata = {} /\ pending = {}
    /\ full = "no"

-----------------------------------------------------------------------------
(* What an object refers to, and what of it is marked when it is: the      *)
(* entries of a weak table are not.                                        *)
Holds(o) == CASE kind[o] = "thread" -> Stack(o) \cup {G}
              [] kind[o] = "upval" -> ValueOf(o)
              [] OTHER -> refs[o]
Strong(o) == IF o \in weak THEN {} ELSE Holds(o)

(* The white objects that are reached from S through white objects of P.   *)
Reached(S, P, c) ==
    {o \in All :
        \A T \in SUBSET All :
            (\A x \in S \cup UNION {Strong(y) : y \in T \cap P} : IsWhite(c, x) => x \in T) => o \in T}

(* Marking.  A mark is a record of the colours and the gray list.          *)
Marking == [colour |-> colour, gray |-> gray, again |-> grayagain, weak |-> weaklist]

(* reallymarkobject of the white objects of S: on through userdata and     *)
(* upvalues at once, and by way of the gray list through the others.       *)
Mark(S, m) ==
    LET reached == Reached(S, {o \in All : kind[o] \in {"udata", "upval"}}, m.colour)
    IN  [m EXCEPT
          !.colour = [o \in All |->
              IF o \notin reached THEN m.colour[o]
              ELSE IF kind[o] = "udata" \/ (kind[o] = "upval" /\ place[o] = Nothing) THEN "black" ELSE "gray"],
          !.gray = @ \cup {o \in reached : kind[o] \notin {"string", "udata", "upval"}}]

(* propagatemark of one gray object: a weak table stays gray and is listed *)
(* to be cleared, a thread stays gray and is listed to be visited again.   *)
Propagate(o, m) ==
    LET taken == [m EXCEPT !.gray = @ \ {o}]
    IN  CASE kind[o] = "thread" -> Mark(Strong(o), [taken EXCEPT !.again = @ \cup {o}])
          [] o \in weak -> [taken EXCEPT !.weak = @ \cup {o}]
          [] OTHER -> Mark(Strong(o), [taken EXCEPT !.colour[o] = "black"])

(* propagateall: until no gray object is left.                             *)
StaysGray(o) == kind[o] \in {"string", "thread"} \/ o \in weak \/ place[o] # Nothing
PropagateAll(m) ==
    LET visited == m.gray \cup Reached(UNION {Strong(o) : o \in m.gray}, All, m.colour)
    IN  [colour |-> [o \in All |-> IF o \notin visited THEN m.colour[o]
                                   ELSE IF StaysGray(o) THEN "gray" ELSE "black"],
         gray |-> {},
         again |-> m.again \cup {o \in visited : kind[o] = "thread"},
         weak |-> m.weak \cup (visited \cap weak)]

Marked(m) == colour' = m.colour /\ gray' = m.gray /\ grayagain' = m.again /\ weaklist' = m.weak

(* markroot: the main thread, the globals and the registry.                *)
MarkRoot == Mark({M, G}, [colour |-> colour, gray |-> {}, again |-> {}, weak |-> {}])

(* remarkupvals: the values of open upvalues that are marked, whose thread *)
(* may be dead.                                                            *)
RemarkUpvals(m) == Mark(UNION {ValueOf(u) : u \in {v \in Open : m.colour[v] = "gray"}}, m)

(* atomic, up to luaC_separateudata.                                       *)
Remarked ==
    LET upvals == PropagateAll(RemarkUpvals(Marking))
        weaks == PropagateAll(Mark({M}, [upvals EXCEPT !.gray = upvals.weak, !.weak = {}]))
    IN  PropagateAll([weaks EXCEPT !.gray = weaks.again, !.again = {}])

(* luaC_separateudata: the white userdata that have not been finalized.    *)
ToFinalize(m) == {u \in Of("udata") : IsWhite(m.colour, u) /\ u \notin finalized /\ u \notin tmudata}

(* marktmu                                                                 *)
Preserved(m, tmu) ==
    PropagateAll(Mark(tmu, [m EXCEPT !.colour = [o \in All |-> IF o \in tmu THEN white ELSE m.colour[o]]]))

(* cleartable: strings stay and are marked; what is white, and userdata    *)
(* that is being finalized, is taken out.                                  *)
Cleared(m, fin) ==
    LET Goes(v) == kind[v] # "string" /\ (IsWhite(m.colour, v) \/ (kind[v] = "udata" /\ v \in fin))
        held == UNION {refs[t] : t \in m.weak}
    IN  /\ refs' = [t \in All |-> IF t \in m.weak THEN {v \in refs[t] : ~Goes(v)} ELSE refs[t]]
        /\ colour' = [o \in All |-> IF o \in held /\ kind[o] = "string" /\ IsWhite(m.colour, o)
                                   THEN "gray" ELSE m.colour[o]]

Atomic ==
    /\ gcstate = "propagate" /\ gray = {}
    /\ LET tmu == ToFinalize(Remarked)
           m == Preserved(Remarked, tmudata \cup tmu)
       IN  /\ finalized' = finalized \cup tmu /\ tmudata' = tmudata \cup tmu
           /\ Cleared(m, finalized \cup tmu)
           /\ gray' = {} /\ grayagain' = m.again /\ weaklist' = m.weak
    /\ white' = Other(white) /\ gcstate' = "sweepstring"
    /\ pending' = Live \ (tmudata' \cup Open)
    /\ UNCHANGED <<mix, kind, slot, place, weak, full>>

-----------------------------------------------------------------------------
(* Sweeping some objects; with a thread, its open upvalues.  A thread that *)
(* is freed closes those that are left.                                    *)
Sweep(S) ==
    LET uvs == {u \in Open : place[u][1] \in S}
        freed == {x \in S \cup uvs : IsDead(x)}
        closed == {u \in uvs \ freed : place[u][1] \in freed}
    IN  /\ colour' = [x \in All |-> IF x \in freed THEN "free"
                                   ELSE IF x \in S \cup uvs THEN white ELSE colour[x]]
        /\ kind' = [x \in All |-> IF x \in freed THEN "table" ELSE kind[x]]
        /\ refs' = [x \in All |-> IF x \in freed THEN {} ELSE IF x \in closed THEN ValueOf(x) ELSE refs[x]]
        /\ place' = [x \in All |-> IF x \in freed \cup closed THEN Nothing ELSE place[x]]
        /\ slot' = [x \in All |-> IF x \in freed THEN [i \in Levels |-> Nothing] ELSE slot[x]]
        /\ weak' = weak \ freed /\ finalized' = finalized \ freed
        /\ pending' = pending \ S

(* The order of rootgc: what was made since, G, M, userdata.               *)
First(S) ==
    LET made == {o \in S \ {M, G} : kind[o] # "udata"} IN
    IF made # {} THEN made ELSE IF S \cap {M, G} = {} THEN S ELSE {IF G \in S THEN G ELSE M}

(* singlestep in the two phases of sweeping.  The program does not run     *)
(* while luaC_fullgc does, which goes through a phase at once.             *)
SweepStep ==
    /\ gcstate \in {"sweepstring", "sweep"}
    /\ LET now == First(IF gcstate = "sweepstring" THEN pending \cap Of("string") ELSE pending) IN
       IF now # {} THEN /\ IF full = "no" THEN \E o \in now : Sweep({o}) ELSE Sweep(now)
                        /\ UNCHANGED gcstate
       ELSE /\ gcstate' = IF gcstate = "sweepstring" THEN "sweep" ELSE "finalize"
            /\ UNCHANGED <<colour, heap, finalized, pending>>
    /\ UNCHANGED <<mix, white, gray, grayagain, weaklist, tmudata, full>>

(* markroot in singlestep, and in luaC_fullgc.                             *)
StartMarking ==
    /\ \/ gcstate = "pause" /\ full = "no" /\ UNCHANGED full
       \/ gcstate = "finalize" /\ full = "sweep" /\ full' = "mark"
    /\ Marked(MarkRoot) /\ gcstate' = "propagate"
    /\ UNCHANGED <<mix, heap, finalized, white, tmudata, pending>>

PropagateStep ==
    /\ gcstate = "propagate" /\ gray # {}
    /\ IF full = "no" THEN \E o \in gray : Marked(Propagate(o, Marking))
                      ELSE Marked(PropagateAll(Marking))
    /\ UNCHANGED <<mix, heap, finalized, gcstate, white, tmudata, pending, full>>

(* GCTM: the finalizer has its object on the stack, and may leave it where *)
(* there is room.                                                          *)
Finalize(u, i) ==
    /\ gcstate = "finalize" /\ full # "sweep" /\ u \in tmudata /\ (i # Nothing => slot[M][i] = Nothing)
    /\ tmudata' = tmudata \ {u} /\ colour' = [colour EXCEPT ![u] = white]
    /\ slot' = IF i = Nothing THEN slot ELSE [slot EXCEPT ![M][i] = u]
    /\ UNCHANGED <<mix, kind, refs, place, weak, finalized, gcstate, white,
                   gray, grayagain, weaklist, pending, full>>

End ==
    /\ gcstate = "finalize" /\ full # "sweep" /\ tmudata = {}
    /\ gcstate' = "pause" /\ full' = "no"
    /\ UNCHANGED <<mix, heap, colour, finalized, white, lists>>

(* Faulty: marking in progress is finished, not started over.              *)
MutFullGC ==
    /\ full = "no"
    /\ full' = IF gcstate = "propagate" THEN "mark" ELSE "sweep"
    /\ gcstate' = IF gcstate = "pause" THEN "finalize" ELSE gcstate
    /\ UNCHANGED <<mix, heap, colour, finalized, white, lists>>

(* luaC_fullgc begins: marking in progress is given up, and everything is  *)
(* swept, which only makes it white: the whites have not been exchanged.   *)
FullGC ==
    /\ full = "no" /\ full' = "sweep"
    /\ IF gcstate \in {"pause", "propagate"}
       THEN /\ gray' = {} /\ grayagain' = {} /\ weaklist' = {} /\ gcstate' = "sweepstring"
            /\ pending' = Live \ (tmudata \cup Open)
       ELSE UNCHANGED <<gray, grayagain, weaklist, gcstate, pending>>
    /\ UNCHANGED <<mix, heap, colour, finalized, white, tmudata>>

-----------------------------------------------------------------------------
(* The program.  It works on what is on the main stack, the globals and    *)
(* what they name, which it reads without an allocation in between; it     *)
(* does not run while luaC_fullgc does.                                    *)
Hand == Stack(M) \cup {G} \cup refs[G]
Push(i, v) == slot' = [slot EXCEPT ![M][i] = v]
Marker == <<finalized, gcstate, white, tmudata, pending, full>>

(* Faulty: a write into a table that has been visited goes unnoticed.      *)
MutBarrierBack(t, v) == UNCHANGED <<colour, gray, grayagain, weaklist>>

(* luaC_barriert                                                           *)
BarrierBack(t, v) ==
    IF IsWhite(colour, v) /\ colour[t] = "black"
    THEN /\ colour' = [colour EXCEPT ![t] = "gray"] /\ grayagain' = grayagain \cup {t}
         /\ UNCHANGED <<gray, weaklist>>
    ELSE UNCHANGED <<colour, gray, grayagain, weaklist>>

(* luaC_barrierf                                                           *)
Barrier(o, v) ==
    IF ~(IsWhite(colour, v) /\ colour[o] = "black") THEN UNCHANGED <<colour, gray, grayagain, weaklist>>
    ELSE IF gcstate = "propagate" THEN Marked(Mark({v}, Marking))
    ELSE colour' = [colour EXCEPT ![o] = white] /\ UNCHANGED <<gray, grayagain, weaklist>>

Room(k) == k \in DOMAIN mix /\ Cardinality(Of(k) \ {M, G}) < mix[k]

(* luaC_link, luaS_newudata.                                               *)
NewObject(k, o, i) ==
    /\ full = "no" /\ k \in {"table", "udata", "thread"} /\ Room(k) /\ colour[o] = "free"
    /\ kind' = [kind EXCEPT ![o] = k] /\ colour' = [colour EXCEPT ![o] = white]
    /\ Push(i, o)
    /\ UNCHANGED <<mix, refs, place, weak, Marker, gray, grayagain, weaklist>>

(* luaS_newlstr, of always the same string: a dead one is revived.         *)
NewString(o, i) ==
    /\ full = "no"
    /\ IF Of("string") = {} THEN Room("string") /\ colour[o] = "free" ELSE o \in Of("string")
    /\ kind' = [kind EXCEPT ![o] = "string"]
    /\ colour' = [colour EXCEPT ![o] = IF @ = "free" \/ IsDead(o) THEN white ELSE @]
    /\ Push(i, o)
    /\ UNCHANGED <<mix, refs, place, weak, Marker, gray, grayagain, weaklist>>

(* OP_CLOSURE with one upvalue, luaF_findupval: an open upvalue of the     *)
(* level is found, and revived if dead, or made.                           *)
NewClosure(o, u, th, n, i) ==
    /\ full = "no" /\ Room("closure") /\ colour[o] = "free" /\ o # u
    /\ LET found == {v \in Open : place[v] = <<th, n>>} IN
       IF found = {} THEN colour[u] = "free" ELSE u \in found
    /\ kind' = [kind EXCEPT ![o] = "closure", ![u] = "upval"]
    /\ colour' = [colour EXCEPT ![o] = white, ![u] = IF @ = "free" \/ IsDead(u) THEN white ELSE @]
    /\ place' = [place EXCEPT ![u] = <<th, n>>]
    /\ refs' = [refs EXCEPT ![o] = {u}]
    /\ Push(i, o)
    /\ UNCHANGED <<mix, weak, Marker, gray, grayagain, weaklist>>

(* luaF_close: open upvalues from the level up are freed if dead; else the *)
(* value moves into them and luaC_linkupval makes up for the mark.         *)
Close(th, n) ==
    /\ full = "no" /\ th \in {M} \cup (Hand \cap Of("thread"))
    /\ LET uvs == {u \in Open : place[u][1] = th /\ place[u][2] >= n}
           dead == {u \in uvs : IsDead(u)}
           kept == uvs \ dead
           grays == {u \in kept : colour[u] = "gray"}
           linked == IF gcstate = "propagate" THEN "black" ELSE white
           m == IF gcstate = "propagate" THEN Mark(UNION {ValueOf(u) : u \in grays}, Marking) ELSE Marking
       IN  /\ uvs # {}
           /\ colour' = [o \in All |-> IF o \in dead THEN "free"
                                       ELSE IF o \in kept /\ m.colour[o] = "gray" THEN linked ELSE m.colour[o]]
           /\ UNCHANGED <<grayagain, weaklist>> /\ gray' = m.gray
           /\ refs' = [o \in All |-> IF o \in kept THEN ValueOf(o) ELSE refs[o]]
           /\ place' = [o \in All |-> IF o \in uvs THEN Nothing ELSE place[o]]
           /\ kind' = [o \in All |-> IF o \in dead THEN "table" ELSE kind[o]]
    /\ UNCHANGED <<mix, slot, weak, Marker>>

(* Reading: from a table, through an upvalue, from another thread.         *)
Held(x) == CASE kind[x] = "closure" -> UNION {ValueOf(u) : u \in refs[x]}
             [] kind[x] = "thread" -> Stack(x)
             [] OTHER -> refs[x]
Load(x, v, i) ==
    /\ full = "no" /\ x \in Hand /\ v \in Held(x) /\ Push(i, v)
    /\ UNCHANGED <<mix, kind, refs, place, weak, colour, Marker, gray, grayagain, weaklist>>

Pop(i) ==
    /\ full = "no" /\ slot[M][i] # Nothing /\ Push(i, Nothing)
    /\ UNCHANGED <<mix, kind, refs, place, weak, colour, Marker, gray, grayagain, weaklist>>

(* Writing: into a table, the environment of userdata, an upvalue, or the  *)
(* stack of another thread.                                                *)
Put(t, v) ==
    /\ full = "no" /\ t \in Hand /\ kind[t] = "table" /\ v \in Hand
    /\ Cardinality(refs[t] \cup {v}) <= mix["width"]
    /\ refs' = [refs EXCEPT ![t] = @ \cup {v}] /\ BarrierBack(t, v)
    /\ UNCHANGED <<mix, kind, slot, place, weak, Marker>>

Remove(t, v) ==
    /\ full = "no" /\ t \in Hand /\ kind[t] = "table" /\ v \in refs[t]
    /\ refs' = [refs EXCEPT ![t] = @ \ {v}]
    /\ UNCHANGED <<mix, kind, slot, place, weak, colour, Marker, gray, grayagain, weaklist>>

SetEnv(u, t) ==
    /\ full = "no" /\ "env" \in DOMAIN mix
    /\ u \in Hand /\ kind[u] = "udata" /\ t \in Hand /\ kind[t] = "table"
    /\ refs' = [refs EXCEPT ![u] = {t}] /\ Barrier(u, t)
    /\ UNCHANGED <<mix, kind, slot, place, weak, Marker>>

SetUpval(c, v) ==
    /\ full = "no" /\ c \in Hand /\ kind[c] = "closure" /\ v \in Hand
    /\ \E u \in refs[c] :
          IF place[u] = Nothing THEN refs' = [refs EXCEPT ![u] = {v}] /\ Barrier(u, v) /\ UNCHANGED slot
          ELSE /\ slot' = [slot EXCEPT ![place[u][1]][place[u][2]] = v]
               /\ UNCHANGED <<refs, colour, gray, grayagain, weaklist>>
    /\ UNCHANGED <<mix, kind, place, weak, Marker>>

Give(th, v, i) ==
    /\ full = "no" /\ th \in Hand /\ kind[th] = "thread" /\ v \in Hand
    /\ slot' = [slot EXCEPT ![th][i] = v]
    /\ UNCHANGED <<mix, kind, refs, place, weak, colour, Marker, gray, grayagain, weaklist>>

SetMode(t) ==
    /\ full = "no" /\ t \in Hand \ {G} /\ kind[t] = "table"
    /\ (t \in weak \/ ("weak" \in DOMAIN mix /\ Cardinality(weak) < mix["weak"]))
    /\ weak' = (weak \ {t}) \cup ({t} \ weak)
    /\ UNCHANGED <<mix, kind, refs, slot, place, colour, Marker, gray, grayagain, weaklist>>

Program ==
    \/ \E o \in Obj, i \in Levels : NewString(o, i) \/ \E k \in DOMAIN mix : NewObject(k, o, i)
    \/ \E o, u \in Obj, th \in {M} \cup (Hand \cap Of("thread")), n, i \in Levels : NewClosure(o, u, th, n, i)
    \/ \E th \in Of("thread"), n \in Levels : Close(th, n)
    \/ \E x, v \in Live, i \in Levels : Load(x, v, i) \/ Give(x, v, i)
    \/ \E i \in Levels : Pop(i)
    \/ \E x, v \in Hand : Put(x, v) \/ SetEnv(x, v) \/ SetUpval(x, v)
    \/ \E t \in Hand : SetMode(t) \/ \E v \in refs[t] : Remove(t, v)

Collector ==
    \/ StartMarking \/ PropagateStep \/ Atomic \/ SweepStep \/ End \/ FullGC
    \/ \E u \in tmudata, i \in Levels \cup {Nothing} : Finalize(u, i)

GCNext == Program \/ Collector

GCSpec == GCInit /\ [][GCNext]_gcVars

-----------------------------------------------------------------------------
(* What can be reached from some objects, not through weak tables.         *)
Closure(S) ==
    {o \in All : \A T \in SUBSET All : (S \subseteq T /\ \A x \in T : Strong(x) \subseteq T) => o \in T}
Reachable == Closure({M, G})

(* Nothing the program can still get at is ever freed, not even through a  *)
(* weak table, whatever it writes while the collector is half way          *)
(* (lgc.cc:277-320, 525-553, 662-683, lfunc.cc:53-112, lstring.cc:86-89).  *)
NoDangling == \A o \in Reachable : refs[o] \subseteq Live /\ (kind[o] = "thread" => Stack(o) \subseteq Live)

(* After a full collection everything left can be reached, or is what a    *)
(* finalizer has just been run for and what that refers to, or is a string *)
(* in a weak table that is kept: cleartable takes everything else that     *)
(* nobody holds out of such a table (lgc.cc:331-342, 350-377, 636-659).    *)
Collected ==
    full = "mark" /\ full' = "no" =>
        (LET kept == Reachable \cup Closure(finalized \cap Live)
         IN  Live \subseteq kept \cup UNION {refs[t] \cap Of("string") : t \in kept \cap weak})'
FullCollects == [][Collected]_gcVars
=============================================================================
