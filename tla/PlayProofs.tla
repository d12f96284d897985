----------------------------- MODULE PlayProofs -----------------------------
(***************************************************************************)
(* Proofs about Scripts: hooks tidy up and no script reaches what is gone  *)
(* (ScriptsTidy); and about Creation: a character has all its points and   *)
(* looks like one of its race (ProfileRight); and about Builder: exits     *)
(* lead where the map says (ExitsRight).                                   *)
(***************************************************************************)
EXTENDS Scripts, Creation, Builder, SequenceTheorems, FiniteSetTheorems,
        WellFoundedInduction, TLAPS

-----------------------------------------------------------------------------
(* What may be left to do of a call while there is no writer, while there  *)
(* is one, and once the script has run.                                    *)
NoWriter ==
    {<<"result">>, <<"run", "result">>, <<"self", "run", "result">>, <<"other", "run", "result">>,
     <<"self", "other", "run", "result">>,
     <<"create", "writer", "run", "release", "result">>,
     <<"self", "create", "writer", "run", "release", "result">>,
     <<"sink", "run", "result">>, <<"field", "sink", "run", "result">>,
     <<"field", "field", "sink", "run", "result">>,
     <<"field", "field", "field", "sink", "run", "result">>,
     <<"table", "field", "field", "field", "sink", "run", "result">>}
HasWriter ==
    {<<"release", "result">>, <<"run", "release", "result">>,
     <<"writer", "run", "release", "result">>}
AfterRun == {<<"release", "result">>, <<"result">>}

(* What follows after a step of a call that has t to do.                   *)
Follows(t) ==
    /\ t # <<>>
    /\ t \in AfterRun <=> Head(t) \in {"release", "result"}
    /\ Tail(t) \in AfterRun <=> Head(t) \in {"run", "release"}
    /\ Head(t) = "create" => t \notin HasWriter /\ Tail(t) \in HasWriter
    /\ Head(t) = "release" => t \in HasWriter /\ Tail(t) \in NoWriter /\ Tail(t) \notin HasWriter
    /\ Head(t) = "result" => t \notin HasWriter
    /\ Head(t) \notin {"create", "release", "result"} =>
          IF t \in HasWriter THEN Tail(t) \in HasWriter
                             ELSE Tail(t) \in NoWriter /\ Tail(t) \notin HasWriter

ObjectsOK ==
    /\ alive \subseteq Address
    /\ registry \in [Address -> Nat \cup {Null}]
    /\ pointer \in Seq(Address \cup {Null})

CallOK ==
    /\ stack \in Seq(Kinds \X Nat)
    /\ call \in Calls \cup {Null}

(* An object is registered under its address as long as it is alive.       *)
Registered ==
    \A a \in Address :
        /\ a \in alive => registry[a] \in Data /\ pointer[registry[a]] = a
        /\ a \notin alive => registry[a] = Null

(* The one writer is there between two steps of the functions that save.   *)
WriterKept ==
    /\ call # Null => call.todo \in NoWriter \cup HasWriter
    /\ Writer \in alive <=> call # Null /\ call.todo \in HasWriter

(* An Exec counts what is on the stack above what the call found; once the *)
(* script has run that is what it returned, or nothing.                    *)
Counted ==
    call # Null =>
        /\ Len(stack) = Len(call.found) + call.count
        /\ \A i \in 1 .. Len(call.found) : stack[i] = call.found[i]
        /\ call.todo \in AfterRun =>
              \/ call.count = 0 /\ call.returned = Nil
              \/ call.count = 1 /\ stack[Len(stack)] = call.returned
        /\ call.todo \notin AfterRun => call.returned = Nil

ScriptsIInv ==
    ObjectsOK /\ Registered /\ PointersLive /\ CallOK /\ WriterKept /\ Counted

-----------------------------------------------------------------------------
(* The programs of the hooks, and what is left of them after a step.       *)
LEMMA ProgramsKnown ==
    ASSUME NEW n \in DOMAIN Programs
    PROVE  /\ Programs[n] \in Seq(Steps) /\ Programs[n] \in NoWriter
           /\ Programs[n] \notin HasWriter /\ Programs[n] \notin AfterRun
<1>1. \A m \in DOMAIN WorldHooks : WorldHooks[m] \in {Save, Beat, Pair, Bare, Http}
  BY DEF WorldHooks
<1>2. \A m \in DOMAIN PlayerHooks : PlayerHooks[m] \in {Save, Beat, Pair, Bare, Http}
  BY DEF PlayerHooks
<1>3. Programs[n] \in {Save, Beat, Pair, Bare, Http}
  BY <1>1, <1>2 DEF Programs
<1>4. ASSUME NEW t \in {Save, Beat, Pair, Bare, Http}
      PROVE  t \in NoWriter /\ t \notin HasWriter /\ t \notin AfterRun
  <2>1. CASE t = Save
    BY <2>1 DEF Save, NoWriter, HasWriter, AfterRun
  <2>2. CASE t = Beat
    BY <2>2 DEF Beat, NoWriter, HasWriter, AfterRun
  <2>3. CASE t = Pair
    BY <2>3 DEF Pair, NoWriter, HasWriter, AfterRun
  <2>4. CASE t = Bare
    BY <2>4 DEF Bare, NoWriter, HasWriter, AfterRun
  <2>5. CASE t = Http
    BY <2>5 DEF Http, NoWriter, HasWriter, AfterRun
  <2> QED BY <2>1, <2>2, <2>3, <2>4, <2>5
<1>5. /\ Save \in Seq(Steps) /\ Beat \in Seq(Steps) /\ Pair \in Seq(Steps)
      /\ Bare \in Seq(Steps) /\ Http \in Seq(Steps)
  BY DEF Save, Beat, Pair, Bare, Http, Steps
<1> QED BY <1>3, <1>4, <1>5

LEMMA TodoSteps ==
    ASSUME NEW t \in NoWriter \cup HasWriter
    PROVE  Follows(t)
<1>1. CASE t = <<"result">>
  BY <1>1 DEF Follows, NoWriter, HasWriter, AfterRun
<1>2. CASE t = <<"run", "result">>
  BY <1>2 DEF Follows, NoWriter, HasWriter, AfterRun
<1>3. CASE t = <<"self", "run", "result">>
  BY <1>3 DEF Follows, NoWriter, HasWriter, AfterRun
<1>4. CASE t = <<"other", "run", "result">>
  BY <1>4 DEF Follows, NoWriter, HasWriter, AfterRun
<1>5. CASE t = <<"self", "other", "run", "result">>
  BY <1>5 DEF Follows, NoWriter, HasWriter, AfterRun
<1>6. CASE t = <<"create", "writer", "run", "release", "result">>
  BY <1>6 DEF Follows, NoWriter, HasWriter, AfterRun
<1>7. CASE t = <<"self", "create", "writer", "run", "release", "result">>
  BY <1>7 DEF Follows, NoWriter, HasWriter, AfterRun
<1>8. CASE t = <<"sink", "run", "result">>
  BY <1>8 DEF Follows, NoWriter, HasWriter, AfterRun
<1>9. CASE t = <<"field", "sink", "run", "result">>
  BY <1>9 DEF Follows, NoWriter, HasWriter, AfterRun
<1>10. CASE t = <<"field", "field", "sink", "run", "result">>
  BY <1>10 DEF Follows, NoWriter, HasWriter, AfterRun
<1>11. CASE t = <<"field", "field", "field", "sink", "run", "result">>
  BY <1>11 DEF Follows, NoWriter, HasWriter, AfterRun
<1>12. CASE t = <<"table", "field", "field", "field", "sink", "run", "result">>
  BY <1>12 DEF Follows, NoWriter, HasWriter, AfterRun
<1>13. CASE t = <<"release", "result">>
  BY <1>13 DEF Follows, NoWriter, HasWriter, AfterRun
<1>14. CASE t = <<"run", "release", "result">>
  BY <1>14 DEF Follows, NoWriter, HasWriter, AfterRun
<1>15. CASE t = <<"writer", "run", "release", "result">>
  BY <1>15 DEF Follows, NoWriter, HasWriter, AfterRun
<1> QED
  BY <1>1, <1>2, <1>3, <1>4, <1>5, <1>6, <1>7, <1>8, <1>9, <1>10, <1>11, <1>12,
     <1>13, <1>14, <1>15 DEF NoWriter, HasWriter

-----------------------------------------------------------------------------
(* Making an object at a free address, and letting one go.                 *)
LEMMA CreateKeeps ==
    ASSUME ObjectsOK, Registered, PointersLive,
           NEW a \in Address, a \notin alive, CreateObject(a), alive' = alive \cup {a}
    PROVE  ObjectsOK' /\ Registered' /\ PointersLive'
<1>1. /\ Null \notin Nat /\ Null \notin Address
  BY ScriptsAssumption
<1>2. /\ pointer \in Seq(Address \cup {Null}) /\ Len(pointer) \in Nat
      /\ DOMAIN pointer = 1 .. Len(pointer)
      /\ \A u \in 1 .. Len(pointer) : pointer[u] \in Address \cup {Null}
  BY LenProperties, ElementOfSeq DEF ObjectsOK
<1>3. /\ pointer' \in Seq(Address \cup {Null}) /\ Len(pointer') = Len(pointer) + 1
      /\ DOMAIN pointer' = 1 .. Len(pointer) + 1
      /\ \A u \in 1 .. Len(pointer) : pointer'[u] = pointer[u]
      /\ pointer'[Len(pointer) + 1] = a
  BY <1>2, AppendProperties DEF CreateObject
<1>4. /\ registry' \in [Address -> Nat \cup {Null}] /\ registry'[a] = Len(pointer) + 1
      /\ \A b \in Address \ {a} : registry'[b] = registry[b]
  BY <1>2 DEF CreateObject, ObjectsOK
<1>5. ObjectsOK'
  BY <1>3, <1>4 DEF ObjectsOK
<1>6. Registered'
  BY <1>2, <1>3, <1>4 DEF Registered, Data
<1>7. ASSUME NEW u \in 1 .. Len(pointer) + 1, pointer'[u] # Null
      PROVE  pointer'[u] \in alive' /\ registry'[pointer'[u]] = u
  <2>1. CASE u = Len(pointer) + 1
    BY <1>3, <1>4, <2>1
  <2>2. CASE u \in 1 .. Len(pointer)
    <3>1. pointer[u] \in alive /\ registry[pointer[u]] = u /\ pointer[u] \in Address
      BY <1>2, <1>3, <1>7, <2>2 DEF PointersLive, Data
    <3> QED BY <1>3, <1>4, <2>2, <3>1
  <2> QED BY <1>2, <1>7, <2>1, <2>2
<1>8. PointersLive'
  BY <1>3, <1>7 DEF PointersLive, Data
<1> QED BY <1>5, <1>6, <1>8

LEMMA ReleaseKeeps ==
    ASSUME ObjectsOK, Registered, PointersLive,
           NEW a \in Address, a \in alive, ReleaseObject(a), alive' = alive \ {a}
    PROVE  ObjectsOK' /\ Registered' /\ PointersLive'
<1>1. /\ Null \notin Nat /\ Null \notin Address
  BY ScriptsAssumption
<1>2. /\ pointer \in Seq(Address \cup {Null}) /\ Len(pointer) \in Nat
      /\ DOMAIN pointer = 1 .. Len(pointer)
      /\ \A u \in 1 .. Len(pointer) : pointer[u] \in Address \cup {Null}
  BY LenProperties, ElementOfSeq DEF ObjectsOK
<1> DEFINE r == registry[a]
<1>3. r \in 1 .. Len(pointer) /\ pointer[r] = a /\ r # Null
  BY <1>1, <1>2 DEF Registered, Data
<1>4. pointer' = [pointer EXCEPT ![r] = Null]
  BY <1>3 DEF ReleaseObject
<1>5. /\ pointer' \in Seq(Address \cup {Null}) /\ DOMAIN pointer' = 1 .. Len(pointer)
      /\ \A u \in 1 .. Len(pointer) : pointer'[u] = IF u = r THEN Null ELSE pointer[u]
  <2> HIDE DEF r
  <2>1. pointer' \in Seq(Address \cup {Null})
    BY <1>2, <1>3, <1>4, ExceptSeq
  <2> QED BY <1>2, <1>3, <1>4, <2>1
<1>6. /\ registry' \in [Address -> Nat \cup {Null}] /\ registry'[a] = Null
      /\ \A b \in Address \ {a} : registry'[b] = registry[b]
  BY DEF ReleaseObject, ObjectsOK
<1> HIDE DEF r
<1>7. ObjectsOK'
  BY <1>5, <1>6 DEF ObjectsOK
<1>8. ASSUME NEW b \in Address
      PROVE  /\ b \in alive' => registry'[b] \in Data' /\ pointer'[registry'[b]] = b
             /\ b \notin alive' => registry'[b] = Null
  <2>1. CASE b = a
    BY <1>6, <2>1
  <2>2. CASE b # a
    <3>1. /\ b \in alive => registry[b] \in 1 .. Len(pointer) /\ pointer[registry[b]] = b
          /\ b \notin alive => registry[b] = Null
      BY <1>2 DEF Registered, Data
    <3> QED BY <1>3, <1>5, <1>6, <2>2, <3>1 DEF Data
  <2> QED BY <2>1, <2>2
<1>9. Registered'
  BY <1>8 DEF Registered
<1>10. ASSUME NEW u \in 1 .. Len(pointer), pointer'[u] # Null
       PROVE  pointer'[u] \in alive' /\ registry'[pointer'[u]] = u
  <2>1. u # r /\ pointer'[u] = pointer[u]
    BY <1>5, <1>10
  <2>2. pointer[u] \in alive /\ registry[pointer[u]] = u /\ pointer[u] \in Address
    BY <1>2, <1>10, <2>1 DEF PointersLive, Data
  <2>3. pointer[u] # a
    BY <2>1, <2>2 DEF r
  <2> QED BY <1>6, <2>1, <2>2, <2>3
<1>11. PointersLive'
  BY <1>5, <1>10 DEF PointersLive, Data
<1> QED BY <1>7, <1>9, <1>11

-----------------------------------------------------------------------------
(* A call under way.                                                       *)
LEMMA UnderWay ==
    ASSUME CallOK, WriterKept, call # Null
    PROVE  /\ call \in Calls /\ call.todo \in Seq(Steps) /\ call.count \in Nat
           /\ call.found \in Seq(Kinds \X Nat) /\ call.returned \in Values
           /\ Tail(call.todo) \in Seq(Steps)
           /\ call.todo \in NoWriter \cup HasWriter /\ Follows(call.todo)
           /\ stack \in Seq(Kinds \X Nat) /\ Len(stack) \in Nat /\ Len(call.found) \in Nat
<1>1. call \in Calls /\ call.todo \in NoWriter \cup HasWriter /\ stack \in Seq(Kinds \X Nat)
  BY DEF CallOK, WriterKept
<1>2. /\ call.todo \in Seq(Steps) /\ call.count \in Nat
      /\ call.found \in Seq(Kinds \X Nat) /\ call.returned \in Values
  BY <1>1 DEF Calls
<1>3. Follows(call.todo)
  BY <1>1, TodoSteps
<1>4. Tail(call.todo) \in Seq(Steps)
  BY <1>2, <1>3, HeadTailProperties DEF Follows
<1> QED BY <1>1, <1>2, <1>3, <1>4, LenProperties

(* A step that adds nothing to the stack.                                  *)
LEMMA OnlyDone ==
    ASSUME CallOK, WriterKept, Counted, call # Null, Head(call.todo) \notin {"run", "result"},
           NEW p \in {Null, "client"}, stack' = stack,
           call' = [call EXCEPT !.todo = Tail(@), !.print = p]
    PROVE  CallOK' /\ Counted' /\ call' # Null /\ call'.todo = Tail(call.todo)
<1>1. /\ call' \in Calls /\ call'.todo = Tail(call.todo) /\ call'.count = call.count
      /\ call'.found = call.found /\ call'.returned = call.returned
  BY UnderWay DEF Calls
<1>2. call' # Null
  BY <1>1, ScriptsAssumption
<1>3. CallOK'
  BY <1>1 DEF CallOK
<1>4. call'.todo \in AfterRun <=> call.todo \in AfterRun
  BY <1>1, UnderWay DEF Follows
<1>5. Counted'
  BY <1>1, <1>2, <1>4 DEF Counted
<1> QED BY <1>1, <1>2, <1>3, <1>5

LEMMA DoneIs ==
    ASSUME CallOK, WriterKept, call # Null, Done
    PROVE  \E p \in {Null, "client"} : call' = [call EXCEPT !.todo = Tail(@), !.print = p]
<1>1. call.print \in {Null, "client"} /\ call \in Calls
  BY UnderWay DEF Calls
<1>2. call' = [call EXCEPT !.todo = Tail(@), !.print = call.print]
  BY <1>1 DEF Done, Calls
<1> QED BY <1>1, <1>2

(* A step that adds one value to the stack.                                *)
LEMMA Pushed ==
    ASSUME CallOK, WriterKept, Counted, call # Null,
           Head(call.todo) \notin {"run", "release", "result"},
           NEW v \in Kinds \X Nat, stack' = Append(stack, v),
           call' = [call EXCEPT !.todo = Tail(@), !.count = @ + 1]
    PROVE  CallOK' /\ Counted' /\ call' # Null /\ call'.todo = Tail(call.todo)
<1>1. /\ call' \in Calls /\ call'.todo = Tail(call.todo) /\ call'.count = call.count + 1
      /\ call'.found = call.found /\ call'.returned = call.returned
  <2>1. call \in Calls /\ Tail(call.todo) \in Seq(Steps) /\ call.count + 1 \in Nat
    BY UnderWay
  <2> QED BY <2>1 DEF Calls
<1>2. call' # Null
  BY <1>1, ScriptsAssumption
<1>3. /\ stack' \in Seq(Kinds \X Nat) /\ Len(stack') = Len(stack) + 1
      /\ \A i \in 1 .. Len(stack) : stack'[i] = stack[i]
  BY UnderWay, AppendProperties
<1>4. CallOK'
  BY <1>1, <1>3 DEF CallOK
<1>5. call'.todo \notin AfterRun /\ call.todo \notin AfterRun
  BY <1>1, UnderWay DEF Follows
<1>6. /\ Len(stack) = Len(call.found) + call.count /\ call.returned = Nil
      /\ \A i \in 1 .. Len(call.found) : stack[i] = call.found[i]
      /\ call.count \in Nat /\ Len(call.found) \in Nat
  BY <1>5, UnderWay DEF Counted
<1>7. \A i \in 1 .. Len(call.found) : stack'[i] = call.found[i]
  BY <1>3, <1>6
<1>8. Len(stack') = Len(call.found) + call'.count
  BY <1>1, <1>3, <1>6
<1>9. Counted'
  BY <1>1, <1>5, <1>6, <1>7, <1>8 DEF Counted
<1> QED BY <1>1, <1>2, <1>4, <1>9

(* The stack without what an Exec counts is the one its call found.        *)
LEMMA DropIs ==
    ASSUME CallOK, WriterKept, Counted, call # Null
    PROVE  Drop(call.count) = call.found
<1> DEFINE n == Len(call.found)
           d == Drop(call.count)
<1>1. /\ n \in Nat /\ Len(stack) - call.count = n /\ n <= Len(stack)
      /\ \A i \in 1 .. n : stack[i] = call.found[i]
  BY UnderWay DEF Counted
<1>2. d = SubSeq(stack, 1, n)
  BY <1>1 DEF Drop
<1>3. 1 \in 1 .. Len(stack) + 1 /\ n \in 0 .. Len(stack)
  BY <1>1, UnderWay
<1>4. d \in Seq(Kinds \X Nat) /\ Len(d) = n /\ \A i \in 1 .. n : d[i] = stack[i]
  BY <1>1, <1>2, <1>3, UnderWay, SubSeqProperties
<1> HIDE DEF d
<1>5. \A i \in 1 .. Len(d) : d[i] = call.found[i]
  BY <1>1, <1>4
<1>6. call.found \in Seq(Kinds \X Nat)
  BY UnderWay
<1>7. d = call.found
  BY <1>1, <1>4, <1>5, <1>6, SeqEqual
<1> QED BY <1>7 DEF d

(* What stays of the writer while the call goes on.                        *)
LEMMA WriterStays ==
    ASSUME CallOK, WriterKept, call # Null, call' # Null, call'.todo = Tail(call.todo),
           Head(call.todo) \notin {"create", "release", "result"}, alive' = alive
    PROVE  WriterKept'
  BY UnderWay DEF WriterKept, Follows

LEMMA OnTheStack ==
    /\ \A kind \in Kinds : Lua(kind) \in Kinds \X Nat
    /\ Values \subseteq Kinds \X Nat /\ Nil \in Values
    /\ ObjectsOK => \A a \in Address : GetObject(a) \in Kinds \X Nat
<1>1. \A kind \in Kinds : Lua(kind) \in Kinds \X Nat
  BY DEF Lua
<1>2. Values \subseteq Kinds \X Nat /\ Nil \in Values
  BY DEF Values, Nil, Lua, Kinds
<1>3. ASSUME ObjectsOK, NEW a \in Address PROVE GetObject(a) \in Kinds \X Nat
  <2>1. CASE registry[a] = Null
    BY <1>2, <2>1 DEF GetObject
  <2>2. CASE registry[a] # Null
    <3>1. registry[a] \in Nat
      BY <1>3, <2>2 DEF ObjectsOK
    <3> QED BY <2>2, <3>1 DEF GetObject, Userdata, Kinds
  <2> QED BY <2>1, <2>2
<1> QED BY <1>1, <1>2, <1>3

(* A step of a call that makes and frees nothing keeps the invariant.      *)
LEMMA StepOfCall ==
    ASSUME ScriptsIInv, call # Null, CallOK', Counted', call' # Null,
           call'.todo = Tail(call.todo),
           Head(call.todo) \notin {"create", "release", "result"},
           UNCHANGED <<alive, registry, pointer>>
    PROVE  ScriptsIInv'
<1>1. WriterKept'
  BY WriterStays DEF ScriptsIInv
<1>2. (ObjectsOK /\ Registered /\ PointersLive)'
  BY DEF ScriptsIInv, ObjectsOK, Registered, PointersLive, Data
<1> QED BY <1>1, <1>2 DEF ScriptsIInv

LEMMA ParamKeeps ==
    ASSUME ScriptsIInv, NEW op \in {"self", "other", "writer", "table"}, NEW v \in Kinds \X Nat,
           Param(op, v)
    PROVE  ScriptsIInv' /\ call' # Null
<1>1. /\ call # Null /\ Head(call.todo) = op /\ UNCHANGED <<alive, registry, pointer>>
      /\ CallOK /\ WriterKept /\ Counted
  BY DEF Param, At, ScriptsIInv
<1>2. CallOK' /\ Counted' /\ call' # Null /\ call'.todo = Tail(call.todo)
  <2>1. CASE call.count = 0
    <3>1. Done /\ stack' = stack
      BY <2>1 DEF Param
    <3> QED BY <1>1, <3>1, DoneIs, OnlyDone
  <2>2. CASE call.count # 0
    BY <1>1, <2>2, Pushed DEF Param
  <2> QED BY <2>1, <2>2
<1> QED BY <1>1, <1>2, StepOfCall

LEMMA SetTableKeeps ==
    ASSUME ScriptsIInv, SetTable
    PROVE  ScriptsIInv' /\ call' # Null
<1>1. /\ call # Null /\ Head(call.todo) = "field" /\ UNCHANGED <<alive, registry, pointer>>
      /\ CallOK /\ WriterKept /\ Counted
  BY DEF SetTable, At, ScriptsIInv
<1>2. CallOK' /\ Counted' /\ call' # Null /\ call'.todo = Tail(call.todo)
  <2>1. CASE call.count = 0 \/ stack[Len(stack)] = Lua("table")
    <3>1. Done /\ stack' = stack
      BY <2>1 DEF SetTable
    <3> QED BY <1>1, <3>1, DoneIs, OnlyDone
  <2>2. CASE ~(call.count = 0 \/ stack[Len(stack)] = Lua("table"))
    <3>1. Lua("string") \in Kinds \X Nat
      BY OnTheStack DEF Kinds
    <3> QED BY <1>1, <2>2, <3>1, Pushed DEF SetTable
  <2> QED BY <2>1, <2>2
<1> QED BY <1>1, <1>2, StepOfCall

LEMMA SetPrintKeeps ==
    ASSUME ScriptsIInv, SetPrint
    PROVE  ScriptsIInv' /\ call' # Null
<1>1. /\ call # Null /\ Head(call.todo) = "sink"
      /\ UNCHANGED <<alive, registry, pointer, stack>>
      /\ call' = [call EXCEPT !.todo = Tail(@), !.print = "client"]
      /\ CallOK /\ WriterKept /\ Counted
  BY DEF SetPrint, At, ScriptsIInv
<1>2. CallOK' /\ Counted' /\ call' # Null /\ call'.todo = Tail(call.todo)
  BY <1>1, OnlyDone
<1> QED BY <1>1, <1>2, StepOfCall

LEMMA CreateWriterKeeps ==
    ASSUME ScriptsIInv, CreateWriter
    PROVE  ScriptsIInv' /\ call' # Null
<1>1. /\ call # Null /\ Head(call.todo) = "create" /\ stack' = stack /\ Done
      /\ CreateObject(Writer) /\ alive' = alive \cup {Writer}
      /\ CallOK /\ WriterKept /\ Counted
  BY DEF CreateWriter, At, ScriptsIInv
<1>2. CallOK' /\ Counted' /\ call' # Null /\ call'.todo = Tail(call.todo)
  BY <1>1, DoneIs, OnlyDone
<1>3. call.todo \notin HasWriter /\ Tail(call.todo) \in HasWriter
  BY <1>1, UnderWay DEF Follows
<1>4. Writer \notin alive /\ Writer \in Address
  BY <1>1, <1>3 DEF WriterKept, Address
<1>5. (ObjectsOK /\ Registered /\ PointersLive)'
  BY <1>1, <1>4, CreateKeeps DEF ScriptsIInv
<1>6. WriterKept'
  BY <1>1, <1>2, <1>3 DEF WriterKept
<1> QED BY <1>2, <1>5, <1>6 DEF ScriptsIInv

LEMMA ReleaseWriterKeeps ==
    ASSUME ScriptsIInv, ReleaseWriter
    PROVE  ScriptsIInv' /\ call' # Null
<1>1. /\ call # Null /\ Head(call.todo) = "release" /\ stack' = stack /\ Done
      /\ ReleaseObject(Writer) /\ alive' = alive \ {Writer}
      /\ CallOK /\ WriterKept /\ Counted
  BY DEF ReleaseWriter, At, ScriptsIInv
<1>2. CallOK' /\ Counted' /\ call' # Null /\ call'.todo = Tail(call.todo)
  BY <1>1, DoneIs, OnlyDone
<1>3. /\ call.todo \in HasWriter /\ Tail(call.todo) \in NoWriter
      /\ Tail(call.todo) \notin HasWriter
  BY <1>1, UnderWay DEF Follows
<1>4. Writer \in alive /\ Writer \in Address
  BY <1>1, <1>3 DEF WriterKept, Address
<1>5. (ObjectsOK /\ Registered /\ PointersLive)'
  BY <1>1, <1>4, ReleaseKeeps DEF ScriptsIInv
<1>6. WriterKept'
  BY <1>1, <1>2, <1>3 DEF WriterKept
<1> QED BY <1>2, <1>5, <1>6 DEF ScriptsIInv

(* The script of a hook runs, returns or fails.                            *)
LEMMA RunKeeps ==
    ASSUME ScriptsIInv, NEW v \in Values, NEW does, Run(v, does)
    PROVE  ScriptsIInv' /\ call' # Null
<1>1. /\ call # Null /\ Head(call.todo) = "run" /\ UNCHANGED <<alive, registry, pointer>>
      /\ CallOK /\ WriterKept /\ Counted
  BY DEF Run, At, ScriptsIInv
<1>2. /\ call \in Calls /\ Tail(call.todo) \in Seq(Steps) /\ Tail(call.todo) \in AfterRun
      /\ call.todo \notin AfterRun /\ call.returned = Nil
      /\ call.found \in Seq(Kinds \X Nat) /\ Len(call.found) \in Nat
      /\ Drop(call.count) = call.found /\ Null \notin Calls
  BY <1>1, UnderWay, DropIs, ScriptsAssumption DEF Follows, Counted
<1>3. CallOK' /\ Counted' /\ call' # Null /\ call'.todo = Tail(call.todo)
  <2>1. CASE call.count = 0
    <3>1. call' = [call EXCEPT !.todo = Tail(@)] /\ stack' = stack
      BY <2>1 DEF Run, Done
    <3>2. /\ call' \in Calls /\ call'.todo = Tail(call.todo) /\ call'.count = 0
          /\ call'.found = call.found /\ call'.returned = Nil
      BY <1>2, <2>1, <3>1 DEF Calls
    <3> QED BY <1>1, <1>2, <2>1, <3>1, <3>2 DEF CallOK, Counted
  <2>2. CASE call.count # 0 /\ Fails(does, call.print)
    <3>1. call' = [call EXCEPT !.todo = Tail(@), !.count = 0] /\ stack' = call.found
      BY <1>2, <2>2 DEF Run
    <3>2. /\ call' \in Calls /\ call'.todo = Tail(call.todo) /\ call'.count = 0
          /\ call'.found = call.found /\ call'.returned = Nil
      BY <1>2, <3>1 DEF Calls
    <3> QED BY <1>1, <1>2, <3>1, <3>2 DEF CallOK, Counted
  <2>3. CASE call.count # 0 /\ ~Fails(does, call.print)
    <3>1. /\ call' = [call EXCEPT !.todo = Tail(@), !.count = 1, !.returned = v]
          /\ stack' = Append(call.found, v)
      BY <1>2, <2>3 DEF Run
    <3>2. /\ call' \in Calls /\ call'.todo = Tail(call.todo) /\ call'.count = 1
          /\ call'.found = call.found /\ call'.returned = v
      BY <1>2, <3>1 DEF Calls
    <3>3. v \in Kinds \X Nat
      BY OnTheStack
    <3>4. /\ stack' \in Seq(Kinds \X Nat) /\ Len(stack') = Len(call.found) + 1
          /\ stack'[Len(stack')] = v
          /\ \A i \in 1 .. Len(call.found) : stack'[i] = call.found[i]
      BY <1>2, <3>1, <3>3, AppendProperties
    <3> QED BY <1>2, <3>2, <3>4 DEF CallOK, Counted
  <2> QED BY <2>1, <2>2, <2>3
<1> QED BY <1>1, <1>3, StepOfCall

(* A call ends: the stack is as it was found.                              *)
LEMMA ResultTidies ==
    ASSUME ScriptsIInv, Result
    PROVE  ScriptsIInv' /\ stack' = call.found /\ answer' = (call.returned = Lua("true"))
<1>1. /\ call # Null /\ Head(call.todo) = "result" /\ UNCHANGED <<alive, registry, pointer>>
      /\ answer' = (call.count # 0 /\ stack[Len(stack)] \notin {Nil, Lua("false")})
      /\ stack' = Drop(call.count) /\ call' = Null
      /\ CallOK /\ WriterKept /\ Counted
  BY DEF Result, At, ScriptsIInv
<1>2. stack' = call.found /\ stack' \in Seq(Kinds \X Nat)
  BY <1>1, DropIs, UnderWay
<1>3. call.todo \in AfterRun /\ call.todo \notin HasWriter /\ call.returned \in Values
  BY <1>1, UnderWay DEF Follows
<1>4. /\ Nil # Lua("true") /\ Lua("false") # Lua("true")
      /\ \A v \in Values : v \notin {Nil, Lua("false")} <=> v = Lua("true")
  BY DEF Values, Nil, Lua
<1>5. answer' = (call.returned = Lua("true"))
  <2>1. CASE call.count = 0 /\ call.returned = Nil
    BY <1>1, <1>4, <2>1
  <2>2. CASE call.count = 1 /\ stack[Len(stack)] = call.returned
    BY <1>1, <1>3, <1>4, <2>2
  <2> QED BY <1>1, <1>3, <2>1, <2>2 DEF Counted
<1>6. CallOK' /\ Counted'
  BY <1>1, <1>2 DEF CallOK, Counted
<1>7. WriterKept'
  BY <1>1, <1>3 DEF WriterKept
<1>8. (ObjectsOK /\ Registered /\ PointersLive)'
  BY <1>1 DEF ScriptsIInv, ObjectsOK, Registered, PointersLive, Data
<1> QED BY <1>2, <1>5, <1>6, <1>7, <1>8 DEF ScriptsIInv

LEMMA BeginKeeps ==
    ASSUME ScriptsIInv, NEW n \in Called, NEW s \in alive, NEW o \in alive \cup {Null},
           Begin(n, s, o)
    PROVE  ScriptsIInv'
<1>1. /\ call = Null /\ UNCHANGED <<alive, registry, pointer>> /\ alive \subseteq Address
      /\ stack \in Seq(Kinds \X Nat) /\ Len(stack) \in Nat /\ Writer \notin alive
  BY LenProperties DEF Begin, ScriptsIInv, ObjectsOK, CallOK, WriterKept
<1>2. /\ Programs[n] \in Seq(Steps) /\ Programs[n] \in NoWriter
      /\ Programs[n] \notin HasWriter /\ Programs[n] \notin AfterRun
  BY ProgramsKnown, ScriptsAssumption
<1>3. /\ call' \in Calls /\ call'.todo = Programs[n] /\ call'.found = stack
      /\ call'.returned = Nil /\ call'.count = (IF n \in hooks THEN 1 ELSE 0)
  <2>1. s \in Address /\ o \in Address \cup {Null} /\ Nil \in Values
    BY <1>1 DEF Values
  <2> QED BY <1>1, <1>2, <2>1 DEF Begin, Calls
<1>4. call' # Null
  BY <1>3, ScriptsAssumption
<1>5. /\ stack' \in Seq(Kinds \X Nat) /\ Len(stack') = Len(stack) + call'.count
      /\ \A i \in 1 .. Len(stack) : stack'[i] = stack[i]
  <2>1. CASE n \in hooks
    <3>1. stack' = Append(stack, Lua("function")) /\ Lua("function") \in Kinds \X Nat
      BY <2>1, OnTheStack DEF Begin, Kinds
    <3> QED BY <1>1, <1>3, <2>1, <3>1, AppendProperties
  <2>2. CASE n \notin hooks
    BY <1>1, <1>3, <2>2 DEF Begin
  <2> QED BY <2>1, <2>2
<1>6. CallOK' /\ Counted'
  BY <1>2, <1>3, <1>5 DEF CallOK, Counted
<1>7. WriterKept'
  BY <1>1, <1>2, <1>3, <1>4 DEF WriterKept
<1>8. (ObjectsOK /\ Registered /\ PointersLive)'
  BY <1>1 DEF ScriptsIInv, ObjectsOK, Registered, PointersLive, Data
<1> QED BY <1>6, <1>7, <1>8 DEF ScriptsIInv

(* Entities come and go between calls.                                     *)
LEMMA EntityKeeps ==
    ASSUME ScriptsIInv, NEW e \in Entities, New(e) \/ Free(e)
    PROVE  ScriptsIInv' /\ call = Null
<1>1. /\ call = Null /\ UNCHANGED <<call, stack>>
      /\ e \in Address /\ e # Writer /\ Writer \notin alive
  BY ScriptsAssumption DEF New, Free, ScriptsIInv, WriterKept, Address
<1>2. CallOK' /\ Counted'
  BY <1>1 DEF ScriptsIInv, CallOK, Counted
<1>3. (ObjectsOK /\ Registered /\ PointersLive)' /\ Writer \notin alive'
  <2>1. CASE New(e)
    BY <1>1, <2>1, CreateKeeps DEF New, ScriptsIInv
  <2>2. CASE Free(e)
    BY <1>1, <2>2, ReleaseKeeps DEF Free, ScriptsIInv
  <2> QED BY <2>1, <2>2
<1> QED BY <1>1, <1>2, <1>3 DEF ScriptsIInv, WriterKept

(* So do files run and macros show.                                        *)
LEMMA MacroKeeps ==
    ASSUME ScriptsIInv,
           \/ RunFile
           \/ \E m \in Macros, compiles \in BOOLEAN : ShowMacro(m, compiles)
    PROVE  ScriptsIInv' /\ call = Null
<1>1. /\ call = Null /\ UNCHANGED <<call, alive, registry, pointer>>
      /\ stack' = stack \/ stack' = Append(stack, Lua("table"))
      /\ stack \in Seq(Kinds \X Nat)
  BY DEF RunFile, ShowMacro, ScriptsIInv, CallOK
<1>2. Append(stack, Lua("table")) \in Seq(Kinds \X Nat)
  BY <1>1, OnTheStack, AppendProperties DEF Kinds
<1>3. CallOK' /\ Counted'
  BY <1>1, <1>2 DEF CallOK, Counted
<1> QED
  BY <1>1, <1>3
     DEF ScriptsIInv, WriterKept, ObjectsOK, Registered, PointersLive, Data

(* Every step keeps the invariant, and a call that ends tidies up.         *)
LEMMA ScriptsStep ==
    ASSUME ScriptsIInv, [ScriptsNext]_scriptsVars
    PROVE  ScriptsIInv' /\ Tidied
<1>1. CASE UNCHANGED scriptsVars
  BY <1>1 DEF scriptsVars, ScriptsIInv, ObjectsOK, Registered, PointersLive, Data,
              CallOK, WriterKept, Counted, Tidied
<1>2. CASE \E e \in Entities : New(e) \/ Free(e)
  BY <1>2, EntityKeeps DEF Tidied
<1>3. CASE \E n \in Called, s \in alive, o \in alive \cup {Null} : Begin(n, s, o)
  BY <1>3, BeginKeeps DEF Tidied, Begin
<1>4. CASE /\ call # Null
           /\ \/ Param("self", GetObject(call.self))
              \/ Param("other", IF call.other = Null THEN Nil ELSE GetObject(call.other))
              \/ Param("writer", GetObject(Writer)) \/ Param("table", Lua("table"))
  <2>1. /\ call.self \in Address /\ call.other \in Address \cup {Null} /\ Writer \in Address
        /\ ObjectsOK
    BY <1>4 DEF ScriptsIInv, CallOK, Calls, Address
  <2>2. /\ GetObject(call.self) \in Kinds \X Nat /\ GetObject(Writer) \in Kinds \X Nat
        /\ Lua("table") \in Kinds \X Nat /\ Nil \in Kinds \X Nat
        /\ call.other # Null => GetObject(call.other) \in Kinds \X Nat
    BY <2>1, OnTheStack DEF Kinds
  <2>3. \E op \in {"self", "other", "writer", "table"}, v \in Kinds \X Nat : Param(op, v)
    BY <1>4, <2>2
  <2> QED BY <2>3, ParamKeeps DEF Tidied
<1>5. CASE SetTable \/ SetPrint \/ CreateWriter \/ ReleaseWriter
  BY <1>5, SetTableKeeps, SetPrintKeeps, CreateWriterKeeps, ReleaseWriterKeeps DEF Tidied
<1>6. CASE \E v \in Values, does \in {"quiet", "print", "method", "fail"} : Run(v, does)
  BY <1>6, RunKeeps DEF Tidied
<1>7. CASE Result
  BY <1>7, ResultTidies DEF Tidied
<1>8. CASE RunFile \/ \E m \in Macros, compiles \in BOOLEAN : ShowMacro(m, compiles)
  BY <1>8, MacroKeeps DEF Tidied
<1>9. call = Null => ~Param("writer", GetObject(Writer)) /\ ~Param("table", Lua("table"))
  BY DEF Param, At
<1> QED BY <1>1, <1>2, <1>3, <1>4, <1>5, <1>6, <1>7, <1>8, <1>9 DEF ScriptsNext

-----------------------------------------------------------------------------
(* From the start of the server on, whatever objects are made and freed,   *)
(* hooks called, scripts run and macros shown (object.cc, exec.cc).        *)
THEOREM ScriptsInvariance == ScriptsSpec => []ScriptsIInv
<1>1. ASSUME ScriptsInit PROVE ScriptsIInv
  <2>1. /\ alive = {} /\ registry = [a \in Address |-> Null] /\ pointer = <<>>
        /\ stack = <<>> /\ call = Null
    BY <1>1 DEF ScriptsInit
  <2>2. <<>> \in Seq(Address \cup {Null}) /\ <<>> \in Seq(Kinds \X Nat) /\ DOMAIN <<>> = {}
    OBVIOUS
  <2> QED BY <2>1, <2>2 DEF ScriptsIInv, ObjectsOK, Registered, PointersLive, Data,
                            CallOK, WriterKept, Counted
<1>2. ScriptsIInv /\ [ScriptsNext]_scriptsVars => ScriptsIInv'
  BY ScriptsStep
<1> QED BY <1>1, <1>2, PTL DEF ScriptsSpec

(* A hook leaves the stack as it found it and answers what its own script  *)
(* returned, and no script reaches through a userdata what is gone or what *)
(* has taken its address (exec.cc:106-159, object.cc:45-70).               *)
THEOREM ScriptsCorrect == ScriptsSpec => ScriptsTidy
<1>1. ScriptsIInv /\ [ScriptsNext]_scriptsVars => [Tidied /\ PointersLive']_scriptsVars
  BY ScriptsStep DEF ScriptsIInv
<1> QED BY <1>1, ScriptsInvariance, PTL DEF ScriptsSpec, ScriptsTidy

-----------------------------------------------------------------------------
(* A character in the making: the states in which its race is known, and   *)
(* its colours.                                                            *)
Finished == {"FORM_CONFIRM", "STATS", "STATS_CONFIRM"} \cup Late
HasHair == {"HAIRSTYLE"} \cup Finished
HasEyes == {"HAIRCOLOR"} \cup HasHair
HasSkin == {"EYECOLOR"} \cup HasEyes
HasRace == {"RACE_CONFIRM", "GENDER", "HEIGHT", "BUILD", "SKINCOLOR"} \cup HasSkin
States == {"NAME", "NAME_CONFIRM", "RACE", "DONE"} \cup HasRace

Looks(s, r, c) ==
    /\ s \in HasRace => r \in Races
    /\ s \in HasSkin => c["skin"] \in Colors[r]["skin"]
    /\ s \in HasEyes => c["eyes"] \in Colors[r]["eyes"]
    /\ s \in HasHair => c["hair"] \in Colors[r]["hair"]

CreationTypeOK ==
    /\ state \in States
    /\ stats \in [Stats -> Nat] /\ tokens \in Nat
    /\ color = [p \in Parts |-> color[p]]

(* The tokens that are left are the points that are missing.               *)
PointsKept ==
    /\ state = "STATS" => tokens > 0 /\ Total(stats) + tokens * TokenInc = AllPoints
    /\ state \in {"STATS_CONFIRM"} \cup Late => Total(stats) = AllPoints
    /\ "stats" \in screen => state \in {"DONE"} \cup Late /\ Total(stats) = AllPoints

CreatedRight ==
    \A c \in created :
        /\ Total(c.stats) = AllPoints
        /\ c.race \in Races /\ \A p \in Parts : c.color[p] \in Colors[c.race][p]

CreationIInv == CreationTypeOK /\ Looks(state, race, color) /\ PointsKept /\ CreatedRight

(* A stat that is raised raises the total as much.                         *)
LEMMA PointsFinite ==
    ASSUME NEW s \in [Stats -> Nat]
    PROVE  IsFiniteSet(Points(s)) /\ Total(s) \in Nat
<1> DEFINE T == {{i} \X (1 .. s[i]) : i \in Stats}
           f == [i \in Stats |-> {i} \X (1 .. s[i])]
<1>1. f \in Surjection(Stats, T)
  BY DEF Surjection
<1>2. IsFiniteSet(T)
  BY <1>1, FS_Surjection, CreationAssumption
<1>3. ASSUME NEW i \in Stats PROVE IsFiniteSet({i} \X (1 .. s[i]))
  <2>1. 1 \in Int /\ s[i] \in Int
    OBVIOUS
  <2>2. IsFiniteSet(1 .. s[i])
    BY <2>1, FS_Interval
  <2>3. IsFiniteSet({i})
    BY FS_Singleton
  <2> QED BY <2>2, <2>3, FS_Product
<1>4. IsFiniteSet(UNION T)
  <2>1. \A S \in T : IsFiniteSet(S)
    BY <1>3
  <2> HIDE DEF T
  <2> QED BY <1>2, <2>1, FS_UNION
<1> QED BY <1>4, FS_CardinalityType DEF Points, Total

LEMMA RaisesTotal ==
    ASSUME NEW s \in [Stats -> Nat], NEW i \in Stats, NEW k \in Nat,
           NEW t, t = [s EXCEPT ![i] = @ + k]
    PROVE  t \in [Stats -> Nat] /\ Total(t) = Total(s) + k
<1>1. t \in [Stats -> Nat] /\ t[i] = s[i] + k /\ \A j \in Stats \ {i} : t[j] = s[j]
  OBVIOUS
<1> DEFINE more == {i} \X (s[i] + 1 .. s[i] + k)
<1>2. Points(t) = Points(s) \cup more
  <2>1. 1 .. t[i] = (1 .. s[i]) \cup (s[i] + 1 .. s[i] + k)
    BY <1>1
  <2>2. {i} \X (1 .. t[i]) = ({i} \X (1 .. s[i])) \cup more
    BY <2>1
  <2>3. \A j \in Stats \ {i} : {j} \X (1 .. t[j]) = {j} \X (1 .. s[j])
    BY <1>1
  <2> HIDE DEF more
  <2> QED BY <2>2, <2>3 DEF Points
<1>3. Points(s) \cap more = {}
  BY DEF Points
<1>4. IsFiniteSet(more) /\ Cardinality(more) = k
  <2>1. IsFiniteSet({i}) /\ Cardinality({i}) = 1
    BY FS_Singleton
  <2> DEFINE a == s[i] + 1
             b == s[i] + k
  <2>2. /\ a \in Int /\ b \in Int /\ (a > b => k = 0) /\ b - a + 1 = k
    OBVIOUS
  <2>3. more = {i} \X (a .. b)
    OBVIOUS
  <2> HIDE DEF a, b, more
  <2>4. IsFiniteSet(a .. b) /\ Cardinality(a .. b) = k
    BY <2>2, FS_Interval
  <2>5. IsFiniteSet({i} \X (a .. b)) /\ Cardinality({i} \X (a .. b)) = 1 * k
    BY <2>1, <2>4, FS_Product
  <2> QED BY <2>3, <2>5
<1>5. IsFiniteSet(Points(s)) /\ Total(s) \in Nat
  BY PointsFinite
<1>6. Cardinality(Points(t)) = Cardinality(Points(s)) + k - Cardinality({})
  <2> HIDE DEF more
  <2> QED BY <1>2, <1>3, <1>4, <1>5, FS_Union
<1> QED BY <1>1, <1>5, <1>6, FS_EmptySet DEF Total

(* A throw of the points is a stat of each kind.                           *)
LEMMA RolledTyped == \A s \in Rolled : s \in [Stats -> Nat] /\ Total(s) = Thrown
<1>1. \A n \in 0 .. Rolls : Base + n * RandInc \in Nat
  BY CreationAssumption
<1> QED BY <1>1 DEF Rolled

LEMMA ScreenShows ==
    ASSUME NEW s, NEW n, NEW r, NEW g, NEW c, Display(s, n, r, g, c), "stats" \in screen'
    PROVE  s \in Late
<1>1. "stats" \notin Parts
  BY DEF Parts
<1> QED BY <1>1 DEF Display

(* enter_state keeps the invariant when what it is given fits the state.   *)
LEMMA EnterKeeps ==
    ASSUME CreationIInv, NEW s \in States, NEW n, NEW r, NEW g, NEW c, EnterState(s, n, r, g, c),
           Looks(s, r, c), c = [p \in Parts |-> c[p]],
           s \in {"STATS_CONFIRM"} \cup Late => Total(stats) = AllPoints,
           CreatedRight'
    PROVE  CreationIInv'
<1>1. /\ state' = s /\ color' = c
      /\ race' = IF s = "RACE" THEN Unset ELSE r
      /\ IF s = "STATS" THEN tokens' = Tokens /\ stats' \in Rolled
                        ELSE UNCHANGED <<tokens, stats>>
      /\ Display(s, IF s = "NAME" THEN NoName ELSE n, race', g, c)
  BY DEF EnterState
<1>2. stats' \in [Stats -> Nat] /\ tokens' \in Nat
  BY <1>1, RolledTyped, CreationAssumption DEF CreationIInv, CreationTypeOK
<1>3. CreationTypeOK'
  BY <1>1, <1>2 DEF CreationTypeOK
<1>4. Looks(state', race', color')
  <2>1. CASE s = "RACE"
    BY <1>1, <2>1 DEF Looks, HasRace, HasSkin, HasEyes, HasHair, Finished, Late
  <2>2. CASE s # "RACE"
    BY <1>1, <2>2
  <2> QED BY <2>1, <2>2
<1>5. PointsKept'
  <2>1. "stats" \in screen' => s \in Late
    BY <1>1, ScreenShows
  <2>2. CASE s = "STATS"
    <3>1. Total(stats') = Thrown /\ tokens' = Tokens /\ s \notin Late
      BY <1>1, <2>2, RolledTyped DEF Late
    <3> QED BY <1>1, <2>1, <2>2, <3>1, CreationAssumption DEF PointsKept, AllPoints
  <2>3. CASE s # "STATS"
    BY <1>1, <2>1, <2>3 DEF PointsKept
  <2> QED BY <2>2, <2>3
<1> QED BY <1>3, <1>4, <1>5 DEF CreationIInv

(* Each step of the dialogue.                                              *)
LEMMA DialogueKeeps ==
    ASSUME CreationIInv,
           \/ \E n \in Names : ChooseName(n)
           \/ \E yes \in BOOLEAN : Confirm(yes)
           \/ \E r \in Races : ChooseRace(r)
           \/ ChooseGender \/ ChooseForm \/ Reroll
    PROVE  CreationIInv'
<1>1. /\ CreatedRight /\ Looks(state, race, color) /\ state \in States
      /\ color = [p \in Parts |-> color[p]] /\ created' = created
      /\ state \in {"STATS_CONFIRM"} \cup Late => Total(stats) = AllPoints
  BY DEF CreationIInv, CreationTypeOK, PointsKept, ChooseName, Confirm, ChooseRace,
         ChooseGender, ChooseForm, Reroll
<1>2. CreatedRight'
  BY <1>1 DEF CreatedRight
<1> USE DEF States, HasRace, HasSkin, HasEyes, HasHair, Finished, Late, Looks
<1>3. CASE \E n \in Names : ChooseName(n)
  <2>1. PICK n \in Names : ChooseName(n)
    BY <1>3
  <2>2. CASE state = "NAME"
    <3>1. EnterState("NAME_CONFIRM", n, race, gender, color)
      BY <2>1, <2>2 DEF ChooseName
    <3> QED BY <1>1, <1>2, <3>1, EnterKeeps
  <2>3. CASE state = "RENAME"
    <3>1. EnterState("RENAME_CONFIRM", n, race, gender, color)
      BY <2>1, <2>3 DEF ChooseName
    <3> QED BY <1>1, <1>2, <2>3, <3>1, EnterKeeps
  <2> QED BY <2>1, <2>2, <2>3 DEF ChooseName
<1>4. CASE \E yes \in BOOLEAN : Confirm(yes)
  <2>1. PICK s : /\ EnterState(s, name, race, gender, color)
                 /\ \/ state = "NAME_CONFIRM" /\ s \in {"RACE", "NAME"}
                    \/ state = "RACE_CONFIRM" /\ s \in {"GENDER", "RACE"}
                    \/ state = "FORM_CONFIRM" /\ s \in {"STATS", "GENDER"}
                    \/ state = "STATS_CONFIRM" /\ s \in {"FINAL_CONFIRM", "STATS"}
                    \/ state = "FINAL_CONFIRM" /\ s = "NAME"
    BY <1>4 DEF Confirm, Enter, After, Back
  <2> QED BY <1>1, <1>2, <2>1, EnterKeeps
<1>5. CASE \E r \in Races : ChooseRace(r)
  <2>1. PICK r \in Races : EnterState("RACE_CONFIRM", name, r, gender, color)
    BY <1>5 DEF ChooseRace
  <2> QED BY <1>1, <1>2, <2>1, EnterKeeps
<1>6. CASE ChooseGender
  <2>1. state = "GENDER" /\ EnterState("HEIGHT", name, race, "chosen", color)
    BY <1>6 DEF ChooseGender
  <2> QED BY <1>1, <1>2, <2>1, EnterKeeps
<1>7. CASE ChooseForm
  <2>1. PICK s : /\ EnterState(s, name, race, gender, color)
                 /\ \/ state = "HEIGHT" /\ s = "BUILD"
                    \/ state = "BUILD" /\ s = "SKINCOLOR"
                    \/ state = "HAIRSTYLE" /\ s = "FORM_CONFIRM"
    BY <1>7 DEF ChooseForm, Enter, After
  <2> QED BY <1>1, <1>2, <2>1, EnterKeeps
<1>8. CASE Reroll
  <2>1. state = "STATS" /\ EnterState("STATS", name, race, gender, color)
    BY <1>8 DEF Reroll, Enter
  <2> QED BY <1>1, <1>2, <2>1, EnterKeeps
<1> QED BY <1>3, <1>4, <1>5, <1>6, <1>7, <1>8

LEMMA ColorKeeps ==
    ASSUME CreationIInv, NEW k, ChooseColor(k)
    PROVE  CreationIInv'
<1> DEFINE p == PartOf[state]
           c == [color EXCEPT ![p] = k]
<1>1. /\ CreatedRight /\ Looks(state, race, color) /\ state \in States
      /\ color = [q \in Parts |-> color[q]] /\ created' = created
      /\ k \in Colors[race][p] /\ EnterState(After[state], name, race, gender, c)
  BY DEF CreationIInv, CreationTypeOK, ChooseColor
<1>2. CreatedRight'
  BY <1>1 DEF CreatedRight
<1>3. \/ state = "SKINCOLOR" /\ p = "skin" /\ After[state] = "EYECOLOR"
      \/ state = "EYECOLOR" /\ p = "eyes" /\ After[state] = "HAIRCOLOR"
      \/ state = "HAIRCOLOR" /\ p = "hair" /\ After[state] = "HAIRSTYLE"
  BY DEF ChooseColor, PartOf, After
<1>4. /\ p \in Parts /\ c = [q \in Parts |-> c[q]]
      /\ c[p] = k /\ \A q \in Parts \ {p} : c[q] = color[q]
  <2>1. p \in Parts
    BY <1>3 DEF Parts
  <2> HIDE DEF p
  <2> QED BY <1>1, <2>1
<1>5. Looks(After[state], race, c)
  <2> HIDE DEF p, c
  <2> QED BY <1>1, <1>3, <1>4
          DEF Looks, HasRace, HasSkin, HasEyes, HasHair, Finished, Late, Parts
<1>6. After[state] \in States /\ After[state] \notin {"STATS_CONFIRM"} \cup Late
  BY <1>3 DEF States, HasRace, HasSkin, HasEyes, HasHair, Finished, Late
<1> HIDE DEF p, c
<1> QED BY <1>1, <1>2, <1>4, <1>5, <1>6, EnterKeeps

LEMMA TokenKeeps ==
    ASSUME CreationIInv, NEW i \in Stats, SpendToken(i)
    PROVE  CreationIInv'
<1>1. /\ stats \in [Stats -> Nat] /\ tokens \in Nat /\ tokens > 0
      /\ Total(stats) + tokens * TokenInc = AllPoints
      /\ TokenInc \in Nat /\ state = "STATS"
  BY CreationAssumption DEF SpendToken, CreationIInv, CreationTypeOK, PointsKept
<1>2. /\ stats' = [stats EXCEPT ![i] = @ + TokenInc] /\ tokens' = tokens - 1
      /\ state' = IF tokens = 1 THEN "STATS_CONFIRM" ELSE "STATS"
      /\ Display(state', name, race, gender, color)
      /\ UNCHANGED <<race, color, created>>
  BY <1>1 DEF SpendToken
<1>3. stats' \in [Stats -> Nat] /\ Total(stats') = Total(stats) + TokenInc /\ Total(stats) \in Nat
  <2>1. Total(stats) \in Nat
    BY <1>1, PointsFinite
  <2>2. stats \in [Stats -> Nat] /\ TokenInc \in Nat /\ stats' = [stats EXCEPT ![i] = @ + TokenInc]
    BY <1>1, <1>2
  <2>3. stats' \in [Stats -> Nat] /\ Total(stats') = Total(stats) + TokenInc
    <3>1. ASSUME NEW t, t = [stats EXCEPT ![i] = @ + TokenInc]
          PROVE  t \in [Stats -> Nat] /\ Total(t) = Total(stats) + TokenInc
      BY ONLY <2>2, <3>1, RaisesTotal, i \in Stats, ZenonT(60)
    <3> QED BY <2>2, <3>1
  <2> QED BY <2>1, <2>3
<1>4. Total(stats') + tokens' * TokenInc = AllPoints
  <2>1. (tokens - 1) * TokenInc = tokens * TokenInc - TokenInc /\ tokens * TokenInc \in Nat
    BY <1>1
  <2> QED BY <1>1, <1>2, <1>3, <2>1
<1>5. "stats" \notin screen'
  BY <1>2, ScreenShows DEF Late
<1>6. PointsKept'
  <2>1. CASE tokens = 1
    BY <1>1, <1>2, <1>3, <1>4, <1>5, <2>1 DEF PointsKept
  <2>2. CASE tokens # 1
    BY <1>1, <1>2, <1>4, <1>5, <2>2 DEF PointsKept, Late
  <2> QED BY <2>1, <2>2
<1>7. CreationTypeOK'
  <2>1. tokens' \in Nat
    BY <1>1, <1>2
  <2> QED BY <1>2, <1>3, <2>1
          DEF CreationIInv, CreationTypeOK, States, HasRace, HasSkin, HasEyes, HasHair, Finished
<1>8. Looks(state', race', color')
  BY <1>1, <1>2 DEF CreationIInv, Looks, HasRace, HasSkin, HasEyes, HasHair, Finished, Late
<1> QED BY <1>2, <1>6, <1>7, <1>8 DEF CreationIInv, CreatedRight

LEMMA FinalKeeps ==
    ASSUME CreationIInv, FinalConfirm
    PROVE  CreationIInv'
<1>1. /\ CreatedRight /\ Looks(state, race, color) /\ state = "FINAL_CONFIRM"
      /\ color = [q \in Parts |-> color[q]] /\ Total(stats) = AllPoints
  BY DEF CreationIInv, CreationTypeOK, PointsKept, FinalConfirm, Late
<1>2. race \in Races /\ \A p \in Parts : color[p] \in Colors[race][p]
  BY <1>1 DEF Looks, HasRace, HasSkin, HasEyes, HasHair, Finished, Late, Parts
<1>3. CreatedRight'
  BY <1>1, <1>2 DEF FinalConfirm, CreatedRight
<1>4. /\ Enter("RENAME") \/ Enter("CONTINUE")
      /\ Looks("RENAME", race, color) /\ Looks("CONTINUE", race, color)
      /\ "RENAME" \in States /\ "CONTINUE" \in States
  BY <1>1, <1>2
     DEF FinalConfirm, Looks, States, HasRace, HasSkin, HasEyes, HasHair, Finished, Late, Parts
<1> QED BY <1>1, <1>3, <1>4, EnterKeeps DEF Enter

(* However often its maker goes back, throws the points again or changes   *)
(* race, a character has all its points and looks like one of its race,    *)
(* whatever the stats, races and colours there are                         *)
(* (TelnetModeRealNewCharacter::process, enter_state).                     *)
THEOREM ProfileCorrect == CreationSpec => []ProfileRight
<1>1. CreationInit => CreationIInv
  <2>1. CreationInit => stats \in [Stats -> Nat]
    BY DEF CreationInit
  <2> QED BY <2>1 DEF CreationInit, CreationIInv, CreationTypeOK, Looks, PointsKept, CreatedRight,
                      States, HasRace, HasSkin, HasEyes, HasHair, Finished, Late
<1>2. ASSUME CreationIInv, [CreationNext]_creationVars PROVE CreationIInv'
  <2>1. CASE Finish \/ (\E n \in Names : OtherTakes(n)) \/ UNCHANGED creationVars
    <3>1. /\ UNCHANGED <<race, color, stats, tokens, screen, created>>
          /\ state' = state \/ state' = "DONE"
      BY <2>1 DEF Finish, OtherTakes, creationVars
    <3> QED
      BY <1>2, <3>1
         DEF CreationIInv, CreationTypeOK, Looks, PointsKept, CreatedRight,
             States, HasRace, HasSkin, HasEyes, HasHair, Finished, Late
  <2>2. CASE ~(Finish \/ (\E n \in Names : OtherTakes(n)) \/ UNCHANGED creationVars)
    BY <1>2, <2>2, DialogueKeeps, ColorKeeps, TokenKeeps, FinalKeeps DEF CreationNext
  <2> QED BY <2>1, <2>2
<1>3. CreationIInv => ProfileRight
  BY DEF CreationIInv, CreatedRight, PointsKept, ProfileRight
<1> QED BY <1>1, <1>2, <1>3, PTL DEF CreationSpec

-----------------------------------------------------------------------------
(* Zones under the hands of a builder.                                     *)
DoorStates == {"NONE", "FLOAT", "ACTIVE", "DEAD"}
DoorRecords == [target : Ids \cup {Nowhere}, oneway : BOOLEAN, state : DoorStates]

MapOK(ex, ds) ==
    /\ ex \in [Ids -> [Dir -> Portals \cup {None}]]
    /\ ds \in [Portals -> DoorRecords]

(* The exits of active rooms are active portals, of their own or           *)
(* registered, and a portal that is active has its place in its parent.    *)
MapRightOf(li, ex, ds) ==
    /\ \A r \in Ids, dir \in Dir :
          li[r] = "ACTIVE" /\ ex[r][dir] # None =>
              /\ ds[ex[r][dir]].state = "ACTIVE"
              /\ \/ ex[r][dir] = <<r, dir>>
                 \/ /\ ds[ex[r][dir]].target = r /\ ex[r][dir][2] = Opposite[dir]
                    /\ ~ds[ex[r][dir]].oneway
    /\ \A r \in Ids, dir \in Dir : ds[<<r, dir>>].state = "ACTIVE" =>
          li[r] = "ACTIVE" /\ ex[r][dir] = <<r, dir>>

BuilderTypeOK ==
    /\ rooms \in Seq(Ids) /\ rooms # <<>>
    /\ life \in [Ids -> {"NONE", "FLOAT", "ACTIVE", "DEAD", "FREED"}]
    /\ MapOK(exits, doors)
    /\ at \in Ids \cup {Nowhere}
    /\ file \in Seq(RoomData) /\ file # <<>>

(* The builder is in an active room, and active rooms are listed.          *)
RoomsKept ==
    /\ at # Nowhere => life[at] = "ACTIVE"
    /\ \A r \in Ids : life[r] = "ACTIVE" => Listed(r)

BuilderIInv == BuilderTypeOK /\ MapRightOf(life, exits, doors) /\ RoomsKept

LEMMA DirKnown ==
    /\ Dir = {"north", "south", "east", "west"}
    /\ \A d \in Dir : Opposite[d] \in Dir /\ Opposite[Opposite[d]] = d
    /\ None \notin Portals
<1>1. Dir = {"north", "south", "east", "west"}
  BY DEF Dir, Opposite
<1>2. \A d \in Dir : Opposite[d] \in Dir /\ Opposite[Opposite[d]] = d
  BY <1>1 DEF Opposite
<1>3. None \notin Portals
  BY <1>1 DEF None, Portals
<1> QED BY <1>1, <1>2, <1>3

(* A set of numbers that is not empty has a least element.                 *)
LEMMA LeastOf ==
    ASSUME NEW T \in SUBSET Nat, T # {}
    PROVE  \E m \in T : \A k \in T : m <= k
<1>1. PICK R : IsWellFoundedOn(R, Nat) /\ \A a, b \in Nat : a < b => <<a, b>> \in R
  <2>1. IsWellFoundedOn(OpToRel(<, Nat), Nat)
    BY NatLessThanWellFounded, Zenon
  <2>2. \A a, b \in Nat : a < b => <<a, b>> \in OpToRel(<, Nat)
    BY Zenon DEF OpToRel
  <2> QED BY <2>1, <2>2
<1>2. IsWellFoundedOn(R, Nat)
  BY <1>1
<1>3. PICK m \in T : \A y \in T : ~(<<y, m>> \in R)
  BY <1>2, WFMin
<1>4. \A k \in T : ~(k < m)
  BY <1>1, <1>3
<1> QED BY <1>4

(* What a file says of a portal.                                           *)
LEMMA PlacedIs ==
    ASSUME NEW f \in Seq(RoomData), NEW p \in DOMAIN Placed(f)
    PROVE  /\ p \in Portals /\ InFile(f, p[1])
           /\ Placed(f)[p].target \in Ids \cup {Nowhere} /\ Placed(f)[p].oneway \in BOOLEAN
<1>1. p \in Portals /\ OfFile(f, p) # {} /\ Placed(f)[p] = CHOOSE d \in OfFile(f, p) : TRUE
  BY DEF Placed
<1>2. Placed(f)[p] \in OfFile(f, p)
  BY <1>1
<1>3. PICK i \in DOMAIN f : f[i].id = p[1] /\ Placed(f)[p] \in f[i].doors
  BY <1>2 DEF OfFile
<1>4. f[i] \in RoomData
  BY <1>3, ElementOfSeq, LenProperties
<1> QED BY <1>1, <1>3, <1>4 DEF RoomData, InFile

(* The place a portal that comes takes, and who is there.                  *)
LEMMA ComerIs ==
    ASSUME NEW f \in Seq(RoomData), NEW r \in Ids, NEW dir \in Dir,
           NEW e, e = LoadedExits(f)[r][dir]
    PROVE  \/ e = None
           \/ e = <<r, dir>> /\ e \in DOMAIN Placed(f)
           \/ /\ e \in DOMAIN Placed(f) /\ e[2] = Opposite[dir]
              /\ ~Placed(f)[e].oneway /\ Placed(f)[e].target = r /\ InFile(f, r)
<1> DEFINE T == Comers(f, r, dir)
           first == CHOOSE i \in T : \A j \in T : i <= j
<1>1. e = IF <<r, dir>> \in DOMAIN Placed(f) THEN <<r, dir>>
          ELSE IF ~InFile(f, r) \/ T = {} THEN None ELSE <<f[first].id, Opposite[dir]>>
  BY DEF LoadedExits
<1>2. CASE <<r, dir>> \notin DOMAIN Placed(f) /\ InFile(f, r) /\ T # {}
  <2>1. T \in SUBSET Nat
    <3>1. DOMAIN f = 1 .. Len(f) /\ Len(f) \in Nat
      BY LenProperties
    <3> QED BY <3>1 DEF Comers
  <2>2. \E i \in T : \A j \in T : i <= j
    BY <1>2, <2>1, LeastOf
  <2>3. first \in T
    BY <2>2
  <2> HIDE DEF first
  <2>4. LET p == <<f[first].id, Opposite[dir]>>
        IN  p \in DOMAIN Placed(f) /\ ~Placed(f)[p].oneway /\ Placed(f)[p].target = r
    BY <2>3 DEF Comers
  <2> QED BY <1>1, <1>2, <2>4
<1> HIDE DEF T, first
<1> QED BY <1>1, <1>2

(* A zone that was loaded is a right map.                                  *)
LEMMA LoadedRight ==
    ASSUME NEW f \in Seq(RoomData), f # <<>>, NEW rs, NEW li, NEW ex, NEW ds,
           IsLoaded(f, rs, li, ex, ds)
    PROVE  /\ rs \in Seq(Ids) /\ rs # <<>> /\ f[1].id \in Ids /\ li[f[1].id] = "ACTIVE"
           /\ li \in [Ids -> {"NONE", "FLOAT", "ACTIVE", "DEAD", "FREED"}]
           /\ \A r \in Ids : li[r] = "ACTIVE" => \E i \in DOMAIN rs : rs[i] = r
           /\ MapOK(ex, ds) /\ MapRightOf(li, ex, ds)
<1>1. /\ Len(f) \in Nat /\ DOMAIN f = 1 .. Len(f) /\ Len(f) # 0
      /\ \A i \in 1 .. Len(f) : f[i].id \in Ids
  <2>1. \A i \in 1 .. Len(f) : f[i] \in RoomData
    BY ElementOfSeq
  <2> QED BY <2>1, LenProperties, EmptySeq DEF RoomData
<1>2. /\ rs = [i \in 1 .. Len(f) |-> f[i].id] /\ ex = LoadedExits(f)
      /\ ds = [p \in Portals |-> IF p \in DOMAIN Placed(f) THEN LoadedDoor(f, p) ELSE NoDoor]
      /\ li = [r \in Ids |-> IF InFile(f, r) THEN "ACTIVE" ELSE "NONE"]
  BY <1>1 DEF IsLoaded
<1>3. rs \in Seq(Ids) /\ rs # <<>> /\ DOMAIN rs = 1 .. Len(f)
  <2>1. rs \in Seq(Ids) /\ Len(rs) = Len(f)
    BY <1>1, <1>2, IsASeq
  <2> QED BY <1>1, <1>2, <2>1, EmptySeq
<1>4. f[1].id \in Ids /\ li[f[1].id] = "ACTIVE"
  BY <1>1, <1>2 DEF InFile
<1>5. \A r \in Ids : li[r] = "ACTIVE" => \E i \in DOMAIN rs : rs[i] = r
  BY <1>1, <1>2, <1>3 DEF InFile
<1>6. ASSUME NEW p \in DOMAIN Placed(f)
      PROVE  /\ p \in Portals /\ ds[p] \in DoorRecords /\ ds[p].state = "ACTIVE"
             /\ ds[p].target = Placed(f)[p].target /\ InFile(f, p[1]) /\ p[1] \in Ids
             /\ ds[p].oneway <=> \/ Placed(f)[p].oneway
                                 \/ /\ InFile(f, ds[p].target)
                                    /\ ex[ds[p].target][Opposite[p[2]]] # p
  <2>1. p \in Portals /\ InFile(f, p[1]) /\ ds[p] = LoadedDoor(f, p)
    BY <1>2, PlacedIs
  <2> QED BY <1>2, <2>1, PlacedIs DEF LoadedDoor, DoorRecords, DoorStates, Portals
<1>7. ASSUME NEW p \in Portals, p \notin DOMAIN Placed(f)
      PROVE  ds[p] \in DoorRecords /\ ds[p].state = "NONE"
  BY <1>2, <1>7 DEF NoDoor, DoorRecords, DoorStates
<1>8. MapOK(ex, ds)
  <2>1. \A r \in Ids, dir \in Dir : ex[r][dir] \in Portals \cup {None}
    BY <1>2, <1>6, ComerIs
  <2>2. ex \in [Ids -> [Dir -> Portals \cup {None}]]
    <3>1. \A r \in Ids : ex[r] = [dir \in Dir |-> ex[r][dir]]
      BY <1>2 DEF LoadedExits
    <3>2. ex = [r \in Ids |-> ex[r]]
      BY <1>2 DEF LoadedExits
    <3> QED BY <2>1, <3>1, <3>2
  <2>3. ds \in [Portals -> DoorRecords]
    BY <1>2, <1>6, <1>7
  <2> QED BY <2>2, <2>3 DEF MapOK
<1>9. ASSUME NEW r \in Ids, NEW dir \in Dir, ex[r][dir] # None
      PROVE  /\ ds[ex[r][dir]].state = "ACTIVE"
             /\ \/ ex[r][dir] = <<r, dir>>
                \/ /\ ds[ex[r][dir]].target = r /\ ex[r][dir][2] = Opposite[dir]
                   /\ ~ds[ex[r][dir]].oneway
  <2> DEFINE p == ex[r][dir]
  <2>1. CASE p = <<r, dir>> /\ p \in DOMAIN Placed(f)
    BY <1>6, <2>1
  <2>2. CASE /\ p \in DOMAIN Placed(f) /\ p[2] = Opposite[dir]
             /\ ~Placed(f)[p].oneway /\ Placed(f)[p].target = r
    <3>1. ds[p].state = "ACTIVE" /\ ds[p].target = r
      BY <1>6, <2>2
    <3>2. Opposite[p[2]] = dir
      BY <2>2, DirKnown
    <3>3. ex[ds[p].target][Opposite[p[2]]] = p
      BY <3>1, <3>2
    <3>4. ~ds[p].oneway
      <4> HIDE DEF p
      <4> QED BY <1>6, <2>2, <3>3
    <3> QED BY <2>2, <3>1, <3>4
  <2> QED BY <1>2, <1>9, <2>1, <2>2, ComerIs
<1>10. ASSUME NEW r \in Ids, NEW dir \in Dir, ds[<<r, dir>>].state = "ACTIVE"
       PROVE  li[r] = "ACTIVE" /\ ex[r][dir] = <<r, dir>>
  <2>1. <<r, dir>> \in Portals
    BY DEF Portals
  <2>2. <<r, dir>> \in DOMAIN Placed(f)
    BY <1>7, <1>10, <2>1
  <2>3. InFile(f, r)
    BY <1>6, <2>2
  <2> QED BY <1>2, <2>2, <2>3 DEF LoadedExits
<1>11. MapRightOf(li, ex, ds)
  BY <1>9, <1>10 DEF MapRightOf
<1> QED BY <1>2, <1>3, <1>4, <1>5, <1>8, <1>11

(* A room is added to the list.                                            *)
LEMMA CreateRoomKeeps ==
    ASSUME BuilderIInv, NEW id \in Ids, OlcCreateRoom(id)
    PROVE  BuilderIInv'
<1>1. CASE WalksIntoFreed(id) /\ Crash
  BY <1>1 DEF Crash, world, BuilderIInv, BuilderTypeOK, RoomsKept, Listed
<1>2. CASE ~(WalksIntoFreed(id) /\ Crash)
  <2>1. /\ rooms' = Append(rooms, id) /\ life' = [life EXCEPT ![id] = "FLOAT"] /\ ~Listed(id)
        /\ UNCHANGED <<exits, doors, at, file>>
    BY <1>2 DEF OlcCreateRoom
  <2>2. /\ rooms \in Seq(Ids) /\ Len(rooms) \in Nat /\ DOMAIN rooms = 1 .. Len(rooms)
        /\ life[id] # "ACTIVE"
    BY <2>1, LenProperties DEF BuilderIInv, BuilderTypeOK, RoomsKept
  <2>3. /\ rooms' \in Seq(Ids) /\ DOMAIN rooms' = 1 .. Len(rooms) + 1 /\ rooms' # <<>>
        /\ \A i \in 1 .. Len(rooms) : rooms'[i] = rooms[i]
    <3>1. rooms' \in Seq(Ids) /\ Len(rooms') = Len(rooms) + 1
      BY <2>1, <2>2, AppendProperties
    <3>2. DOMAIN rooms' = 1 .. Len(rooms')
      BY <3>1, LenProperties
    <3> QED BY <2>1, <2>2, <3>1, <3>2, AppendProperties, EmptySeq
  <2>4. /\ life' \in [Ids -> {"NONE", "FLOAT", "ACTIVE", "DEAD", "FREED"}]
        /\ \A r \in Ids : life'[r] = "ACTIVE" <=> life[r] = "ACTIVE"
    BY <2>1, <2>2 DEF BuilderIInv, BuilderTypeOK
  <2>5. BuilderTypeOK'
    BY <2>1, <2>3, <2>4 DEF BuilderIInv, BuilderTypeOK
  <2>6. MapRightOf(life', exits', doors')
    BY <2>1, <2>4 DEF BuilderIInv, MapRightOf
  <2>7. RoomsKept'
    <3>1. \A r \in Ids : Listed(r) => Listed(r)'
      BY <2>2, <2>3 DEF Listed
    <3> QED BY <2>1, <2>4, <3>1 DEF BuilderIInv, BuilderTypeOK, RoomsKept
  <2> QED BY <2>5, <2>6, <2>7 DEF BuilderIInv
<1> QED BY <1>1, <1>2

(* A portal is made in the room the builder is in.                         *)
LEMMA CreatePortalKeeps ==
    ASSUME BuilderIInv, NEW dir \in Dir, NEW id \in Ids, OlcCreatePortal(dir, id)
    PROVE  BuilderIInv'
<1>1. CASE WalksIntoFreed(id) /\ Crash
  BY <1>1 DEF Crash, world, BuilderIInv, BuilderTypeOK, RoomsKept, Listed
<1>2. CASE ~(WalksIntoFreed(id) /\ Crash)
  <2> DEFINE p == <<at, dir>>
             d == [target |-> id, oneway |-> FALSE, state |-> "ACTIVE"]
  <2>1. at \in Ids /\ life[at] = "ACTIVE" /\ exits[at][dir] = None
    BY DEF OlcCreatePortal, Edit, BuilderIInv, BuilderTypeOK, RoomsKept
  <2>2. /\ exits' = [exits EXCEPT ![at][dir] = p] /\ doors' = [doors EXCEPT ![p] = d]
        /\ UNCHANGED <<rooms, life, at, file>>
    BY <1>2, <2>1 DEF OlcCreatePortal
  <2>3. p \in Portals /\ p # None /\ d \in DoorRecords
    BY <2>1, DirKnown DEF Portals, DoorRecords, DoorStates
  <2>4. /\ MapOK(exits', doors')
        /\ \A r \in Ids, e \in Dir : exits'[r][e] = IF r = at /\ e = dir THEN p ELSE exits[r][e]
        /\ \A q \in Portals : doors'[q] = IF q = p THEN d ELSE doors[q]
    <3>1. exits \in [Ids -> [Dir -> Portals \cup {None}]] /\ doors \in [Portals -> DoorRecords]
      BY DEF BuilderIInv, BuilderTypeOK, MapOK
    <3> HIDE DEF p, d
    <3> QED BY <2>1, <2>2, <2>3, <3>1 DEF MapOK
  <2>5. \A r \in Ids, e \in Dir : life[r] = "ACTIVE" => exits[r][e] # p
    <3> SUFFICES ASSUME NEW r \in Ids, NEW e \in Dir, life[r] = "ACTIVE", exits[r][e] = p
                 PROVE  FALSE
      OBVIOUS
    <3>1. doors[p].state = "ACTIVE"
      BY <2>3 DEF BuilderIInv, MapRightOf
    <3>2. exits[at][dir] = p
      BY <2>1, <3>1 DEF BuilderIInv, MapRightOf
    <3> QED BY <2>1, <2>3, <3>2
  <2>6. ASSUME NEW r \in Ids, NEW e \in Dir, life[r] = "ACTIVE", exits'[r][e] # None
        PROVE  /\ doors'[exits'[r][e]].state = "ACTIVE"
               /\ \/ exits'[r][e] = <<r, e>>
                  \/ /\ doors'[exits'[r][e]].target = r /\ exits'[r][e][2] = Opposite[e]
                     /\ ~doors'[exits'[r][e]].oneway
    <3>1. CASE r = at /\ e = dir
      BY <2>3, <2>4, <3>1
    <3>2. CASE ~(r = at /\ e = dir)
      <4>1. exits'[r][e] = exits[r][e] /\ exits[r][e] \in Portals /\ exits[r][e] # p
        BY <2>4, <2>5, <2>6, <3>2 DEF BuilderIInv, BuilderTypeOK, MapOK
      <4>2. doors'[exits[r][e]] = doors[exits[r][e]]
        BY <2>4, <4>1
      <4> QED BY <2>6, <4>1, <4>2 DEF BuilderIInv, MapRightOf
    <3> QED BY <3>1, <3>2
  <2>7. ASSUME NEW r \in Ids, NEW e \in Dir, doors'[<<r, e>>].state = "ACTIVE"
        PROVE  life[r] = "ACTIVE" /\ exits'[r][e] = <<r, e>>
    <3>1. <<r, e>> \in Portals
      BY DEF Portals
    <3>2. CASE r = at /\ e = dir
      BY <2>1, <2>4, <3>2
    <3>3. CASE ~(r = at /\ e = dir)
      <4>1. <<r, e>> # p
        BY <3>3
      <4>2. doors[<<r, e>>].state = "ACTIVE"
        BY <2>4, <2>7, <3>1, <4>1
      <4> QED BY <2>4, <3>3, <4>2 DEF BuilderIInv, MapRightOf
    <3> QED BY <3>2, <3>3
  <2>8. MapRightOf(life', exits', doors')
    BY <2>2, <2>6, <2>7 DEF MapRightOf
  <2>9. BuilderTypeOK' /\ RoomsKept'
    BY <2>2, <2>4 DEF BuilderIInv, BuilderTypeOK, RoomsKept, Listed
  <2> QED BY <2>8, <2>9 DEF BuilderIInv
<1> QED BY <1>1, <1>2

(* A room dies with its portals.                                           *)
LEMMA DestroyRoomKeeps ==
    ASSUME BuilderIInv, NEW id \in Ids, OlcDestroyRoom(id)
    PROVE  BuilderIInv'
<1>1. CASE Crash
  BY <1>1 DEF Crash, world, BuilderIInv, BuilderTypeOK, RoomsKept, Listed
<1>2. CASE ~Crash
  <2> DEFINE ps == Own(id)
  <2>1. /\ id # at /\ DeactivateDoors(ps) /\ life' = [life EXCEPT ![id] = "DEAD"]
        /\ UNCHANGED <<rooms, at, file>>
    BY <1>2 DEF OlcDestroyRoom
  <2>2. /\ exits \in [Ids -> [Dir -> Portals \cup {None}]] /\ doors \in [Portals -> DoorRecords]
        /\ life \in [Ids -> {"NONE", "FLOAT", "ACTIVE", "DEAD", "FREED"}]
    BY DEF BuilderIInv, BuilderTypeOK, MapOK
  <2>3. /\ life' \in [Ids -> {"NONE", "FLOAT", "ACTIVE", "DEAD", "FREED"}]
        /\ \A r \in Ids : life'[r] = IF r = id THEN "DEAD" ELSE life[r]
    BY <2>1, <2>2
  <2>4. /\ ps \subseteq Portals
        /\ \A p \in ps : p[1] = id /\ p[2] \in Dir /\ p = <<id, p[2]>> /\ exits[id][p[2]] = p
        /\ \A dir \in Dir : exits[id][dir] = <<id, dir>> => <<id, dir>> \in ps
    BY DEF Own, Portals
  <2>5. /\ \A p \in Portals : doors'[p] = IF p \in ps THEN [doors[p] EXCEPT !.state = "DEAD"] ELSE doors[p]
        /\ \A r \in Ids, dir \in Dir :
              exits'[r][dir] = IF /\ exits[r][dir] \in ps /\ ~doors[exits[r][dir]].oneway
                                  /\ doors[exits[r][dir]].target = r
                                  /\ Opposite[exits[r][dir][2]] = dir
                               THEN None ELSE exits[r][dir]
    <3> HIDE DEF ps
    <3> QED BY <2>1 DEF DeactivateDoors
  <2>6. MapOK(exits', doors')
    <3>1. \A p \in Portals : [doors[p] EXCEPT !.state = "DEAD"] \in DoorRecords
      BY <2>2 DEF DoorRecords, DoorStates
    <3>2. doors' \in [Portals -> DoorRecords]
      <4> HIDE DEF ps
      <4> QED BY <2>1, <2>2, <3>1 DEF DeactivateDoors
    <3>3. exits' \in [Ids -> [Dir -> Portals \cup {None}]]
      <4> HIDE DEF ps
      <4> QED BY <2>1, <2>2 DEF DeactivateDoors
    <3> QED BY <3>2, <3>3 DEF MapOK
  <2> HIDE DEF ps
  <2>7. ASSUME NEW r \in Ids, NEW dir \in Dir, life'[r] = "ACTIVE", exits'[r][dir] # None
        PROVE  /\ doors'[exits'[r][dir]].state = "ACTIVE"
               /\ \/ exits'[r][dir] = <<r, dir>>
                  \/ /\ doors'[exits'[r][dir]].target = r /\ exits'[r][dir][2] = Opposite[dir]
                     /\ ~doors'[exits'[r][dir]].oneway
    <3> DEFINE p == exits[r][dir]
    <3>1. r # id /\ life[r] = "ACTIVE" /\ exits'[r][dir] = p /\ p \in Portals
      BY <2>2, <2>3, <2>5, <2>7
    <3>2. /\ doors[p].state = "ACTIVE"
          /\ p = <<r, dir>> \/ (doors[p].target = r /\ p[2] = Opposite[dir] /\ ~doors[p].oneway)
      BY <2>7, <3>1 DEF BuilderIInv, MapRightOf
    <3>3. p \notin ps
      <4> SUFFICES ASSUME p \in ps PROVE FALSE
        OBVIOUS
      <4>1. p[1] = id
        BY <2>4
      <4>2. doors[p].target = r /\ p[2] = Opposite[dir] /\ ~doors[p].oneway
        BY <3>1, <3>2, <4>1
      <4>3. Opposite[p[2]] = dir
        BY <4>2, DirKnown
      <4> QED BY <2>5, <2>7, <4>2, <4>3
    <3>4. doors'[p] = doors[p]
      BY <2>5, <3>1, <3>3
    <3> QED BY <3>1, <3>2, <3>4
  <2>8. ASSUME NEW r \in Ids, NEW dir \in Dir, doors'[<<r, dir>>].state = "ACTIVE"
        PROVE  life'[r] = "ACTIVE" /\ exits'[r][dir] = <<r, dir>>
    <3> DEFINE p == <<r, dir>>
    <3>1. p \in Portals /\ doors[p] \in DoorRecords
      BY <2>2 DEF Portals
    <3>2. p \notin ps /\ doors[p].state = "ACTIVE"
      BY <2>5, <2>8, <3>1 DEF DoorRecords
    <3>3. life[r] = "ACTIVE" /\ exits[r][dir] = p
      BY <3>2 DEF BuilderIInv, MapRightOf
    <3>4. r # id
      BY <2>4, <3>2, <3>3
    <3> QED BY <2>3, <2>5, <3>2, <3>3, <3>4
  <2>9. MapRightOf(life', exits', doors')
    BY <2>7, <2>8 DEF MapRightOf
  <2>10. BuilderTypeOK' /\ RoomsKept'
    BY <2>1, <2>3, <2>6 DEF BuilderIInv, BuilderTypeOK, RoomsKept, Listed
  <2> QED BY <2>9, <2>10 DEF BuilderIInv
<1> QED BY <1>1, <1>2

(* What is not active is freed.                                            *)
LEMMA CollectKeeps ==
    ASSUME BuilderIInv, Collect
    PROVE  BuilderIInv'
<1>1. /\ life' = [r \in Ids |-> IF life[r] \in {"FLOAT", "DEAD"} THEN "FREED" ELSE life[r]]
      /\ doors' = [p \in Portals |-> IF doors[p].state = "ACTIVE" THEN doors[p] ELSE NoDoor]
      /\ exits' = [r \in Ids |-> IF life'[r] = "FREED" THEN [dir \in Dir |-> None] ELSE exits[r]]
      /\ UNCHANGED <<rooms, at, file>>
  BY DEF Collect
<1>2. /\ exits \in [Ids -> [Dir -> Portals \cup {None}]] /\ doors \in [Portals -> DoorRecords]
      /\ life \in [Ids -> {"NONE", "FLOAT", "ACTIVE", "DEAD", "FREED"}]
  BY DEF BuilderIInv, BuilderTypeOK, MapOK
<1>3. /\ life' \in [Ids -> {"NONE", "FLOAT", "ACTIVE", "DEAD", "FREED"}]
      /\ \A r \in Ids : life'[r] = "ACTIVE" <=> life[r] = "ACTIVE"
  BY <1>1, <1>2
<1>4. MapOK(exits', doors')
  <2>1. NoDoor \in DoorRecords
    BY DEF NoDoor, DoorRecords, DoorStates
  <2> QED BY <1>1, <1>2, <2>1 DEF MapOK
<1>5. /\ \A r \in Ids : life[r] = "ACTIVE" => exits'[r] = exits[r]
      /\ \A p \in Portals : doors[p].state = "ACTIVE" => doors'[p] = doors[p]
      /\ \A p \in Portals : doors'[p].state = "ACTIVE" => doors[p].state = "ACTIVE"
  BY <1>1, <1>2 DEF NoDoor
<1>6. MapRightOf(life', exits', doors')
  <2>1. ASSUME NEW r \in Ids, NEW dir \in Dir, life'[r] = "ACTIVE", exits'[r][dir] # None
        PROVE  /\ doors'[exits'[r][dir]].state = "ACTIVE"
               /\ \/ exits'[r][dir] = <<r, dir>>
                  \/ /\ doors'[exits'[r][dir]].target = r /\ exits'[r][dir][2] = Opposite[dir]
                     /\ ~doors'[exits'[r][dir]].oneway
    <3>1. life[r] = "ACTIVE" /\ exits'[r][dir] = exits[r][dir] /\ exits[r][dir] \in Portals
      BY <1>2, <1>3, <1>5, <2>1
    <3>2. doors[exits[r][dir]].state = "ACTIVE"
      BY <2>1, <3>1 DEF BuilderIInv, MapRightOf
    <3>3. doors'[exits[r][dir]] = doors[exits[r][dir]]
      BY <1>5, <3>1, <3>2
    <3> QED BY <2>1, <3>1, <3>3 DEF BuilderIInv, MapRightOf
  <2>2. ASSUME NEW r \in Ids, NEW dir \in Dir, doors'[<<r, dir>>].state = "ACTIVE"
        PROVE  life'[r] = "ACTIVE" /\ exits'[r][dir] = <<r, dir>>
    <3>1. <<r, dir>> \in Portals
      BY DEF Portals
    <3>2. doors[<<r, dir>>].state = "ACTIVE"
      BY <1>5, <2>2, <3>1
    <3> QED BY <1>3, <1>5, <3>2 DEF BuilderIInv, MapRightOf
  <2> QED BY <2>1, <2>2 DEF MapRightOf
<1>7. BuilderTypeOK' /\ RoomsKept'
  BY <1>1, <1>3, <1>4 DEF BuilderIInv, BuilderTypeOK, RoomsKept, Listed
<1> QED BY <1>6, <1>7 DEF BuilderIInv

(* What is saved can be loaded.                                            *)
LEMMA SaveKeeps ==
    ASSUME BuilderIInv, ZoneSave
    PROVE  BuilderIInv'
<1>1. CASE Crash
  BY <1>1 DEF Crash, world, BuilderIInv, BuilderTypeOK, RoomsKept, Listed
<1>2. CASE ~Crash
  <2> DEFINE g(i) == [id |-> rooms[i],
                      doors |-> {[dir |-> dir, target |-> doors[<<rooms[i], dir>>].target,
                                  oneway |-> doors[<<rooms[i], dir>>].oneway] :
                                    dir \in {d \in Dir : exits[rooms[i]][d] = <<rooms[i], d>>}}]
  <2>1. file' = [i \in DOMAIN rooms |-> g(i)] /\ UNCHANGED <<rooms, life, exits, doors, at>>
    BY <1>2 DEF ZoneSave, world
  <2>2. /\ Len(rooms) \in Nat /\ DOMAIN rooms = 1 .. Len(rooms) /\ Len(rooms) # 0
        /\ \A i \in 1 .. Len(rooms) : rooms[i] \in Ids
    <3>1. rooms \in Seq(Ids) /\ rooms # <<>>
      BY DEF BuilderIInv, BuilderTypeOK
    <3> QED BY <3>1, LenProperties, ElementOfSeq, EmptySeq
  <2>3. ASSUME NEW i \in 1 .. Len(rooms) PROVE g(i) \in RoomData
    <3>1. ASSUME NEW dir \in Dir
          PROVE  doors[<<rooms[i], dir>>] \in DoorRecords
      BY <2>2 DEF BuilderIInv, BuilderTypeOK, MapOK, Portals
    <3>2. ASSUME NEW dir \in Dir
          PROVE  /\ doors[<<rooms[i], dir>>].target \in Ids \cup {Nowhere}
                 /\ doors[<<rooms[i], dir>>].oneway \in BOOLEAN
      BY <3>1 DEF DoorRecords
    <3>3. g(i).doors \subseteq [dir : Dir, target : Ids \cup {Nowhere}, oneway : BOOLEAN]
      <4> SUFFICES ASSUME NEW d \in g(i).doors
                   PROVE  d \in [dir : Dir, target : Ids \cup {Nowhere}, oneway : BOOLEAN]
        OBVIOUS
      <4>1. PICK dir \in Dir : d = [dir |-> dir, target |-> doors[<<rooms[i], dir>>].target,
                                    oneway |-> doors[<<rooms[i], dir>>].oneway]
        OBVIOUS
      <4> QED BY <3>2, <4>1
    <3> QED BY <2>2, <3>3 DEF RoomData
  <2> HIDE DEF g
  <2>4. file' \in Seq(RoomData) /\ file' # <<>>
    <3>1. file' = [i \in 1 .. Len(rooms) |-> g(i)]
      BY <2>1, <2>2
    <3>2. file' \in Seq(RoomData) /\ Len(file') = Len(rooms)
      BY <2>2, <2>3, <3>1, IsASeq
    <3> QED BY <2>2, <3>2, EmptySeq
  <2> QED BY <2>1, <2>4 DEF BuilderIInv, BuilderTypeOK, RoomsKept, Listed
<1> QED BY <1>1, <1>2

(* The builder walks, or fails to.                                         *)
LEMMA GoKeeps ==
    ASSUME BuilderIInv, NEW dir \in Dir, Go(dir) \/ OlcDestroyPortal(dir)
    PROVE  BuilderIInv'
<1>1. CASE Crash
  BY <1>1 DEF Crash, world, BuilderIInv, BuilderTypeOK, RoomsKept, Listed
<1>2. CASE ~Crash
  <2>1. /\ UNCHANGED <<rooms, life, exits, doors, file>>
        /\ at \in Ids /\ life[at] = "ACTIVE" /\ exits[at][dir] # None
        /\ \E to : at' = (IF life[to] = "ACTIVE" THEN to ELSE Nowhere) /\ Listed(to)
    BY <1>2 DEF Go, OlcDestroyPortal, world, BuilderIInv, BuilderTypeOK, RoomsKept
  <2>2. \A to : Listed(to) => to \in Ids
    BY ElementOfSeq, LenProperties DEF Listed, BuilderIInv, BuilderTypeOK
  <2>3. at' \in Ids \cup {Nowhere} /\ (at' # Nowhere => life[at'] = "ACTIVE")
    BY <2>1, <2>2
  <2> QED BY <2>1, <2>3 DEF BuilderIInv, BuilderTypeOK, RoomsKept, Listed
<1> QED BY <1>1, <1>2

LEMMA StartsRight ==
    ASSUME file \in Seq(RoomData), file # <<>>, IsLoaded(file, rooms, life, exits, doors),
           at = file[1].id
    PROVE  BuilderIInv
<1> USE LoadedRight
<1>1. /\ rooms \in Seq(Ids) /\ rooms # <<>> /\ at \in Ids /\ life[at] = "ACTIVE"
      /\ life \in [Ids -> {"NONE", "FLOAT", "ACTIVE", "DEAD", "FREED"}]
      /\ \A r \in Ids : life[r] = "ACTIVE" => \E i \in DOMAIN rooms : rooms[i] = r
      /\ MapOK(exits, doors) /\ MapRightOf(life, exits, doors)
  OBVIOUS
<1> QED BY <1>1 DEF BuilderIInv, BuilderTypeOK, RoomsKept, Listed

(* Whatever zone files hold and builders make and destroy, saved and       *)
(* loaded again or not: exits of active rooms are active portals in their  *)
(* places (zone.cc, room.cc, portal.cc, olc.cc).                           *)
THEOREM ExitsCorrect == BuilderSpec => []ExitsRight
<1>1. BuilderInit => BuilderIInv
  BY StartsRight, WorldsAssumption DEF BuilderInit
<1>2. ASSUME BuilderIInv, [BuilderNext]_builderVars PROVE BuilderIInv'
  <2>1. CASE Restart
    <3>1. /\ file' \in Seq(RoomData) /\ file' # <<>>
          /\ IsLoaded(file', rooms', life', exits', doors') /\ at' = file'[1].id
      BY <1>2, <2>1 DEF Restart, BuilderIInv, BuilderTypeOK
    <3>2. /\ rooms' \in Seq(Ids) /\ rooms' # <<>> /\ at' \in Ids /\ life'[at'] = "ACTIVE"
          /\ life' \in [Ids -> {"NONE", "FLOAT", "ACTIVE", "DEAD", "FREED"}]
          /\ \A r \in Ids : life'[r] = "ACTIVE" => \E i \in DOMAIN rooms' : rooms'[i] = r
          /\ MapOK(exits', doors') /\ MapRightOf(life', exits', doors')
      BY <3>1, LoadedRight
    <3> QED BY <3>1, <3>2 DEF BuilderIInv, BuilderTypeOK, RoomsKept, Listed
  <2>2. CASE UNCHANGED builderVars
    BY <1>2, <2>2 DEF builderVars, BuilderIInv, BuilderTypeOK, RoomsKept, Listed
  <2> QED
    BY <1>2, <2>1, <2>2, CreateRoomKeeps, CreatePortalKeeps, DestroyRoomKeeps, CollectKeeps,
       SaveKeeps, GoKeeps DEF BuilderNext
<1>3. BuilderIInv => ExitsRight
  <2> SUFFICES ASSUME BuilderIInv PROVE ExitsRight
    OBVIOUS
  <2>1. \A p \in Portals : p[1] \in Ids /\ p[2] \in Dir /\ p = <<p[1], p[2]>>
    BY DEF Portals
  <2> QED BY <2>1 DEF BuilderIInv, MapRightOf, ExitsRight
<1> QED BY <1>1, <1>2, <1>3, PTL DEF BuilderSpec
=============================================================================
