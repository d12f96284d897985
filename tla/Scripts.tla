------------------------------ MODULE Scripts ------------------------------
(***************************************************************************)
(* The server's use of Lua: the objects scripts see (src/lua/object.cc),   *)
(* the calls of hooks (src/lua/exec.cc, src/mud/hooks.cc and the web       *)
(* server's http_request), print (print.cc), the library offered to        *)
(* scripts (mudlib.cc, entlib.cc, misclib.cc), the scripts run at the      *)
(* start (core.cc) and the running of macros (macro.cc).  All of it shares *)
(* one Lua stack.  Lua::sink is set only while a script runs.              *)
(***************************************************************************)
EXTENDS Integers, Sequences

CONSTANTS Entities,  \* addresses at which entities are made
          Writer,    \* the address of a File::Writer in a function's frame
          Called,    \* the hooks the server calls, names from Programs
          Macros,    \* the texts shown
          MaxData,   \* bound on the full userdata ever made
          MaxLeak,   \* bound on what is left on the stack
          Null       \* no object, no userdata, no call

VARIABLES alive,     \* addresses with an object
          registry,  \* LUA_REGISTRYINDEX: address -> userdata
          pointer,   \* what each userdata made so far holds
          hooks,     \* the names in the _hooks table
          cache,     \* the macros in "macro-cache"
          stack,     \* the Lua stack
          call,      \* the Exec in progress, or Null
          answer     \* what the last hook answered

scriptsVars == <<alive, registry, pointer, hooks, cache, stack, call, answer>>

Lua(kind) == <<kind, 0>>
Userdata(u) == <<"userdata", u>>
Kinds == {"nil", "true", "false", "userdata", "function", "table", "string"}
Nil == Lua("nil")
Values == {Nil, Lua("true"), Lua("false")}   \* what scripts return
Address == Entities \cup {Writer}
Data == DOMAIN pointer

(* What each hook does, one step of the function after the other.          *)
Steps == {"self", "other", "create", "writer", "release", "table", "field", "sink", "run", "result"}

Save == <<"self", "create", "writer", "run", "release", "result">>
Beat == <<"self", "run", "result">>
Pair == <<"self", "other", "run", "result">>
Bare == <<"run", "result">>
Http == <<"table", "field", "field", "field", "sink", "run", "result">>

WorldHooks ==
    [save_creature |-> Save, creature_heartbeat |-> Beat, save_entity |-> Save,
     save_portal |-> Save, ready |-> Bare, change_hour |-> Bare, save_npc |-> Save,
     npc_death |-> Pair, npc_heartbeat |-> Beat, save_object_blueprint |-> Save,
     save_object |-> Save, object_heartbeat |-> Beat]

PlayerHooks ==
    [save_player |-> Save, player_start |-> Beat, create_creature |-> Beat,
     player_death |-> Pair, player_heartbeat |-> Beat, save_room |-> Save,
     room_heartbeat |-> Beat, show_room |-> Pair, save_zone |-> Save, http_request |-> Http]

Programs == [n \in DOMAIN WorldHooks \cup DOMAIN PlayerHooks |->
                IF n \in DOMAIN WorldHooks THEN WorldHooks[n] ELSE PlayerHooks[n]]

(* A call of a hook: what its function has still to do, the count and the  *)
(* handler for print of its Exec, its arguments; history: the stack it     *)
(* found and what its script returned.                                     *)
Calls == [todo : Seq(Steps), count : Nat, print : {Null, "client"},
          self : Address, other : Address \cup {Null},
          found : Seq(Kinds \X Nat), returned : Values]

ASSUME ScriptsAssumption ==
    /\ Writer \notin Entities
    /\ Called \subseteq DOMAIN Programs
    /\ Null \notin Nat \cup Address \cup Calls

-----------------------------------------------------------------------------
(* Objects.  getObject gives the userdata under an address, or nil.        *)
GetObject(a) == IF registry[a] = Null THEN Nil ELSE Userdata(registry[a])

CreateObject(a) ==
    /\ Len(pointer) < MaxData
    /\ pointer' = Append(pointer, a)
    /\ registry' = [registry EXCEPT ![a] = Len(pointer) + 1]

ReleaseObject(a) ==
    /\ pointer' = IF registry[a] = Null THEN pointer ELSE [pointer EXCEPT ![registry[a]] = Null]
    /\ registry' = [registry EXCEPT ![a] = Null]

(* Entity::Entity and Entity::~Entity.                                     *)
New(e) ==
    /\ call = Null /\ e \notin alive
    /\ alive' = alive \cup {e} /\ CreateObject(e)
    /\ UNCHANGED <<hooks, cache, stack, call, answer>>

Free(e) ==
    /\ call = Null /\ e \in alive
    /\ alive' = alive \ {e} /\ ReleaseObject(e)
    /\ UNCHANGED <<hooks, cache, stack, call, answer>>

-----------------------------------------------------------------------------
(* Calls of hooks.  An Exec counts what it has on the stack; without a     *)
(* function it counts nothing and none of its operations does anything.    *)
Drop(n) == SubSeq(stack, 1, Len(stack) - n)

ScriptsInit ==
    /\ alive = {} /\ registry = [a \in Address |-> Null] /\ pointer = <<>>
    /\ hooks = {} /\ cache = {} /\ stack = <<>>
    /\ call = Null /\ answer = FALSE

(* ExecHook::ExecHook: the hook's table goes from the stack again.         *)
Begin(name, self, other) ==
    /\ call = Null
    /\ call' = [todo |-> Programs[name], count |-> IF name \in hooks THEN 1 ELSE 0, print |-> Null,
                self |-> self, other |-> other, found |-> stack, returned |-> Nil]
    /\ stack' = IF name \in hooks THEN Append(stack, Lua("function")) ELSE stack
    /\ UNCHANGED <<alive, registry, pointer, hooks, cache, answer>>

At(op) == call # Null /\ Head(call.todo) = op
Done == call' = [call EXCEPT !.todo = Tail(@)]

(* Exec::param, of an object, and Exec::table.                             *)
Param(op, v) ==
    /\ At(op)
    /\ IF call.count = 0 THEN Done /\ UNCHANGED stack
       ELSE /\ stack' = Append(stack, v)
            /\ call' = [call EXCEPT !.todo = Tail(@), !.count = @ + 1]
    /\ UNCHANGED <<alive, registry, pointer, hooks, cache, answer>>

(* Exec::setTable with a value: it is pushed, and goes into the table      *)
(* below it, or stays.                                                     *)
SetTable ==
    /\ At("field")
    /\ IF call.count = 0 \/ stack[Len(stack)] = Lua("table") THEN Done /\ UNCHANGED stack
       ELSE /\ stack' = Append(stack, Lua("string"))
            /\ call' = [call EXCEPT !.todo = Tail(@), !.count = @ + 1]
    /\ UNCHANGED <<alive, registry, pointer, hooks, cache, answer>>

SetPrint ==
    /\ At("sink")
    /\ call' = [call EXCEPT !.todo = Tail(@), !.print = "client"]
    /\ UNCHANGED <<alive, registry, pointer, hooks, cache, stack, answer>>

CreateWriter ==
    /\ At("create") /\ Done /\ CreateObject(Writer) /\ alive' = alive \cup {Writer}
    /\ UNCHANGED <<hooks, cache, stack, answer>>

(* The writer goes when the function that called the hook returns.         *)
ReleaseWriter ==
    /\ At("release") /\ Done /\ ReleaseObject(Writer) /\ alive' = alive \ {Writer}
    /\ UNCHANGED <<hooks, cache, stack, answer>>

(* What a script may do: keep what it was given, for ever; set a hook;     *)
(* print, which fails without a handler; call a method of an object, which *)
(* always fails, the metatables having no __index; fail on its own; return.*)
SetsHook == hooks' \in {hooks} \cup {hooks \cup {n} : n \in Called}
Fails(does, handler) == does = "fail" \/ does = "method" \/ (does = "print" /\ handler = Null)

(* Faulty: the error stays on the stack.                                   *)
MutRun(v, does) ==
    /\ At("run")
    /\ IF call.count = 0 THEN Done /\ UNCHANGED <<hooks, stack>>
       ELSE /\ SetsHook
            /\ stack' = Append(Drop(call.count), IF Fails(does, call.print) THEN Lua("string") ELSE v)
            /\ call' = [call EXCEPT !.todo = Tail(@), !.count = IF Fails(does, call.print) THEN 0 ELSE 1,
                                    !.returned = IF Fails(does, call.print) THEN Nil ELSE v]
    /\ UNCHANGED <<alive, registry, pointer, cache, answer>>

(* Exec::run: the function and its parameters are replaced by one result,  *)
(* or by an error that is popped.                                          *)
Run(v, does) ==
    /\ At("run")
    /\ IF call.count = 0 THEN Done /\ UNCHANGED <<hooks, stack>>
       ELSE /\ SetsHook
            /\ IF Fails(does, call.print)
               THEN stack' = Drop(call.count) /\ call' = [call EXCEPT !.todo = Tail(@), !.count = 0]
               ELSE /\ stack' = Append(Drop(call.count), v)
                    /\ call' = [call EXCEPT !.todo = Tail(@), !.count = 1, !.returned = v]
    /\ UNCHANGED <<alive, registry, pointer, cache, answer>>

(* Exec::getBoolean of the top of the stack, and Exec::~Exec.              *)
Result ==
    /\ At("result")
    /\ answer' = (call.count # 0 /\ stack[Len(stack)] \notin {Nil, Lua("false")})
    /\ stack' = Drop(call.count) /\ call' = Null
    /\ UNCHANGED <<alive, registry, pointer, hooks, cache>>

-----------------------------------------------------------------------------
(* Lua::runfile, of init.lua: an error is popped.                          *)
RunFile ==
    /\ call = Null /\ SetsHook
    /\ UNCHANGED <<alive, registry, pointer, cache, stack, call, answer>>

(* macro::text.  The table of compiled macros is removed from the stack    *)
(* when the macro is compiled, not when it is found there.                 *)
ShowMacro(m, compiles) ==
    /\ call = Null /\ Len(stack) < MaxLeak
    /\ cache' = IF compiles THEN cache \cup {m} ELSE cache
    /\ stack' = IF m \in cache THEN Append(stack, Lua("table")) ELSE stack
    /\ UNCHANGED <<alive, registry, pointer, hooks, call, answer>>

ScriptsNext ==
    \/ \E e \in Entities : New(e) \/ Free(e)
    \/ \E n \in Called, s \in alive, o \in alive \cup {Null} : Begin(n, s, o)
    \/ call # Null /\ Param("self", GetObject(call.self))
    \/ call # Null /\ Param("other", IF call.other = Null THEN Nil ELSE GetObject(call.other))
    \/ Param("writer", GetObject(Writer)) \/ Param("table", Lua("table"))
    \/ SetTable \/ SetPrint \/ CreateWriter \/ ReleaseWriter
    \/ \E v \in Values, does \in {"quiet", "print", "method", "fail"} : Run(v, does)
    \/ Result
    \/ RunFile
    \/ \E m \in Macros, compiles \in BOOLEAN : ShowMacro(m, compiles)

ScriptsSpec == ScriptsInit /\ [][ScriptsNext]_scriptsVars

-----------------------------------------------------------------------------
(* Whatever a script keeps, and whenever the object behind it goes, the    *)
(* userdata holds the address of an object that is alive and is the only   *)
(* userdata to hold it, or holds nothing (object.cc:45-70): an address     *)
(* that is used again is never reached through an older userdata.          *)
PointersLive ==
    \A u \in Data : pointer[u] # Null => pointer[u] \in alive /\ registry[pointer[u]] = u

(* A hook leaves the stack as it found it and answers what its own script  *)
(* returned, no otherwise: whether the hook is set or not, fails or not,   *)
(* and with whatever macros have left below (exec.cc:106-132, 155-159).    *)
Tidied == call # Null /\ call' = Null =>
              stack' = call.found /\ answer' = (call.returned = Lua("true"))

(* Both, of every step: no script reaches what is gone, and a hook tidies  *)
(* up.                                                                     *)
ScriptsTidy == [][Tidied /\ PointersLive']_scriptsVars
=============================================================================
