------------------------------ MODULE LuaCalls ------------------------------
(***************************************************************************)
(* Calls in the embedded Lua (src/lib/lua51/ldo.cc): each thread keeps a   *)
(* list of call frames and a count of the C calls below it; the host's C   *)
(* stack holds the interpreter loops, C functions and protected calls of   *)
(* all running threads.  A Lua function called by a Lua function shares    *)
(* its caller's interpreter loop; anything else nests one on the C stack.  *)
(* Errors unwind the C stack to the last protected call of their thread;   *)
(* coroutines yield by returning through it.                               *)
(***************************************************************************)
EXTENDS Integers, Sequences, SequencesExt, FiniteSets

CONSTANTS Threads, M,  \* the coroutines and the main thread
          MaxCCalls,   \* LUAI_MAXCCALLS
          MaxErrCalls, \* ... and an eighth more, to handle that overflow
          MaxCalls,    \* LUAI_MAXCALLS
          BasicSize    \* BASIC_CI_SIZE

VARIABLES native,      \* the C stack: [op, th, n, ci, nC, ef]
          ci,          \* th -> its frames above base_ci, "lua" or "c"
          size,        \* th -> size_ci
          nC, baseC,   \* th -> nCcalls, baseCcalls
          status,      \* th -> "none", "initial", "ok", "yield", "dead"
          errfunc      \* th -> the frame that holds the error handler, 0 for none

vars == <<native, ci, size, nC, baseC, status, errfunc>>

Kinds == {"lua", "c"}
Record(op, th) == [op |-> op, th |-> th, n |-> 0, ci |-> 0, nC |-> 0, ef |-> 0]

(* The state as a record, which the operators below change step by step.   *)
Now == [native |-> native, ci |-> ci, size |-> size, nC |-> nC, baseC |-> baseC,
        status |-> status, errfunc |-> errfunc]
Become(s) ==
    /\ native' = s.native /\ ci' = s.ci /\ size' = s.size /\ nC' = s.nC
    /\ baseC' = s.baseC /\ status' = s.status /\ errfunc' = s.errfunc

Push(s, r) == [s EXCEPT !.native = Append(@, r)]
Pop(s) == [s EXCEPT !.native = Front(@)]
Running == Last(native).th
Top(op) == native # <<>> /\ Last(native).op = op

(* luaD_throw and what rawrunprotected's callers do with the status: a     *)
(* protected call restores frames, counter, handler (restore_stack_limit   *)
(* also the size); a coroutine dies with its frames in place.              *)
Throw(s, th) ==
    LET catch == SelectLastInSeq(s.native, LAMBDA r : r.th = th /\ r.op \in {"pcall", "resume"})
        r == s.native[catch]
        below == [s EXCEPT !.native = SubSeq(@, 1, catch - 1)]
    IN  IF r.op = "pcall"
        THEN [below EXCEPT !.nC[th] = r.nC, !.errfunc[th] = r.ef,
                           !.ci[th] = SubSeq(@, 1, r.ci),
                           !.size[th] = IF @ > MaxCalls /\ r.ci + 1 < MaxCalls
                                        THEN MaxCalls ELSE @]
        ELSE [below EXCEPT !.nC[th] = @ - 1, !.status[th] = "dead"]

(* inc_ci and growCI: the list of frames doubles, past MaxCalls with an    *)
(* error; then there is room for the handler only.                         *)
Full(s, th) == Len(s.ci[th]) + 1 = s.size[th]
Grown(s, th) == [s EXCEPT !.size[th] = 2 * @]

(* luaD_precall, when there is room for the frame.                         *)
Entered(s, th, kind) ==
    LET framed == [s EXCEPT !.ci[th] = Append(@, kind)]
    IN  IF kind = "c" THEN Push(framed, Record("c", th))
        ELSE IF Last(s.native).op = "execute" THEN [framed EXCEPT !.native[Len(s.native)].n = @ + 1]
        ELSE Push(framed, [Record("execute", th) EXCEPT !.n = 1])

(* luaG_errormsg: the handler is called, with luaD_call, and what it       *)
(* returns is thrown.  An error in calling it calls it again, till a limit *)
(* is passed: then "error in error handling" is thrown.                    *)
RECURSIVE RunError(_, _)
RunError(s, th) ==
    LET called == [Push(Push(s, Record("errmsg", th)), Record("call", th)) EXCEPT !.nC[th] = @ + 1]
        grown == Grown(called, th)
    IN  IF s.errfunc[th] = 0 THEN Throw(s, th)
        ELSE IF called.nC[th] = MaxCCalls THEN RunError(called, th)
        ELSE IF called.nC[th] >= MaxErrCalls THEN Throw(called, th)
        ELSE IF ~Full(s, th) THEN Entered(called, th, "lua")
        ELSE IF s.size[th] > MaxCalls THEN Throw(called, th)
        ELSE IF grown.size[th] > MaxCalls THEN RunError(grown, th)
        ELSE Entered(grown, th, "lua")

Precall(s, th, kind) ==
    LET grown == Grown(s, th)
    IN  IF ~Full(s, th) THEN Entered(s, th, kind)
        ELSE IF s.size[th] > MaxCalls THEN Throw(s, th)
        ELSE IF grown.size[th] > MaxCalls THEN RunError(grown, th)
        ELSE Entered(grown, th, kind)

(* luaD_call                                                               *)
Call(s, th, kind) ==
    LET called == [Push(s, Record("call", th)) EXCEPT !.nC[th] = @ + 1]
    IN  IF called.nC[th] = MaxCCalls THEN RunError(called, th)
        ELSE IF called.nC[th] >= MaxErrCalls THEN Throw(called, th)
        ELSE Precall(called, th, kind)

(* lua_pcall, luaD_pcall: the handler lies in the caller's frame.          *)
ProtectedCall(s, th, kind, ef) ==
    Call(Push([s EXCEPT !.errfunc[th] = ef],
              [Record("pcall", th) EXCEPT !.ci = Len(s.ci[th]), !.nC = s.nC[th],
                                          !.ef = s.errfunc[th]]), th, kind)

-----------------------------------------------------------------------------
Init ==
    /\ native = <<>>
    /\ ci = [th \in Threads |-> <<>>]
    /\ size = [th \in Threads |-> BasicSize]
    /\ nC = [th \in Threads |-> 0]
    /\ baseC = [th \in Threads |-> 0]
    /\ status = [th \in Threads |-> IF th = M THEN "ok" ELSE "none"]
    /\ errfunc = [th \in Threads |-> 0]

(* The server runs a script on the main thread (Lua::exec).                *)
Enter ==
    /\ native = <<>>
    /\ Become(ProtectedCall(Now, M, "lua", 0))

(* OP_CALL                                                                 *)
CallFunction(kind) ==
    /\ Top("execute")
    /\ Become(Precall(Now, Running, kind))

(* An operator or an access calls a metamethod; a C function calls back.   *)
CallBack(kind) ==
    /\ Top("execute") \/ Top("c")
    /\ Become(Call(Now, Running, kind))

(* OP_RETURN, luaD_poscall: the loop ends with the last of its functions.  *)
ReturnLua ==
    /\ Top("execute")
    /\ LET back == [Now EXCEPT !.ci[Running] = Front(@), !.native[Len(native)].n = @ - 1]
       IN  Become(IF Last(back.native).n = 0 THEN Pop(back) ELSE back)

ReturnC ==
    /\ Top("c")
    /\ Become(Pop([Now EXCEPT !.ci[Running] = Front(@)]))

(* pcall and xpcall                                                        *)
PCall(kind, handled) ==
    /\ Top("c")
    /\ Become(ProtectedCall(Now, Running, kind, IF handled THEN Len(ci[Running]) ELSE 0))

(* error, or a failing operation; a handler that is no function makes it   *)
(* an error in error handling.                                             *)
Fail ==
    /\ Top("execute") \/ Top("c")
    /\ \/ Become(RunError(Now, Running))
       \/ errfunc[Running] # 0 /\ Become(Throw(Now, Running))

(* coroutine.create                                                        *)
Create(co) ==
    /\ Top("c")
    /\ status[co] = "none"
    /\ Become([Now EXCEPT !.status[co] = "initial"])

(* coroutine.resume: auxresume takes over the caller's level, lua_resume   *)
(* runs the thread.  Refused for lack of C stack, a new thread is left     *)
(* without its function; one that has yielded can be resumed later.        *)
Levelled(s, from, co) == [s EXCEPT !.nC[co] = s.nC[from]]
Resumed(s, co) ==
    LET based == Push([s EXCEPT !.nC[co] = @ + 1, !.baseC[co] = s.nC[co] + 1,
                                !.status[co] = "ok"], Record("resume", co))
        back == [based EXCEPT !.ci[co] = Front(@)]
    IN  IF s.nC[co] >= MaxCCalls
        THEN [s EXCEPT !.status[co] = IF @ = "initial" THEN "dead" ELSE @]
        ELSE IF s.status[co] = "initial" THEN Precall(based, co, "lua")
        ELSE Push(back, [Record("execute", co) EXCEPT !.n = Len(back.ci[co])])
Resume(co) ==
    /\ Top("c")
    /\ status[co] \in {"initial", "yield"}
    /\ Become(Resumed(Levelled(Now, Running, co), co))

(* coroutine.yield                                                         *)
(* Faulty: the C functions between a thread and its resume are forgotten.  *)
MutOutside(th) == FALSE
Outside(th) == nC[th] > baseC[th]
Yield ==
    /\ Top("c")
    /\ IF Outside(Running) THEN Become(RunError(Now, Running))
       ELSE Become([Now EXCEPT !.native = SubSeq(@, 1, Len(@) - 2), !.status[Running] = "yield"])

(* What follows in the C function below when a call has ended: luaD_call,  *)
(* luaD_pcall without an error, luaG_errormsg, lua_resume.                 *)
FinishCall ==
    /\ Top("call")
    /\ Become(Pop([Now EXCEPT !.nC[Running] = @ - 1]))

FinishPCall ==
    /\ Top("pcall")
    /\ Become(Pop([Now EXCEPT !.errfunc[Running] = Last(native).ef]))

FinishErr ==
    /\ Top("errmsg")
    /\ Become(Throw(Now, Running))

FinishResume ==
    /\ Top("resume")
    /\ Become(Pop([Now EXCEPT !.nC[Running] = @ - 1,
                              !.status[Running] = IF @ = "ok" THEN "dead" ELSE @]))

Next ==
    \/ Enter \/ ReturnLua \/ ReturnC \/ Fail \/ Yield
    \/ FinishCall \/ FinishPCall \/ FinishErr \/ FinishResume
    \/ \E kind \in Kinds : CallFunction(kind) \/ CallBack(kind) \/ PCall(kind, TRUE) \/ PCall(kind, FALSE)
    \/ \E co \in Threads : Create(co) \/ Resume(co)

Spec == Init /\ [][Next]_vars

-----------------------------------------------------------------------------
Records(ops) == {i \in DOMAIN native : native[i].op \in ops}
Of(th, ops) == {i \in Records(ops) : native[i].th = th}
RECURSIVE Loops(_)
Loops(S) == IF S = {} THEN 0
            ELSE LET i == CHOOSE i \in S : TRUE IN native[i].n + Loops(S \ {i})
Frames(th, kind) == Cardinality({i \in DOMAIN ci[th] : ci[th][i] = kind})

(* The two stacks tell the same story: a thread that is on the C stack has *)
(* a Lua frame for every function its interpreter loops count and a C      *)
(* frame for every C function; one that has yielded is on it nowhere, and  *)
(* only the function that yielded is not Lua's.  The running thread's C    *)
(* call counter is the number of nested calls and resumes, so that it      *)
(* bounds the C stack; an error handler lies in a C frame that is there.   *)
StacksAgree ==
    /\ \A th \in Threads :
          /\ Of(th, {"execute", "c"}) # {} =>
                /\ Frames(th, "lua") = Loops(Of(th, {"execute"}))
                /\ Frames(th, "c") = Cardinality(Of(th, {"c"}))
          /\ status[th] = "yield" /\ Of(th, {"resume"}) = {} =>
                /\ Last(ci[th]) = "c" /\ Frames(th, "c") = 1
                /\ errfunc[th] = 0
          /\ errfunc[th] # 0 => errfunc[th] \in DOMAIN ci[th] /\ ci[th][errfunc[th]] = "c"
    /\ native # <<>> => nC[Running] = Cardinality(Records({"call", "resume"}))
    /\ native = <<>> => ci[M] = <<>> /\ nC[M] = 0

=============================================================================
