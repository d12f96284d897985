------------------------------ MODULE MCLuaGC ------------------------------
(***************************************************************************)
(* Lua's garbage collector with three objects, and programs that mix two   *)
(* kinds of them: threads whose open upvalues closures share; userdata     *)
(* with finalizers and an environment; userdata and a string, each with a  *)
(* table that may be made weak and hold it.  The stack has one level: the  *)
(* globals, which are at hand as well, hold what is put into a table.      *)
(***************************************************************************)
EXTENDS LuaGC, TLC

Symmetry == Permutations(Obj)

FewMixes == {[closure |-> 2, thread |-> 1, width |-> 2],
             [udata |-> 1, table |-> 1, env |-> 1, width |-> 1],
             [udata |-> 1, table |-> 1, weak |-> 1, width |-> 2],
             [string |-> 1, table |-> 1, weak |-> 1, width |-> 2]}
=============================================================================
