------------------------------ MODULE LuaTable ------------------------------
(***************************************************************************)
(* The tables of the embedded Lua (src/lib/lua51/ltable.cc): an array and  *)
(* a hash part whose nodes are chained in place, by Brent's variation; a   *)
(* pointer from above which no node is free; the rehash that chooses the   *)
(* sizes of both parts; the traversal with next, during which a collection *)
(* may kill keys (lgc.cc); the search for a border.  Keys are integers and *)
(* strings; a node is <<index>> of the sequence, 0 for none.               *)
(***************************************************************************)
EXTENDS Integers, Sequences, SequencesExt, FiniteSets

CONSTANTS Ints, Strings, Values, Nil, Off, Failed,
          Hashes,      \* the hash functions, [Ints \cup Strings -> Nat]
          NewSizes,    \* <<narray, nhash>> a table is made with
          MaxArray

VARIABLES hash,
          table,       \* [arr, node, free]: node: [key, val, next, dead]
          content,     \* what the program has put into the table
          cursor,      \* the key next was last called with, Off if not traversing
          trail,       \* the keys this traversal has returned, Failed for one too many
          steady       \* the keys that have been there since it began

vars == <<hash, table, content, cursor, trail, steady>>

Keys == Ints \cup Strings
Node(k, v, n) == [key |-> k, val |-> v, next |-> n, dead |-> FALSE]
IsInt(k) == k \notin Strings

(* mainposition: hashmod for numbers, hashpow2 for strings.                *)
MainPosition(t, k) ==
    LET size == Len(t.node)
        h == IF k \in Keys THEN hash[k] ELSE 0
    IN  1 + (IF IsInt(k) /\ size > 1 THEN h % (size - 1) ELSE IF IsInt(k) THEN 0 ELSE h % size)

RECURSIVE Chain(_, _)
Chain(t, i) == IF i = 0 THEN <<>> ELSE <<i>> \o Chain(t, t.node[i].next)

(* The first node of a key's chain that passes a test, 0 if none does.     *)
FirstNode(t, k, Test(_)) ==
    LET found == SelectSeq(Chain(t, MainPosition(t, k)), LAMBDA i : Test(t.node[i]))
    IN  IF t.node = <<>> \/ found = <<>> THEN 0 ELSE found[1]

(* luaH_get, luaH_getnum, luaH_getstr: the node of a key, 0 if none.       *)
NodeOf(t, k) == FirstNode(t, k, LAMBDA node : node.key = k /\ ~node.dead)
InArray(t, k) == IsInt(k) /\ k \in DOMAIN t.arr
Get(t, k) == IF InArray(t, k) THEN t.arr[k]
             ELSE IF NodeOf(t, k) = 0 THEN Nil ELSE t.node[NodeOf(t, k)].val

(* getfreepos: 0 if there is no node whose key was never used.             *)
GetFreePos(t) ==
    LET free == {i \in 1 .. t.free : t.node[i].key = Nil}
    IN  IF free = {} THEN 0 ELSE CHOOSE i \in free : \A j \in free : j <= i

(* setnodevector                                                           *)
Twoto(n) == CHOOSE s \in {0, 1, 2, 4, 8, 16} : s >= n /\ (n = 0 \/ s < 2 * n)
NodeVector(n) == [i \in 1 .. Twoto(n) |-> Node(Nil, Nil, 0)]

(* Faulty: the chain the colliding node is in keeps leading to its place.  *)
MutMoved(t, mp, n, k, v) ==
    [t EXCEPT !.node = [@ EXCEPT ![n] = t.node[mp], ![mp] = Node(k, v, 0)],
              !.free = n - 1]

(* newkey, with a colliding node that is not in its main position.         *)
Moved(t, mp, n, k, v) ==
    LET prev == FirstNode(t, t.node[mp].key, LAMBDA node : node.next = mp)
    IN  [t EXCEPT !.node = [@ EXCEPT ![prev].next = n, ![n] = t.node[mp],
                                     ![mp] = Node(k, v, 0)],
                  !.free = n - 1]

(* newkey, with one that is.                                               *)
Chained(t, mp, n, k, v) ==
    [t EXCEPT !.node = [@ EXCEPT ![mp].next = n, ![n] = Node(k, v, t.node[mp].next)],
              !.free = n - 1]

(* computesizes: the largest power of two more than half of which is used. *)
ArraySize(used) ==
    LET half(n) == 2 * Cardinality({i \in used : i <= n}) > n
    IN  CHOOSE n \in {0, 1, 2, 4, 8} : (n = 0 \/ half(n)) /\ \A m \in {1, 2, 4, 8} : half(m) => m <= n

RECURSIVE Put(_, _, _), Resize(_, _, _)

(* rehash, for one more key.                                               *)
Rehash(t, k) ==
    LET present == {i \in DOMAIN t.arr : t.arr[i] # Nil}
                   \cup {t.node[i].key : i \in {j \in DOMAIN t.node : t.node[j].val # Nil}} \cup {k}
        n == ArraySize(present \cap Ints)
    IN  Resize(t, n, Cardinality({p \in present : ~(IsInt(p) /\ p <= n)}))

(* resize: the part of the array that vanishes is put in again, then the   *)
(* nodes from the last to the first.                                       *)
Resize(t, nasize, nhsize) ==
    LET old == Len(t.arr)
        bare == [arr |-> [i \in 1 .. nasize |-> IF i <= old THEN t.arr[i] ELSE Nil],
                 node |-> NodeVector(nhsize), free |-> Twoto(nhsize)]
        slice == SelectSeq([i \in 1 .. old |-> <<i, t.arr[i]>>], LAMBDA e : e[1] > nasize /\ e[2] # Nil)
        nodes == SelectSeq(Reverse([i \in DOMAIN t.node |-> <<t.node[i].key, t.node[i].val>>]),
                           LAMBDA e : e[2] # Nil)
    IN  FoldLeft(LAMBDA s, e : Put(s, e[1], e[2]), bare, slice \o nodes)

(* luaH_set, luaH_setnum, luaH_setstr, and the assignment to what they     *)
(* return; a key that is not there is made even to hold nil.               *)
Put(t, k, v) ==
    IF InArray(t, k) THEN [t EXCEPT !.arr[k] = v]
    ELSE IF NodeOf(t, k) # 0 THEN [t EXCEPT !.node[NodeOf(t, k)].val = v]
    ELSE LET mp == MainPosition(t, k)
             n == GetFreePos(t)
         IN  IF t.node # <<>> /\ t.node[mp].val = Nil THEN [t EXCEPT !.node[mp] = Node(k, v, @.next)]
             ELSE IF n = 0 THEN Put(Rehash(t, k), k, v)
             ELSE IF MainPosition(t, t.node[mp].key) # mp THEN Moved(t, mp, n, k, v)
             ELSE Chained(t, mp, n, k, v)

-----------------------------------------------------------------------------
(* luaH_new                                                                *)
Init ==
    /\ hash \in Hashes
    /\ \E s \in NewSizes : table = [arr |-> [i \in 1 .. s[1] |-> Nil], node |-> NodeVector(s[2]),
                                    free |-> Twoto(s[2])]
    /\ content = [k \in Keys |-> Nil]
    /\ cursor = Off /\ trail = {} /\ steady = {}

(* While a traversal goes on only fields that are there are assigned to.   *)
Set(k, v) ==
    /\ cursor # Off => content[k] # Nil
    /\ table' = Put(table, k, v) /\ content' = [content EXCEPT ![k] = v]
    /\ steady' = IF cursor = Off THEN {} ELSE IF v = Nil THEN steady \ {k} ELSE steady
    /\ trail' = IF cursor = Off THEN {} ELSE trail
    /\ UNCHANGED <<hash, cursor>>

(* luaH_resizearray, for a constructor.                                    *)
ResizeArray(n) ==
    /\ cursor = Off /\ n > Len(table.arr) /\ table' = Resize(table, n, Len(table.node))
    /\ UNCHANGED <<hash, content, cursor, trail, steady>>

(* removeentry, in a collection.                                           *)
Collect ==
    /\ table' = [table EXCEPT !.node = [i \in DOMAIN @ |->
                   IF @[i].val = Nil /\ @[i].key \in Strings THEN [@[i] EXCEPT !.dead = TRUE] ELSE @[i]]]
    /\ table' # table
    /\ UNCHANGED <<hash, content, cursor, trail, steady>>

Begin ==
    /\ cursor = Off /\ cursor' = Nil /\ trail' = {}
    /\ steady' = {k \in Keys : content[k] # Nil}
    /\ UNCHANGED <<hash, table, content>>

Same(node, k) == node.key = k

(* findindex and luaH_next; Failed is the error.                           *)
FindIndex(k) ==
    IF k = Nil THEN 0 ELSE IF InArray(table, k) THEN k
    ELSE LET i == FirstNode(table, k, LAMBDA node : Same(node, k))
         IN  IF i = 0 THEN -1 ELSE Len(table.arr) + i
ElementAt(i) == IF i <= Len(table.arr) THEN <<i, table.arr[i]>>
                ELSE LET n == table.node[i - Len(table.arr)] IN <<n.key, n.val>>
NextKey(k) ==
    LET last == Len(table.arr) + Len(table.node)
        after == {i \in FindIndex(k) + 1 .. last : ElementAt(i)[2] # Nil}
    IN  IF FindIndex(k) < 0 THEN Failed
        ELSE IF after = {} THEN Off ELSE ElementAt(CHOOSE i \in after : \A j \in after : i <= j)[1]

Step ==
    /\ cursor \notin {Off, Failed}
    /\ cursor' = NextKey(cursor)
    /\ trail' = CASE cursor' = Off -> trail
                   [] cursor' \in trail -> trail \cup {Failed}
                   [] OTHER -> trail \cup {cursor'}
    /\ UNCHANGED <<hash, table, content, steady>>

Next ==
    \/ \E k \in Keys, v \in Values \cup {Nil} : Set(k, v)
    \/ \E n \in 1 .. MaxArray : ResizeArray(n)
    \/ Collect \/ Begin \/ Step

-----------------------------------------------------------------------------
(* unbound_search and luaH_getn.                                           *)
RECURSIVE Between(_, _), Unbound(_, _)
Between(i, j) == IF j - i <= 1 THEN i
                 ELSE LET m == (i + j) \div 2
                      IN  IF Get(table, m) = Nil THEN Between(i, m) ELSE Between(m, j)
Unbound(i, j) == IF Get(table, j) = Nil THEN Between(i, j) ELSE Unbound(j, 2 * j)
GetN ==
    LET j == Len(table.arr)
    IN  IF j > 0 /\ table.arr[j] = Nil THEN Between(0, j)
        ELSE IF table.node = <<>> THEN j ELSE Unbound(j, j + 1)

(* Whatever collides, moves and is rehashed, each key holds what was last  *)
(* put under it, and the length is a border: an index that holds something *)
(* and whose successor does not (ltable.cc:297-349, 399-429, 532-576).     *)
MapRight ==
    /\ \A k \in Keys : Get(table, k) = content[k]
    /\ GetN > 0 => Get(table, GetN) # Nil
    /\ Get(table, GetN + 1) = Nil

(* A traversal during which fields are changed or cleared, and keys die,   *)
(* never fails, returns no key twice, and at its end has returned every    *)
(* key that was there throughout (ltable.cc:137-179, lgc.cc:62-66).        *)
NextRight ==
    /\ Failed \notin trail
    /\ cursor = Off => steady \subseteq trail
=============================================================================
