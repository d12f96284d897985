--------------------------- MODULE ActionsProofs ---------------------------
(***************************************************************************)
(* Proofs about Actions for any creatures, rooms, portals and purses, and  *)
(* queues of any length: however the actions of many creatures are mixed,  *)
(* each creature is in one room, walks through open portals only, and      *)
(* coins are neither made nor lost but where a purse is full.              *)
(***************************************************************************)
EXTENDS Actions, SequenceTheorems, TLAPS

(* A creature in the world is in a room.                                   *)
InSomeRoom == \A c \in Active : location[c] \in Rooms

(* The inductive invariant.                                                *)
IInv == TypeOK /\ InSomeRoom /\ InOneRoom

(* What the action a command queues is about.                              *)
LEMMA AnyActionFits ==
    ASSUME NEW a \in AnyAction
    PROVE  /\ a.do = "give" => a.on \in Creatures /\ a.n \in Amounts
           /\ a.do # "give" => a.on \in Portals
  BY DEF AnyAction, DoorActions, GoActions, GiveActions, Action

LEMMA OfferedIsAction ==
    ASSUME NEW c, NEW a \in Offered(c) PROVE a \in AnyAction
  BY DEF Offered, MoveOffered, DoorOffered, KickOffered, GiveOffered, AnyAction

(* A start moves coins from one purse to another or moves none.            *)
Moved(x, y, n) ==
    /\ \A z \in Purses \ {x, y} : coins'[z] = coins[z]
    /\ n <= coins[y] /\ coins[y] - n <= coins'[y]
    /\ coins'[x] + coins'[y] <= coins[x] + coins[y]
    /\ coins'[x] + coins'[y] < coins[x] + coins[y] => coins[x] + n > MaxCoins

CoinsMoved == coins' = coins \/ \E x, y \in Purses, n \in 1 .. MaxCoins : Moved(x, y, n)

StartTyped ==
    /\ closed' \subseteq Doors /\ locked' \subseteq Doors /\ fault' \in BOOLEAN
    /\ coins' \in [Creatures \cup Rooms -> 0 .. MaxCoins]

LEMMA StartKeeps ==
    ASSUME TypeOK, NEW c \in Creatures, NEW a \in AnyAction, NEW here,
           Accepts(c, a, here), Start(c, a)
    PROVE  StartTyped /\ CoinsMoved
<1>1. /\ a.do = "give" => a.on \in Creatures /\ a.n \in Amounts
      /\ a.do # "give" => a.on \in Portals
  BY AnyActionFits
<1>2. closed' \subseteq Doors /\ locked' \subseteq Doors
  BY DEF Start, Accepts, TypeOK
<1>3. fault' \in BOOLEAN
  BY DEF Start, TypeOK
<1>4. CASE a.do = "give" /\ life[a.on] # "free"
  <2> DEFINE t == a.on
             n == a.n
  <2>1. /\ t \in Creatures /\ n \in 1 .. MaxCoins /\ n <= coins[c]
        /\ coins[c] \in 0 .. MaxCoins /\ coins[t] \in 0 .. MaxCoins
        /\ MaxCoins \in Nat
    BY <1>1, <1>4, ActionsAssumption DEF Accepts, TypeOK
  <2>2. coins' = [[coins EXCEPT ![t] = Lesser(@ + n, MaxCoins)] EXCEPT ![c] = @ - Lesser(n, @)]
    BY <1>4 DEF Start, GiveCoins
  <2>3. Lesser(coins[t] + n, MaxCoins) \in n .. MaxCoins
    BY <2>1 DEF Lesser
  <2>4. CASE t = c
    <3>1. /\ \A z \in Purses \ {c} : coins'[z] = coins[z]
          /\ coins'[c] = Lesser(coins[c] + n, MaxCoins) - n
      BY <2>1, <2>2, <2>3, <2>4 DEF TypeOK, Purses, Lesser
    <3>2. Moved(c, c, n)
      BY <2>1, <3>1 DEF Moved, Lesser
    <3>3. coins' \in [Creatures \cup Rooms -> 0 .. MaxCoins]
      BY <2>1, <2>2, <2>3, <2>4, <3>1 DEF TypeOK, Lesser
    <3> QED BY <1>2, <1>3, <2>1, <3>2, <3>3 DEF StartTyped, CoinsMoved, Purses
  <2>5. CASE t # c
    <3>1. /\ \A z \in Purses \ {t, c} : coins'[z] = coins[z]
          /\ coins'[t] = Lesser(coins[t] + n, MaxCoins)
          /\ coins'[c] = coins[c] - n
      BY <2>1, <2>2, <2>5 DEF TypeOK, Purses, Lesser
    <3>2. Moved(t, c, n)
      BY <2>1, <3>1 DEF Moved, Lesser
    <3>3. coins'[t] \in 0 .. MaxCoins /\ coins'[c] \in 0 .. MaxCoins
      BY <2>1, <2>3, <3>1
    <3>4. coins' \in [Creatures \cup Rooms -> 0 .. MaxCoins]
      BY <2>1, <2>2, <3>1, <3>3 DEF TypeOK, Purses
    <3> QED BY <1>2, <1>3, <2>1, <3>2, <3>4 DEF StartTyped, CoinsMoved, Purses
  <2> QED BY <2>4, <2>5
<1>5. CASE ~(a.do = "give" /\ life[a.on] # "free")
  BY <1>2, <1>3, <1>5 DEF Start, TypeOK, StartTyped, CoinsMoved
<1> QED BY <1>4, <1>5

(* Promoting leaves a queue of actions, and starts one action at most.     *)
LEMMA PromoteKeeps ==
    ASSUME TypeOK, NEW c \in Creatures, NEW q \in Seq(AnyAction), NEW here,
           Promote(c, q, here)
    PROVE  /\ actions' \in [Creatures -> Seq(AnyAction)]
           /\ StartTyped /\ CoinsMoved
<1>1. CASE /\ actions' = [actions EXCEPT ![c] = <<>>]
           /\ UNCHANGED <<doors, coins, fault>>
  BY <1>1 DEF TypeOK, StartTyped, CoinsMoved, doors
<1>2. ASSUME NEW i \in 1 .. Len(q), Accepts(c, q[i], here),
             actions' = [actions EXCEPT ![c] = SubSeq(q, i, Len(q))], Start(c, q[i])
      PROVE  actions' \in [Creatures -> Seq(AnyAction)] /\ StartTyped /\ CoinsMoved
  <2>1. q[i] \in AnyAction
    BY ElementOfSeq
  <2>2. SubSeq(q, i, Len(q)) \in Seq(AnyAction)
    BY SubSeqProperties, LenProperties
  <2> QED BY <1>2, <2>1, <2>2, StartKeeps DEF TypeOK
<1> QED BY <1>1, <1>2 DEF Promote

-----------------------------------------------------------------------------
(* Every step keeps the types, keeps each creature in one room and moves   *)
(* coins rather than making them; a creature is moved by a passage only.   *)
LEMMA WorldStep == IInv /\ [Next]_vars => IInv' /\ DoorsHold /\ CoinsStay
<1> SUFFICES ASSUME IInv, [Next]_vars PROVE IInv' /\ DoorsHold /\ CoinsStay
  OBVIOUS
<1>0. /\ TypeOK /\ InSomeRoom /\ InOneRoom /\ Null \notin Rooms
      /\ MaxCoins \in Nat \ {0} /\ Amounts \subseteq 1 .. MaxCoins
      /\ \A p \in Portals : Parent[p] \in Rooms /\ Target[p] \in Rooms
  BY ActionsAssumption DEF IInv
<1>c. CoinsMoved => CoinsStay
  BY DEF CoinsMoved, Moved, CoinsStay
<1>1. ASSUME NEW c \in Creatures, NEW r \in Rooms, NEW n \in Amounts, Arrive(c, r, n)
      PROVE  IInv' /\ DoorsHold /\ CoinsStay
  <2>1. TypeOK'
    BY <1>0, <1>1 DEF Arrive, TypeOK, doors, queue
  <2>2. life[c] = "free" /\ Active' = Active \cup {c} /\ c \notin Active
    BY <1>0, <1>1 DEF Arrive, Active, TypeOK
  <2>3. InSomeRoom' /\ InOneRoom'
    BY <1>0, <1>1, <2>2 DEF Arrive, InSomeRoom, InOneRoom, TypeOK, Active
  <2>4. DoorsHold
    BY <1>0, <1>1, <2>2 DEF Arrive, DoorsHold, TypeOK
  <2>5. life' # life
    BY <1>0, <1>1, <2>2 DEF Arrive, TypeOK
  <2> QED BY <2>1, <2>3, <2>4, <2>5 DEF IInv, CoinsStay
<1>2. ASSUME NEW c \in Creatures, Leave(c) PROVE IInv' /\ DoorsHold /\ CoinsStay
  <2>1. c \in Active /\ location[c] \in Rooms /\ Active' = Active \ {c}
    BY <1>0, <1>2 DEF Leave, Active, InSomeRoom, TypeOK
  <2>2. TypeOK'
    BY <1>0, <1>2, <2>1 DEF Leave, TypeOK, doors
  <2>3. InSomeRoom' /\ InOneRoom'
    BY <1>0, <1>2, <2>1 DEF Leave, InSomeRoom, InOneRoom, TypeOK, Active
  <2> QED BY <1>2, <2>2, <2>3 DEF IInv, DoorsHold, CoinsStay, Leave
<1>3. ASSUME NEW c \in Creatures, Collect(c) PROVE IInv' /\ DoorsHold /\ CoinsStay
  <2>1. c \notin Active /\ Active' = Active
    BY <1>0, <1>3 DEF Collect, Active, TypeOK
  <2>2. TypeOK'
    BY <1>0, <1>3 DEF Collect, TypeOK, doors, queue
  <2>3. InSomeRoom' /\ InOneRoom' /\ DoorsHold
    BY <1>0, <1>3, <2>1 DEF Collect, InSomeRoom, InOneRoom, DoorsHold, TypeOK
  <2>4. life' # life
    BY <1>0, <1>3 DEF Collect, TypeOK
  <2> QED BY <2>2, <2>3, <2>4 DEF IInv, CoinsStay
<1>4. ASSUME NEW c \in Creatures, Heartbeat(c) PROVE IInv' /\ DoorsHold /\ CoinsStay
  <2> DEFINE a == Head(actions[c])
             r == Arrival(c, a)
  <2>1. /\ c \in Active /\ location[c] \in Rooms /\ life' = life /\ Active' = Active
        /\ actions[c] \in Seq(AnyAction) /\ actions[c] # <<>>
    BY <1>0, <1>4 DEF Heartbeat, Active, InSomeRoom, TypeOK
  <2>2. a \in AnyAction /\ Rest(c) \in Seq(AnyAction)
    BY <2>1, HeadTailProperties DEF Rest
  <2>3. /\ r \in Rooms
        /\ r # location[c] => a.do = "go" /\ a.on \notin closed
    <3>1. a.do # "give" => a.on \in Portals
      BY <2>2, AnyActionFits
    <3> QED BY <1>0, <2>1, <3>1 DEF Arrival, RelativeTarget
  <2>4. round_time' \in [Creatures -> Nat]
    BY <1>0, <1>4 DEF Heartbeat, RoundAfter, TypeOK
  <2>5. CASE Enter(c, r) /\ Promote(c, Rest(c), r)
    <3>1. /\ actions' \in [Creatures -> Seq(AnyAction)]
          /\ StartTyped /\ CoinsMoved
      BY <1>0, <2>2, <2>5, PromoteKeeps
    <3>2. /\ location' \in [Creatures -> Rooms \cup {Null}]
          /\ creatures' \in [Rooms -> SUBSET Creatures]
          /\ \A d \in Creatures : location'[d] = IF d = c THEN r ELSE location[d]
      BY <1>0, <2>3, <2>5 DEF Enter, TypeOK
    <3>3. TypeOK'
      BY <1>0, <2>1, <2>4, <3>1, <3>2 DEF TypeOK, StartTyped
    <3>4. InSomeRoom' /\ DoorsHold
      BY <1>0, <2>1, <2>3, <3>2 DEF InSomeRoom, DoorsHold, Active
    <3>5. InOneRoom'
      BY <1>0, <2>1, <2>3, <2>5, <3>2 DEF Enter, InOneRoom, Active
    <3> QED BY <1>c, <3>1, <3>3, <3>4, <3>5 DEF IInv
  <2>6. CASE UNCHANGED <<where, actions, doors, coins, fault>>
    BY <1>0, <2>1, <2>4, <2>6
       DEF where, doors, IInv, TypeOK, InSomeRoom, InOneRoom, DoorsHold, CoinsStay
  <2> QED BY <1>4, <2>5, <2>6 DEF Heartbeat
<1>5. ASSUME NEW c \in Creatures, GetCoins(c) PROVE IInv' /\ DoorsHold /\ CoinsStay
  <2> DEFINE r == location[c]
             n == coins[r]
  <2>1. /\ c \in Active /\ r \in Rooms /\ c # r /\ n \in 1 .. MaxCoins
        /\ coins[c] \in 0 .. MaxCoins
        /\ coins' = [coins EXCEPT ![c] = Lesser(@ + n, MaxCoins), ![r] = 0]
    BY <1>0, <1>5, ActionsAssumption DEF GetCoins, Active, InSomeRoom, TypeOK
  <2>2. /\ \A z \in Purses \ {c, r} : coins'[z] = coins[z]
        /\ coins'[c] = Lesser(coins[c] + n, MaxCoins) /\ coins'[r] = 0
    BY <1>0, <2>1 DEF TypeOK, Purses
  <2>3. Moved(c, r, n)
    <3> HIDE DEF n
    <3>1. n = coins[r] /\ n \in Nat /\ coins[c] \in Nat /\ MaxCoins \in Nat
      BY <1>0, <2>1 DEF n
    <3> QED BY <2>2, <3>1 DEF Moved, Lesser
  <2>4. coins'[c] \in 0 .. MaxCoins /\ coins'[r] \in 0 .. MaxCoins
    BY <1>0, <2>1, <2>2 DEF Lesser
  <2>5. coins' \in [Creatures \cup Rooms -> 0 .. MaxCoins]
    BY <1>0, <2>1, <2>2, <2>4 DEF TypeOK, Purses
  <2>6. CoinsMoved
    BY <2>1, <2>3 DEF CoinsMoved, Purses
  <2> QED BY <1>0, <1>c, <1>5, <2>5, <2>6
          DEF GetCoins, where, doors, queue, IInv, TypeOK, InSomeRoom, InOneRoom,
              DoorsHold, Active
<1>6. ASSUME NEW c \in Active, NEW a \in Offered(c), AddAction(c, a)
      PROVE  IInv' /\ DoorsHold /\ CoinsStay
  <2>1. /\ a \in AnyAction /\ c \in Creatures /\ actions[c] \in Seq(AnyAction)
        /\ UNCHANGED <<life, location, creatures>> /\ Active' = Active
    BY <1>0, <1>6, OfferedIsAction DEF AddAction, where, Active, TypeOK
  <2>2. InSomeRoom' /\ InOneRoom' /\ DoorsHold
    BY <1>0, <2>1 DEF InSomeRoom, InOneRoom, DoorsHold
  <2>3. CASE /\ round_time' = [round_time EXCEPT ![c] = 0]
             /\ Promote(c, <<a>>, location[c])
    <3>1. <<a>> \in Seq(AnyAction)
      BY <2>1
    <3>2. /\ actions' \in [Creatures -> Seq(AnyAction)]
          /\ StartTyped /\ CoinsMoved
      BY <1>0, <2>1, <2>3, <3>1, PromoteKeeps
    <3>3. round_time' \in [Creatures -> Nat]
      BY <1>0, <2>3 DEF TypeOK
    <3> QED BY <1>0, <1>c, <2>1, <2>2, <3>2, <3>3 DEF IInv, TypeOK, StartTyped
  <2>4. CASE /\ actions' = [actions EXCEPT ![c] = Append(@, a)]
             /\ UNCHANGED <<round_time, doors, coins, fault>>
    <3>1. Append(actions[c], a) \in Seq(AnyAction)
      BY <2>1, AppendProperties
    <3>2. actions' \in [Creatures -> Seq(AnyAction)]
      BY <1>0, <2>4, <3>1 DEF TypeOK
    <3> QED BY <1>0, <2>1, <2>2, <2>4, <3>2 DEF IInv, TypeOK, doors, CoinsStay
  <2> QED BY <1>6, <2>3, <2>4 DEF AddAction
<1>7. CASE UNCHANGED vars
  BY <1>0, <1>7 DEF vars, where, doors, queue, IInv, TypeOK, InSomeRoom, InOneRoom,
                    DoorsHold, CoinsStay, Active
<1> QED BY <1>1, <1>2, <1>3, <1>4, <1>5, <1>6, <1>7 DEF Next, Broken, Active

(* A world in which nobody has arrived yet satisfies the invariant.        *)
LEMMA InitIInv == Init => IInv
<1> SUFFICES ASSUME Init PROVE IInv
  OBVIOUS
<1>1. Active = {}
  BY DEF Init, Active
<1>2. actions \in [Creatures -> Seq(AnyAction)]
  BY DEF Init
<1>3. coins \in [Creatures \cup Rooms -> 0 .. MaxCoins]
  BY ActionsAssumption DEF Init
<1>4. TypeOK
  BY <1>2, <1>3 DEF Init, TypeOK
<1> QED BY <1>1, <1>4 DEF Init, IInv, InSomeRoom, InOneRoom

(* IInv holds in every reachable state.                                    *)
THEOREM Invariance == Spec => []IInv
<1>1. IInv /\ [Next]_vars => IInv'
  BY WorldStep
<1> QED BY <1>1, InitIInv, PTL DEF Spec

(* The variables of the creatures, rooms and portals keep their types: no  *)
(* purse ever holds more than an unsigned does.                            *)
THEOREM TypeCorrect == Spec => []TypeOK
<1>1. IInv => TypeOK
  BY DEF IInv
<1> QED BY <1>1, Invariance, PTL

(* However the queues of any number of creatures are mixed, every creature *)
(* is in one room, none walks through a closed portal, and coins stay what *)
(* they are.                                                               *)
THEOREM WorldCorrect == Spec => WorldHolds
<1>1. IInv /\ [Next]_vars => [InOneRoom' /\ DoorsHold /\ CoinsStay]_vars
  BY WorldStep DEF IInv
<1> QED BY <1>1, Invariance, PTL DEF Spec, WorldHolds
=============================================================================
