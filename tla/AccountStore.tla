---------------------------- MODULE AccountStore ----------------------------
(***************************************************************************)
(* What the account files promise their owners: an account is made once,   *)
(* with a passphrase, and has that passphrase until it is given another    *)
(* one; a passphrase that was replaced never opens it again.  Crashes,     *)
(* and everything else the server does are steps in which nothing changes  *)
(* here.                                                                   *)
(*                                                                         *)
(* The promise does not hold for an account made under a name with         *)
(* capitals, from the moment it is looked up until the next restart: it    *)
(* has two objects, and may go back to a passphrase it used to have.       *)
(***************************************************************************)
EXTENDS FiniteSets

CONSTANTS Ids, Passes, NoPass

VARIABLES pass,      \* the passphrase of an account, NoPass before it has one
          replaced,  \* the passphrases it used to have
          capital,   \* accounts made under a name with capitals since the start
          twice      \* those of them with two objects

vars == <<pass, replaced, capital, twice>>

Init ==
    /\ pass \in [Ids -> Passes \cup {NoPass}]
    /\ replaced = [a \in Ids |-> {}]
    /\ capital = {} /\ twice = {}

Create(a, p) ==
    /\ pass[a] = NoPass
    /\ pass' = [pass EXCEPT ![a] = p]
    /\ UNCHANGED <<replaced, capital, twice>>

Change(a, p) ==
    /\ pass[a] # NoPass /\ p \notin replaced[a] \cup {pass[a]}
    /\ pass' = [pass EXCEPT ![a] = p]
    /\ replaced' = [replaced EXCEPT ![a] = @ \cup {pass[a]}]
    /\ UNCHANGED <<capital, twice>>

(* An object that knows nothing of the last change is saved.               *)
GoBack(a, p) ==
    /\ a \in twice /\ p \in replaced[a]
    /\ pass' = [pass EXCEPT ![a] = p]
    /\ replaced' = [replaced EXCEPT ![a] = (@ \cup {pass[a]}) \ {p}]
    /\ UNCHANGED <<capital, twice>>

(* A new account under a name with capitals; it is looked up.              *)
Begin(a) ==
    /\ pass[a] = NoPass /\ capital' = capital \cup {a}
    /\ UNCHANGED <<pass, replaced, twice>>

LookUp(a) ==
    /\ a \in capital /\ twice' = twice \cup {a}
    /\ UNCHANGED <<pass, replaced, capital>>

Restart ==
    /\ capital' = {} /\ twice' = {}
    /\ UNCHANGED <<pass, replaced>>

Next ==
    \/ Restart
    \/ \E a \in Ids : Begin(a) \/ LookUp(a)
    \/ \E a \in Ids, p \in Passes : Create(a, p) \/ Change(a, p) \/ GoBack(a, p)

Spec == Init /\ [][Next]_vars
=============================================================================
