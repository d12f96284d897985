------------------------------ MODULE Accounts ------------------------------
(***************************************************************************)
(* Accounts, their files and the dialogues that change them: account.cc,   *)
(* the login and new-account modes of login.cc, the account states of the  *)
(* main menu (menu.cc), `admin grant' and `admin revoke' (admin.cc), and   *)
(* File::Writer, which writes a temporary file and renames it              *)
(* (fileobj.cc).  The server may crash between any two of its steps, also  *)
(* between the two saves of one command, and is started again.             *)
(*                                                                         *)
(* The account manager looks names up in lower case but files a new        *)
(* account under the name as typed, so one account may have two objects.   *)
(***************************************************************************)
EXTENDS Naturals, Sequences, FiniteSets

CONSTANTS Handlers, Ids, Passes,
          Spellings,    \* how a name may be typed: a subset of {"lower", "Capital"}
          NoPass,       \* no passphrase: nothing matches it
          MaxCrashes    \* bound on crashes and shutdowns

ASSUME AccountsAssumption == Spellings \subseteq {"lower", "Capital"}

VARIABLES
    server,    \* "running", "stopping" or "down"
    file,      \* the passphrase in an account's file, or "none" without a file
    temp,      \* the file~ a save has written and not yet renamed
    accounts,  \* _MAccount::accounts: by id as filed, the passphrase of the object
    saves,     \* the saves the running command still has to do
    mode,      \* a connection's dialogue
    echo,      \* what TelnetHandler::toggleEcho was last told
    replaced,  \* history: the passphrases an account no longer has
    crashes

vars == <<server, file, temp, accounts, saves, mode, echo, replaced, crashes>>

Keys    == Ids \X {"lower", "Capital"}
Lower(k) == <<k[1], "lower">>
Unloaded == "unloaded"
NoFile   == "none"

Off == [at |-> "off", key |-> <<>>, pass |-> NoPass, email |-> FALSE, tries |-> 0]
Stages == {"pass", "new pass", "new check", "challenge", "select", "confirm"}

Init ==
    /\ server = "running"
    /\ file \in [Ids -> Passes \cup {NoFile}]
    /\ temp = <<>> /\ saves = <<>>
    /\ accounts = [k \in Keys |-> Unloaded]
    /\ mode = [h \in Handlers |-> Off] /\ echo = [h \in Handlers |-> TRUE]
    /\ replaced = [a \in Ids |-> {}]
    /\ crashes = 0

(* One command runs at a time, and to its end.                             *)
Ready == server = "running" /\ saves = <<>> /\ temp = <<>>
At(h, at) == Ready /\ mode[h].at = at

(* _MAccount::get: the object of the name in lower case, loaded from the   *)
(* file where there is none yet; Unloaded where there is no file either.   *)
Get(k) ==
    IF accounts[Lower(k)] # Unloaded THEN accounts[Lower(k)]
    ELSE IF file[k[1]] # NoFile THEN file[k[1]] ELSE Unloaded
Loaded(k) == accounts' = [accounts EXCEPT ![Lower(k)] = Get(k)]

(* _MAccount::exists drops the lower-case name it makes: a name typed with *)
(* a capital is found only in the map.                                     *)
Exists(k) == accounts[k] # Unloaded \/ (k[2] = "lower" /\ file[k[1]] # NoFile)

(* Account::checkPassphrase: an empty stored one matches nothing.          *)
Matches(k, p) == accounts[k] = p /\ p # NoPass

Goes(h, at) == mode' = [mode EXCEPT ![h].at = at]
Echo(h, on) == echo' = [echo EXCEPT ![h] = on]

-----------------------------------------------------------------------------
(* Account::save of a key's object: the file~ is written, then renamed.    *)
WriteTemp ==
    /\ saves # <<>> /\ temp = <<>>
    /\ temp' = Head(saves) /\ saves' = Tail(saves)
    /\ UNCHANGED <<server, file, accounts, mode, echo, replaced, crashes>>

Rename ==
    /\ temp # <<>>
    /\ file' = [file EXCEPT ![temp.id] = temp.pass]
    /\ replaced' = [replaced EXCEPT ![temp.id] = (@ \cup ({file[temp.id]} \cap Passes)) \ {temp.pass}]
    /\ temp' = <<>>
    /\ UNCHANGED <<server, saves, accounts, mode, echo, crashes>>

Save(k, p) == [id |-> k[1], pass |-> p]

(* What is in memory is lost.                                              *)
Forget ==
    /\ accounts' = [k \in Keys |-> Unloaded]
    /\ mode' = [h \in Handlers |-> Off] /\ echo' = [h \in Handlers |-> TRUE]

(* The process dies; a file~ stays a file~.                                *)
Crash ==
    /\ server # "down" /\ crashes < MaxCrashes
    /\ server' = "down" /\ crashes' = crashes + 1
    /\ saves' = <<>> /\ temp' = <<>>
    /\ Forget
    /\ UNCHANGED <<file, replaced>>

Start ==
    /\ server = "down"
    /\ server' = "running"
    /\ UNCHANGED <<file, temp, accounts, saves, mode, echo, replaced, crashes>>

(* _MAccount::shutdown saves one account after the other and drops it.     *)
(* Dropping the last reference erases it from the map the loop iterates    *)
(* over: any number of them is saved, in the order of a hash table, before *)
(* the loop ends or goes astray.                                           *)
Shutdown ==
    /\ Ready /\ crashes < MaxCrashes
    /\ server' = "stopping" /\ crashes' = crashes + 1
    /\ LET L == {k \in Keys : accounts[k] # Unloaded} IN
       \E n \in 0 .. Cardinality(L) : \E s \in [1 .. n -> L] :
          /\ \A i, j \in 1 .. n : i # j => s[i] # s[j]
          /\ saves' = [i \in 1 .. n |-> Save(s[i], accounts[s[i]])]
    /\ UNCHANGED <<file, temp, accounts, mode, echo, replaced>>

Stopped ==
    /\ server = "stopping" /\ saves = <<>> /\ temp = <<>>
    /\ server' = "down" /\ Forget
    /\ UNCHANGED <<file, temp, saves, replaced, crashes>>

-----------------------------------------------------------------------------
Connect(h) ==
    /\ At(h, "off")
    /\ mode' = [mode EXCEPT ![h] = [Off EXCEPT !.at = "name"]]
    /\ UNCHANGED <<server, file, temp, accounts, saves, echo, replaced, crashes>>

(* A hang-up, `quit' at the login, `portal' in the menu.                   *)
Disconnect(h) ==
    /\ Ready /\ mode[h].at # "off"
    /\ mode' = [mode EXCEPT ![h] = Off] /\ Echo(h, TRUE)
    /\ UNCHANGED <<server, file, temp, accounts, saves, replaced, crashes>>

(* TelnetModeLogin, the name: of an account, or of none.                   *)
LoginName(h, k) ==
    /\ At(h, "name")
    /\ mode' = [mode EXCEPT ![h].at = "pass",
                            ![h].key = IF Exists(k) THEN Lower(k) ELSE <<>>]
    /\ IF Exists(k) THEN Loaded(k) ELSE UNCHANGED accounts
    /\ Echo(h, FALSE)
    /\ UNCHANGED <<server, file, temp, saves, replaced, crashes>>

(* The passphrase; the third that does not match ends the connection.      *)
LoginPass(h, p) ==
    /\ At(h, "pass") /\ Echo(h, TRUE)
    /\ LET k == mode[h].key IN
       mode' = [mode EXCEPT ![h] =
                   IF k # <<>> /\ Matches(k, p)
                   THEN [Off EXCEPT !.at = "menu", !.key = k]
                   ELSE IF mode[h].tries = 2 THEN Off
                   ELSE [Off EXCEPT !.at = "name", !.tries = mode[h].tries + 1]]
    /\ UNCHANGED <<server, file, temp, accounts, saves, replaced, crashes>>

-----------------------------------------------------------------------------
(* TelnetModeNewAccount.  A name in use is reported and taken all the      *)
(* same; the question is asked again at the end.                           *)
NewAccount(h) ==
    /\ At(h, "name")
    /\ mode' = [mode EXCEPT ![h] = [Off EXCEPT !.at = "new id"]]
    /\ UNCHANGED <<server, file, temp, accounts, saves, echo, replaced, crashes>>

NewId(h, k) ==
    /\ At(h, "new id")
    /\ mode' = [mode EXCEPT ![h].at = "new email", ![h].key = k]
    /\ UNCHANGED <<server, file, temp, accounts, saves, echo, replaced, crashes>>

(* STATE_EMAIL: a good address turns the echo off, a bad one clears the    *)
(* address, an empty line keeps the one given before.                      *)
NewEmail(h, line) ==
    /\ At(h, "new email")
    /\ mode' = [mode EXCEPT ![h].email = (@ \/ line = "good") /\ line # "bad",
                            ![h].at = IF (mode[h].email \/ line = "good") /\ line # "bad"
                                      THEN "new pass" ELSE "new email"]
    /\ IF line = "good" THEN Echo(h, FALSE) ELSE UNCHANGED echo
    /\ UNCHANGED <<server, file, temp, accounts, saves, replaced, crashes>>

NewPass(h, p) ==
    /\ At(h, "new pass")
    /\ mode' = [mode EXCEPT ![h].at = "new check", ![h].pass = p]
    /\ UNCHANGED <<server, file, temp, accounts, saves, echo, replaced, crashes>>

NewCheck(h, p) ==
    /\ At(h, "new check")
    /\ Goes(h, IF p = mode[h].pass THEN "approve" ELSE "new pass")
    /\ IF p = mode[h].pass THEN Echo(h, TRUE) ELSE UNCHANGED echo
    /\ UNCHANGED <<server, file, temp, accounts, saves, replaced, crashes>>

(* STATE_APPROVE: yes, for a name that is free.  create saves the account  *)
(* without a passphrase, setPassphrase saves it again.                     *)
Approve(h) ==
    /\ At(h, "approve")
    /\ LET k == mode[h].key IN
          IF Get(k) # Unloaded
          THEN Loaded(k) /\ Goes(h, "new id") /\ UNCHANGED saves
          ELSE /\ accounts' = [accounts EXCEPT ![k] = mode[h].pass]
               /\ saves' = <<Save(k, NoPass), Save(k, mode[h].pass)>>
               /\ mode' = [mode EXCEPT ![h] = [Off EXCEPT !.at = "menu", !.key = k]]
    /\ UNCHANGED <<server, file, temp, echo, replaced, crashes>>

(* No: the dialogue starts over and keeps what it was told.                *)
Disapprove(h) ==
    /\ At(h, "approve") /\ Goes(h, "new id")
    /\ UNCHANGED <<server, file, temp, accounts, saves, echo, replaced, crashes>>

-----------------------------------------------------------------------------
(* The menu, account, passphrase: challenge, selection, confirmation.      *)
ChangePass(h) ==
    /\ At(h, "menu") /\ Goes(h, "challenge") /\ Echo(h, FALSE)
    /\ UNCHANGED <<server, file, temp, accounts, saves, replaced, crashes>>

Challenge(h, p) ==
    /\ At(h, "challenge")
    /\ IF Matches(mode[h].key, p)
       THEN Goes(h, "select") /\ UNCHANGED echo
       ELSE Goes(h, "menu") /\ Echo(h, TRUE)
    /\ UNCHANGED <<server, file, temp, accounts, saves, replaced, crashes>>

(* STATE_CHPASS_SELECT of a valid passphrase; NoPass is one that is not.   *)
(* Nobody goes back to a passphrase the account used to have.              *)
Select(h, p) ==
    /\ At(h, "select") /\ p \notin replaced[mode[h].key[1]]
    /\ IF p = NoPass
       THEN Goes(h, "menu") /\ Echo(h, TRUE)
       ELSE mode' = [mode EXCEPT ![h].at = "confirm", ![h].pass = p] /\ UNCHANGED echo
    /\ UNCHANGED <<server, file, temp, accounts, saves, replaced, crashes>>

(* Faulty: the passphrase is saved and the object keeps the old one.       *)
MutConfirm(h, p) ==
    /\ At(h, "confirm") /\ p \notin replaced[mode[h].key[1]] /\ Echo(h, TRUE)
    /\ LET k == mode[h].key IN
          /\ mode' = [mode EXCEPT ![h] = [Off EXCEPT !.at = "menu", !.key = k]]
          /\ saves' = IF p = mode[h].pass THEN <<Save(k, p)>> ELSE saves
    /\ UNCHANGED <<server, file, temp, accounts, replaced, crashes>>

(* STATE_CHPASS_CONFIRM: Account::setPassphrase stores it and saves.       *)
Confirm(h, p) ==
    /\ At(h, "confirm") /\ p \notin replaced[mode[h].key[1]] /\ Echo(h, TRUE)
    /\ LET k == mode[h].key IN
          /\ mode' = [mode EXCEPT ![h] = [Off EXCEPT !.at = "menu", !.key = k]]
          /\ IF p = mode[h].pass
             THEN accounts' = [accounts EXCEPT ![k] = p] /\ saves' = <<Save(k, p)>>
             ELSE UNCHANGED <<accounts, saves>>
    /\ UNCHANGED <<server, file, temp, replaced, crashes>>

(* `admin grant' and `admin revoke': get, change the access list, save.    *)
Admin(k) ==
    /\ Ready /\ Get(k) # Unloaded
    /\ Loaded(k) /\ saves' = <<Save(k, Get(k))>>
    /\ UNCHANGED <<server, file, temp, mode, echo, replaced, crashes>>

Typed == Ids \X Spellings

Command(h) ==
    \/ Connect(h) \/ Disconnect(h) \/ NewAccount(h) \/ Approve(h) \/ Disapprove(h) \/ ChangePass(h)
    \/ \E k \in Typed : LoginName(h, k) \/ NewId(h, k)
    \/ \E line \in {"good", "bad", "empty"} : NewEmail(h, line)
    \/ \E p \in Passes : LoginPass(h, p) \/ NewPass(h, p) \/ NewCheck(h, p)
    \/ \E p \in Passes \cup {NoPass} : Challenge(h, p) \/ Select(h, p) \/ Confirm(h, p)

Next ==
    \/ \E h \in Handlers : Command(h)
    \/ \E k \in Typed : Admin(k)
    \/ WriteTemp \/ Rename \/ Crash \/ Start \/ Shutdown \/ Stopped

Spec == Init /\ [][Next]_vars

-----------------------------------------------------------------------------
(* The passphrase a file gives its account, as AccountStore sees it.       *)
Stored == [a \in Ids |-> IF file[a] \in Passes THEN file[a] ELSE NoPass]

(* The accounts made under a name with capitals since the server was       *)
(* started, and those of them that have a second object.                   *)
MadeCapital == {a \in Ids : accounts[<<a, "Capital">>] # Unloaded}
Doubled == {a \in MadeCapital : accounts[<<a, "lower">>] # Unloaded}

Store == INSTANCE AccountStore WITH pass <- Stored, capital <- MadeCapital, twice <- Doubled

(* The server with its dialogues, its cache of accounts, its saves and its *)
(* crashes implements AccountStore, however names are typed: an account    *)
(* keeps the passphrase its owner gave it last and a replaced one never    *)
(* comes back, but to an account made under a name with capitals since the *)
(* start, once it has been loaded a second time: whichever object is saved *)
(* last has its way, until a restart (account.cc:236-294, 307-315).        *)
StoreKept == Store!Spec

(* Whoever is asked for a passphrase types it unseen, and everything else  *)
(* is typed with the echo on, on every way through the dialogues but one:  *)
(* in a new-account dialogue that starts over, the address kept from       *)
(* before lets the passphrase be typed with the echo on.                   *)
EchoFollowsPrompt ==
    \A h \in Handlers :
        /\ ~echo[h] => mode[h].at \in Stages
        /\ mode[h].at \in Stages \ {"new pass", "new check"} => ~echo[h]

(* The passphrase of an account is kept, and it is typed unseen.           *)
AccountsRight == StoreKept /\ []EchoFollowsPrompt

=============================================================================
