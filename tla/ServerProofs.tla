--------------------------- MODULE ServerProofs ---------------------------
(***************************************************************************)
(* Proofs about Accounts, MainLoop, Blueprints, Persist and Clock, as      *)
(* MCServer runs them together.                                            *)
(*                                                                         *)
(* Accounts: however names are typed, the server with its cache, its saves *)
(* and its crashes implements AccountStore; and a passphrase is typed with *)
(* the echo off.                                                           *)
(*                                                                         *)
(* MainLoop: managers are up while something needs them, a SIGHUP is not   *)
(* lost, ticks keep behind the clock, and one server runs under a name.    *)
(*                                                                         *)
(* Blueprints: what a blueprint has, its nearest ancestor was given.       *)
(*                                                                         *)
(* Persist: what a load brings back is what was saved last.                *)
(*                                                                         *)
(* Clock: every tick leaves a date the calendar has.                       *)
(***************************************************************************)
EXTENDS Accounts, MainLoop, Blueprints, Persist, Clock,
        FiniteSetTheorems, SequenceTheorems, WellFoundedInduction, TLAPS

(* Finitely many accounts; a passphrase is none of the words that stand    *)
(* for the lack of one.                                                    *)
PassesAreReal ==
    /\ IsFiniteSet(Ids)
    /\ {NoPass, Unloaded, NoFile} \cap Passes = {}
    /\ NoPass # Unloaded /\ NoPass # NoFile

Entry == [id : Ids, pass : Passes \cup {NoPass}]

FilesTyped ==
    /\ server \in {"running", "stopping", "down"}
    /\ file \in [Ids -> Passes \cup {NoPass, NoFile}]
    /\ replaced \in [Ids -> SUBSET Passes]
    /\ accounts \in [Keys -> Passes \cup {NoPass, Unloaded}]
    /\ saves \in Seq(Entry)
    /\ temp \in Entry \cup {<<>>}

Places == {"off", "name", "pass", "menu", "new id", "new email", "new pass", "new check",
           "approve", "challenge", "select", "confirm"}
LoggedIn == {"menu", "challenge", "select", "confirm"}

(* Who is asked something about an account has one, and who is asked to    *)
(* confirm a passphrase has given one.                                     *)
DialogueFits(m) ==
    /\ m.at \in LoggedIn \cup {"new email", "new pass", "new check", "approve"} => m.key \in Keys
    /\ m.at \in {"confirm", "new check", "approve"} => m.pass \in Passes

Dialogue == [at : Places, key : Keys \cup {<<>>}, pass : Passes \cup {NoPass},
             email : BOOLEAN, tries : Nat]

DialoguesTyped ==
    /\ mode \in [Handlers -> Dialogue]
    /\ \A h \in Handlers : DialogueFits(mode[h])

(* The account of who is logged in has an object under that very key.      *)
KeysLoaded == \A h \in Handlers : mode[h].at \in LoggedIn => accounts[mode[h].key] # Unloaded

(* A file holds no passphrase its account has given up, and an account     *)
(* without one has given up none.                                          *)
NeverBack ==
    \A a \in Ids : /\ file[a] \notin replaced[a]
                   /\ file[a] \notin Passes => replaced[a] = {}

(* What is about to be saved is no such passphrase either, but for an      *)
(* account with two objects, and takes none away.                          *)
SafeToSave(e) ==
    /\ e.id \notin Doubled => e.pass \notin replaced[e.id]
    /\ e.pass \notin Passes => file[e.id] \notin Passes
(* Of two saves of one object the first is one without a passphrase.       *)
Follows(d, e) == d.id = e.id /\ d.id \notin Doubled => d.pass \notin Passes /\ e.pass \in Passes

SavesRight ==
    /\ temp # <<>> => SafeToSave(temp)
    /\ \A i \in DOMAIN saves : SafeToSave(saves[i])
    /\ \A i, j \in DOMAIN saves : i < j => Follows(saves[i], saves[j])
    /\ temp # <<>> => \A i \in DOMAIN saves : Follows(temp, saves[i])

(* While the server runs, one account at most is being saved, and an       *)
(* object has what its file has or is about to have, if the account has no *)
(* other.  An account with a second object was made with a passphrase, and *)
(* so has both objects with one.                                           *)
Pending == saves # <<>> \/ temp # <<>>
Latest  == IF saves # <<>> THEN saves[Len(saves)] ELSE temp

CacheRight ==
    /\ server = "down" => ~Pending /\ \A k \in Keys : accounts[k] = Unloaded
    /\ \A a \in Doubled : {file[a], accounts[<<a, "lower">>], accounts[<<a, "Capital">>]} \subseteq Passes
    /\ server = "running" =>
          /\ \A k \in Keys : k[1] \notin Doubled => accounts[k] \in
                {Unloaded, IF Pending /\ k[1] = Latest.id THEN Latest.pass ELSE file[k[1]]}
          /\ \A a \in MadeCapital : /\ accounts[<<a, "Capital">>] \in Passes
                                    /\ file[a] \in Passes \/ (Pending /\ a = Latest.id)
          /\ \A i \in DOMAIN saves : saves[i].id = Latest.id
          /\ temp # <<>> => temp.id = Latest.id

(* The inductive invariant of the refinement.                              *)
AccountsIInv ==
    FilesTyped /\ DialoguesTyped /\ KeysLoaded /\ NeverBack /\ SavesRight /\ CacheRight

-----------------------------------------------------------------------------
(* What is saved is an entry, and no entry is the empty temporary file.    *)
LEMMA EntryThere == ASSUME NEW e \in Entry PROVE e # <<>>
<1>1. DOMAIN e = {"id", "pass"}
  BY DEF Entry
<1>2. "id" \in DOMAIN e /\ DOMAIN <<>> = 1 .. 0 /\ "id" \notin 1 .. 0
  BY <1>1
<1> QED BY <1>2

(* The two keys of an account.                                             *)
LEMMA KeyFacts ==
    ASSUME NEW k \in Keys
    PROVE  /\ k[1] \in Ids /\ Lower(k) = <<k[1], "lower">> /\ Lower(k) \in Keys
           /\ k = <<k[1], "lower">> \/ k = <<k[1], "Capital">>
           /\ k = <<k[1], "Capital">> => k[2] = "Capital"
           /\ Lower(k)[1] = k[1] /\ Lower(k)[2] = "lower"
           /\ <<k[1], "Capital">> \in Keys /\ <<k[1], "lower">> # <<k[1], "Capital">>
<1>1. PICK a \in Ids, c \in {"lower", "Capital"} : k = <<a, c>>
  BY DEF Keys
<1>2. k[1] = a /\ k[2] = c
  BY <1>1
<1> QED BY <1>1, <1>2 DEF Keys, Lower

LEMMA BothKeys ==
    ASSUME NEW a \in Ids
    PROVE  /\ <<a, "lower">> \in Keys /\ <<a, "Capital">> \in Keys
           /\ <<a, "lower">>[1] = a /\ <<a, "Capital">>[1] = a /\ <<a, "lower">> # <<a, "Capital">>
BY DEF Keys

LEMMA TypedKeys == ASSUME NEW k \in Typed PROVE k \in Keys
BY AccountsAssumption DEF Typed, Keys

(* Between two commands nothing is being saved, an object that is the only *)
(* one of its account has what the file has, and an account made under a   *)
(* name with capitals has its passphrase.                                  *)
LEMMA WhenReady ==
    ASSUME AccountsIInv, Ready
    PROVE  /\ ~Pending /\ server = "running"
           /\ \A k \in Keys : k[1] \notin Doubled => accounts[k] \in {Unloaded, file[k[1]]}
           /\ \A a \in MadeCapital : accounts[<<a, "Capital">>] \in Passes /\ file[a] \in Passes
BY DEF AccountsIInv, CacheRight, Ready, Pending

(* What _MAccount::get finds: what the file has, where the account has     *)
(* one object, and a passphrase where it has two.                          *)
LEMMA GetsTheFile ==
    ASSUME PassesAreReal, AccountsIInv, Ready, NEW k \in Keys
    PROVE  /\ Get(k) \in Passes \cup {NoPass, Unloaded}
           /\ Get(k) # Unloaded /\ k[1] \notin Doubled => Get(k) = file[k[1]]
           /\ k[1] \in MadeCapital => Get(k) \in Passes
           /\ Get(k) = Unloaded => /\ file[k[1]] = NoFile /\ k[1] \notin MadeCapital
                                   /\ accounts[<<k[1], "lower">>] = Unloaded
                                   /\ accounts[k] = Unloaded
           /\ accounts[Lower(k)] # Unloaded => Get(k) = accounts[Lower(k)]
<1> DEFINE a == k[1]
           o == <<a, "lower">>
<1>1. a \in Ids /\ Lower(k) = o /\ o \in Keys /\ o[1] = a /\ <<a, "Capital">> \in Keys
  BY KeyFacts, BothKeys
<1>2. /\ file[a] \in Passes \cup {NoPass, NoFile} /\ accounts[o] \in Passes \cup {NoPass, Unloaded}
      /\ Unloaded \notin Passes /\ NoFile \notin Passes /\ NoPass # Unloaded /\ NoPass # NoFile
  BY <1>1 DEF AccountsIInv, FilesTyped, PassesAreReal
<1>3. Get(k) = IF accounts[o] # Unloaded THEN accounts[o]
               ELSE IF file[a] # NoFile THEN file[a] ELSE Unloaded
  BY <1>1 DEF Get
<1>4. a \notin Doubled => accounts[o] \in {Unloaded, file[a]}
  BY <1>1, WhenReady
<1>5. a \in Doubled => accounts[o] \in Passes
  BY DEF AccountsIInv, CacheRight
<1>6. a \in MadeCapital => file[a] \in Passes
  BY WhenReady
<1>7. a \in MadeCapital /\ accounts[o] # Unloaded => a \in Doubled
  BY DEF Doubled
<1>8. k = o \/ (k = <<a, "Capital">> /\ (accounts[k] # Unloaded => a \in MadeCapital))
  BY <1>1, KeyFacts DEF MadeCapital
<1>9. Unloaded # NoFile
  BY DEF Unloaded, NoFile
<1> HIDE DEF a, o
<1>10. Get(k) \in Passes \cup {NoPass, Unloaded}
  BY <1>2, <1>3
<1>11. Get(k) # Unloaded /\ a \notin Doubled => Get(k) = file[a]
  BY <1>3, <1>4
<1>12. a \in MadeCapital => Get(k) \in Passes
  BY <1>2, <1>3, <1>5, <1>6, <1>7
<1>13. Get(k) = Unloaded => file[a] = NoFile /\ accounts[o] = Unloaded
  BY <1>2, <1>3, <1>9
<1>14. Get(k) = Unloaded => a \notin MadeCapital
  BY <1>2, <1>12
<1> QED BY <1>1, <1>3, <1>8, <1>10, <1>11, <1>12, <1>13, <1>14 DEF a, o

LEMMA InitIInv == PassesAreReal /\ Init => AccountsIInv
<1> SUFFICES ASSUME PassesAreReal, Init PROVE AccountsIInv
  OBVIOUS
<1> USE DEF Init
<1>1. FilesTyped
  BY DEF FilesTyped, Unloaded, NoFile
<1>2. DialoguesTyped /\ KeysLoaded
  BY DEF DialoguesTyped, Dialogue, DialogueFits, KeysLoaded, LoggedIn, Off, Places
<1>3. NeverBack
  BY DEF NeverBack
<1>4. SavesRight
  BY DEF SavesRight
<1>5. MadeCapital = {} /\ Doubled = {}
  BY BothKeys DEF MadeCapital, Doubled
<1>6. CacheRight
  BY <1>5 DEF CacheRight, Pending
<1> QED BY <1>1, <1>2, <1>3, <1>4, <1>6 DEF AccountsIInv

-----------------------------------------------------------------------------
FilesRight == FilesTyped /\ NeverBack /\ SavesRight /\ CacheRight

LEMMA SameStep ==
    ASSUME AccountsIInv, UNCHANGED <<server, file, temp, accounts, saves, replaced>>
    PROVE  FilesRight'
BY DEF AccountsIInv, FilesRight, FilesTyped, NeverBack, SavesRight, SafeToSave, Follows,
       CacheRight, Pending, Latest, MadeCapital, Doubled

(* A command gives one object a passphrase.  The second object of an       *)
(* account comes about only by loading it from a file that has one.        *)
Giving(k, p) ==
    /\ Ready /\ UNCHANGED <<server, file, temp, replaced>>
    /\ accounts' = [accounts EXCEPT ![k] = p]
    /\ k[2] = "Capital" => p \in Passes
    /\ k[2] = "Capital" /\ accounts[Lower(k)] # Unloaded => accounts[k] # Unloaded
    /\ k[1] \in MadeCapital => p \in Passes
    /\ p \notin Passes => file[k[1]] \notin Passes

LEMMA GivingFacts ==
    ASSUME PassesAreReal, AccountsIInv, NEW k \in Keys, NEW p \in Passes \cup {NoPass},
           Giving(k, p)
    PROVE  /\ accounts' \in [Keys -> Passes \cup {NoPass, Unloaded}]
           /\ \A j \in Keys : accounts'[j] = IF j = k THEN p ELSE accounts[j]
           /\ Doubled \subseteq Doubled' /\ MadeCapital \subseteq MadeCapital'
           /\ \A a \in Ids : a # k[1] => (a \in Doubled' <=> a \in Doubled)
           /\ \A a \in Doubled' :
                 {file[a], accounts'[<<a, "lower">>], accounts'[<<a, "Capital">>]} \subseteq Passes
           /\ \A a \in MadeCapital' : /\ accounts'[<<a, "Capital">>] \in Passes
                                      /\ file[a] \in Passes \/ a = k[1]
           /\ \A a \in Ids : a \in Doubled' <=> (/\ accounts'[<<a, "lower">>] # Unloaded
                                                 /\ accounts'[<<a, "Capital">>] # Unloaded)
<1> USE DEF Giving
<1>1. /\ k[1] \in Ids /\ Lower(k) = <<k[1], "lower">> /\ p # Unloaded
      /\ k = <<k[1], "lower">> \/ (k = <<k[1], "Capital">> /\ k[2] = "Capital")
  BY KeyFacts DEF PassesAreReal
<1>2. accounts \in [Keys -> Passes \cup {NoPass, Unloaded}]
  BY DEF AccountsIInv, FilesTyped
<1>3. accounts' \in [Keys -> Passes \cup {NoPass, Unloaded}]
  BY <1>2
<1>4. \A j \in Keys : accounts'[j] = IF j = k THEN p ELSE accounts[j]
  BY <1>2
<1>5. \A a \in Ids : /\ a \in Doubled' <=> (/\ accounts'[<<a, "lower">>] # Unloaded
                                            /\ accounts'[<<a, "Capital">>] # Unloaded)
                     /\ a \in Doubled <=> (/\ accounts[<<a, "lower">>] # Unloaded
                                           /\ accounts[<<a, "Capital">>] # Unloaded)
                     /\ a \in MadeCapital' <=> accounts'[<<a, "Capital">>] # Unloaded
                     /\ a \in MadeCapital <=> accounts[<<a, "Capital">>] # Unloaded
  BY DEF Doubled, MadeCapital
<1>6. Doubled \subseteq Ids /\ MadeCapital \subseteq Ids /\ Doubled' \subseteq Ids /\ MadeCapital' \subseteq Ids
  BY DEF Doubled, MadeCapital
<1>7. Doubled \subseteq Doubled' /\ MadeCapital \subseteq MadeCapital'
  <2>1. \A j \in Keys : accounts[j] # Unloaded => accounts'[j] # Unloaded
    BY <1>1, <1>4
  <2>2. \A a \in Ids : <<a, "lower">> \in Keys /\ <<a, "Capital">> \in Keys
    BY BothKeys
  <2>3. \A a \in Ids : (a \in Doubled => a \in Doubled') /\ (a \in MadeCapital => a \in MadeCapital')
    BY <1>5, <2>1, <2>2
  <2> QED BY <1>6, <2>3
<1>8. \A a \in Ids : a # k[1] => /\ a \in Doubled' <=> a \in Doubled
                                 /\ accounts'[<<a, "lower">>] = accounts[<<a, "lower">>]
                                 /\ accounts'[<<a, "Capital">>] = accounts[<<a, "Capital">>]
  BY <1>4, <1>5, BothKeys
<1>9. /\ \A a \in MadeCapital : accounts[<<a, "Capital">>] \in Passes /\ file[a] \in Passes
      /\ \A a \in Doubled : {file[a], accounts[<<a, "lower">>], accounts[<<a, "Capital">>]} \subseteq Passes
  BY WhenReady DEF AccountsIInv, CacheRight
<1>10. ASSUME NEW a \in Doubled'
       PROVE  {file[a], accounts'[<<a, "lower">>], accounts'[<<a, "Capital">>]} \subseteq Passes
  <2>1. CASE a # k[1]
    BY <1>6, <1>8, <1>9, <2>1
  <2>2. CASE a = k[1] /\ k = <<a, "lower">>
    <3>1. a \in MadeCapital
      BY <1>4, <1>5, <1>6, <2>2, BothKeys
    <3> QED BY <1>4, <1>6, <1>9, <2>2, <3>1, BothKeys
  <2>3. CASE a = k[1] /\ k = <<a, "Capital">> /\ k[2] = "Capital"
    <3>1. accounts[<<a, "lower">>] # Unloaded
      BY <1>4, <1>5, <1>6, <2>3, BothKeys
    <3>2. a \in Doubled
      BY <1>1, <1>5, <1>6, <2>3, <3>1
    <3> QED BY <1>4, <1>6, <1>9, <2>3, <3>2, BothKeys
  <2> QED BY <1>1, <2>1, <2>2, <2>3
<1>11. ASSUME NEW a \in MadeCapital'
       PROVE  accounts'[<<a, "Capital">>] \in Passes /\ (file[a] \in Passes \/ a = k[1])
  <2>1. CASE a # k[1]
    BY <1>5, <1>6, <1>8, <1>9, <2>1
  <2>2. CASE a = k[1] /\ k = <<a, "lower">>
    <3>1. a \in MadeCapital /\ accounts'[<<a, "Capital">>] = accounts[<<a, "Capital">>]
      BY <1>4, <1>5, <1>6, <2>2, BothKeys
    <3> QED BY <1>9, <3>1
  <2>3. CASE a = k[1] /\ k = <<a, "Capital">> /\ k[2] = "Capital"
    BY <1>4, <1>6, <2>3, BothKeys
  <2> QED BY <1>1, <2>1, <2>2, <2>3
<1> QED BY <1>3, <1>4, <1>5, <1>7, <1>8, <1>10, <1>11

(* Loading an object leaves the files right.                               *)
Loads == Ready /\ UNCHANGED <<server, file, temp, saves, replaced>> /\ \E k \in Keys : Loaded(k)

LEMMA LoadsStep ==
    ASSUME PassesAreReal, AccountsIInv, Loads
    PROVE  FilesRight'
<1> USE DEF AccountsIInv
<1>1. PICK k \in Keys : Loaded(k)
  BY DEF Loads
<1> DEFINE o == Lower(k)
<1>2. Ready /\ UNCHANGED <<server, file, temp, saves, replaced>> /\ accounts' = [accounts EXCEPT ![o] = Get(k)]
  BY <1>1 DEF Loads, Loaded
<1>3. o = <<k[1], "lower">> /\ o \in Keys /\ o[1] = k[1] /\ o[2] = "lower" /\ k[1] \in Ids
  BY KeyFacts
<1>4. CASE Get(k) = Unloaded
  <2>1. accounts[o] = Unloaded
    BY <1>2, <1>3, <1>4, GetsTheFile
  <2>2. accounts' = accounts
    BY <1>2, <1>3, <1>4, <2>1 DEF FilesTyped
  <2> QED BY <1>2, <2>2, SameStep
<1>5. CASE Get(k) # Unloaded
  <2>1. Get(k) \in Passes \cup {NoPass} /\ (k[1] \in MadeCapital => Get(k) \in Passes)
    BY <1>2, <1>5, GetsTheFile
  <2>2. Get(k) \notin Passes => file[k[1]] \notin Passes
    <3>1. CASE k[1] \in Doubled
      BY <2>1, <3>1 DEF Doubled
    <3>2. CASE k[1] \notin Doubled
      BY <1>2, <1>5, <3>2, GetsTheFile
    <3> QED BY <3>1, <3>2
  <2>3. Giving(o, Get(k))
    BY <1>2, <1>3, <2>1, <2>2 DEF Giving
  <2>4. FilesTyped'
    BY <1>2, <1>3, <2>1, <2>3, GivingFacts DEF FilesTyped
  <2>5. NeverBack'
    BY <1>2 DEF NeverBack
  <2>6. ~Pending /\ saves' = <<>> /\ temp' = <<>>
    BY <1>2 DEF Ready, Pending
  <2>7. SavesRight'
    BY <2>6 DEF SavesRight
  <2>8. ASSUME NEW j \in Keys, j[1] \notin Doubled'
        PROVE  accounts'[j] \in {Unloaded, file[j[1]]}
    <3>1. j[1] \notin Doubled
      BY <1>3, <2>1, <2>3, <2>8, GivingFacts
    <3>2. accounts[j] \in {Unloaded, file[j[1]]}
      BY <1>2, <3>1, WhenReady
    <3>3. j = o => Get(k) = file[j[1]]
      BY <1>2, <1>3, <1>5, <3>1, GetsTheFile
    <3>4. accounts'[j] = IF j = o THEN Get(k) ELSE accounts[j]
      BY <1>3, <2>1, <2>3, GivingFacts
    <3> QED BY <3>2, <3>3, <3>4
  <2>9. \A a \in MadeCapital' : accounts'[<<a, "Capital">>] \in Passes /\ file[a] \in Passes
    <3>1. \A a \in MadeCapital' : accounts'[<<a, "Capital">>] \in Passes
      BY <1>3, <2>1, <2>3, GivingFacts
    <3>2. \A a \in MadeCapital' : a \in MadeCapital
      <4>1. \A a \in Ids : accounts'[<<a, "Capital">>] = accounts[<<a, "Capital">>]
        <5>1. \A j \in Keys : accounts'[j] = IF j = o THEN Get(k) ELSE accounts[j]
          BY <1>3, <2>1, <2>3, GivingFacts
        <5>2. \A a \in Ids : <<a, "Capital">> \in Keys /\ <<a, "Capital">> # o
          BY <1>3, BothKeys
        <5> QED BY <5>1, <5>2
      <4> QED BY <4>1 DEF MadeCapital
    <3> QED BY <1>2, <3>1, <3>2, WhenReady
  <2>10. \A a \in Doubled' :
            {file[a], accounts'[<<a, "lower">>], accounts'[<<a, "Capital">>]} \subseteq Passes
    BY <1>3, <2>1, <2>3, GivingFacts
  <2>11. server' = "running" /\ file' = file
    BY <1>2 DEF Ready
  <2>12. CacheRight'
    BY <2>6, <2>8, <2>9, <2>10, <2>11 DEF CacheRight, Pending
  <2> QED BY <2>4, <2>5, <2>7, <2>12 DEF FilesRight
<1> QED BY <1>4, <1>5

(* A command that gives an object a passphrase and saves it, a new account *)
(* first without one, takes no passphrase back.                            *)
Saving(k, p) ==
    /\ Giving(k, p)
    /\ SafeToSave(Save(k, p))
    /\ \/ saves' = <<Save(k, p)>>
       \/ /\ file[k[1]] \notin Passes /\ p \in Passes
          /\ saves' = <<Save(k, NoPass), Save(k, p)>>

LEMMA SavingStep ==
    ASSUME PassesAreReal, AccountsIInv, NEW k \in Keys, NEW p \in Passes \cup {NoPass},
           Saving(k, p)
    PROVE  FilesRight'
<1> USE DEF AccountsIInv
<1>1. k[1] \in Ids /\ Giving(k, p)
  BY KeyFacts DEF Saving
<1>2. Save(k, p) \in Entry /\ Save(k, NoPass) \in Entry
  BY <1>1 DEF Save, Entry
<1>3. NoPass \notin Passes
  BY DEF PassesAreReal
<1>4. /\ saves' \in Seq(Entry) /\ saves' # <<>> /\ Len(saves') \in {1, 2}
      /\ DOMAIN saves' = 1 .. Len(saves') /\ saves'[Len(saves')] = Save(k, p)
      /\ \A i \in DOMAIN saves' :
            saves'[i] = Save(k, p) \/ (saves'[i] = Save(k, NoPass) /\ file[k[1]] \notin Passes)
      /\ \A i, j \in DOMAIN saves' :
            i < j => saves'[i] = Save(k, NoPass) /\ saves'[j] = Save(k, p) /\ p \in Passes
  <2>1. CASE saves' = <<Save(k, p)>>
    BY <1>2, <2>1
  <2>2. CASE /\ file[k[1]] \notin Passes /\ p \in Passes
             /\ saves' = <<Save(k, NoPass), Save(k, p)>>
    BY <1>2, <2>2
  <2> QED BY <2>1, <2>2 DEF Saving
<1>5. /\ temp' = <<>> /\ file' = file /\ replaced' = replaced /\ server' = "running"
      /\ Ready /\ Doubled \subseteq Doubled'
  BY <1>1, GivingFacts DEF Giving, Ready
<1>6. FilesTyped'
  BY <1>1, <1>4, <1>5, GivingFacts DEF FilesTyped
<1>7. NeverBack'
  BY <1>5 DEF NeverBack
<1>8. file[k[1]] \notin Passes => replaced[k[1]] = {}
  BY <1>1 DEF NeverBack
<1>9. SavesRight'
  <2>1. ASSUME NEW i \in DOMAIN saves'
        PROVE  /\ saves'[i].id \notin Doubled' => saves'[i].pass \notin replaced[saves'[i].id]
               /\ saves'[i].pass \notin Passes => file[saves'[i].id] \notin Passes
    <3>1. CASE saves'[i] = Save(k, p)
      BY <1>5, <3>1 DEF SafeToSave, Saving, Save
    <3>2. CASE saves'[i] = Save(k, NoPass) /\ file[k[1]] \notin Passes
      BY <1>8, <3>2 DEF Save
    <3> QED BY <1>4, <3>1, <3>2
  <2>2. ASSUME NEW i \in DOMAIN saves', NEW j \in DOMAIN saves', i < j
        PROVE  saves'[i].pass \notin Passes /\ saves'[j].pass \in Passes
    BY <1>3, <1>4, <2>2 DEF Save
  <2> QED BY <1>5, <2>1, <2>2 DEF SavesRight, SafeToSave, Follows
<1>10. CacheRight'
  <2>1. Pending' /\ Latest' = Save(k, p)
    BY <1>4 DEF Pending, Latest
  <2>2. Latest'.id = k[1] /\ Latest'.pass = p /\ \A i \in DOMAIN saves' : saves'[i].id = k[1]
    BY <1>4, <2>1 DEF Save
  <2>3. ASSUME NEW j \in Keys, j[1] \notin Doubled'
        PROVE  accounts'[j] \in {Unloaded, IF j[1] = k[1] THEN p ELSE file[j[1]]}
    <3>1. accounts'[j] = IF j = k THEN p ELSE accounts[j]
      BY <1>1, GivingFacts
    <3>2. j[1] # k[1] => accounts[j] \in {Unloaded, file[j[1]]}
      BY <1>5, <2>3, WhenReady
    <3>3. CASE j[1] # k[1]
      BY <3>1, <3>2, <3>3
    <3>4. CASE j[1] = k[1] /\ j # k
      <4>1. /\ accounts'[<<k[1], "lower">>] = Unloaded \/ accounts'[<<k[1], "Capital">>] = Unloaded
            /\ accounts'[k] = p /\ p # Unloaded
        BY <1>1, <2>3, <3>4, GivingFacts DEF PassesAreReal
      <4>2. \/ j = <<k[1], "lower">> /\ k = <<k[1], "Capital">>
            \/ k = <<k[1], "lower">> /\ j = <<k[1], "Capital">>
        <5>1. j = <<j[1], "lower">> \/ j = <<j[1], "Capital">>
          BY KeyFacts
        <5>2. k = <<k[1], "lower">> \/ k = <<k[1], "Capital">>
          BY KeyFacts
        <5> QED BY <3>4, <5>1, <5>2
      <4> QED BY <4>1, <4>2
    <3>5. CASE j = k
      BY <3>1, <3>5
    <3> QED BY <3>3, <3>4, <3>5
  <2>4. \A a \in Doubled' :
           {file[a], accounts'[<<a, "lower">>], accounts'[<<a, "Capital">>]} \subseteq Passes
    BY <1>1, GivingFacts
  <2>5. \A a \in MadeCapital' : accounts'[<<a, "Capital">>] \in Passes /\ (file[a] \in Passes \/ a = k[1])
    BY <1>1, GivingFacts
  <2> QED BY <1>5, <2>1, <2>2, <2>3, <2>4, <2>5 DEF CacheRight
<1> QED BY <1>6, <1>7, <1>9, <1>10 DEF FilesRight

-----------------------------------------------------------------------------
(* A save moves from the list into its temporary file: the last one that   *)
(* is still to come stays the same.                                        *)
LEMMA WriteTempStep ==
    ASSUME AccountsIInv, WriteTemp
    PROVE  FilesRight'
<1> USE DEF AccountsIInv, WriteTemp
<1>1. saves \in Seq(Entry) /\ saves # <<>> /\ Len(saves) \in Nat \ {0} /\ temp = <<>>
  BY DEF FilesTyped
<1>2. /\ temp' = saves[1] /\ temp' \in Entry /\ temp' # <<>> /\ saves' \in Seq(Entry)
      /\ Len(saves') = Len(saves) - 1
      /\ DOMAIN saves = 1 .. Len(saves) /\ DOMAIN saves' = 1 .. Len(saves')
      /\ \A i \in DOMAIN saves' : saves'[i] = saves[i + 1] /\ i + 1 \in DOMAIN saves
  BY <1>1, EntryThere
<1>3. Doubled' = Doubled /\ MadeCapital' = MadeCapital
  BY DEF Doubled, MadeCapital
<1>4. FilesTyped'
  BY <1>2 DEF FilesTyped
<1>5. NeverBack'
  BY DEF NeverBack
<1>6. SavesRight'
  <2>1. \A i \in DOMAIN saves : SafeToSave(saves[i])
    BY DEF SavesRight
  <2>2. \A i, j \in DOMAIN saves : i < j => Follows(saves[i], saves[j])
    BY DEF SavesRight
  <2>3. 1 \in DOMAIN saves /\ \A i \in DOMAIN saves' : 1 < i + 1
    BY <1>1, <1>2
  <2>4. \A i, j \in DOMAIN saves' : i < j => i + 1 < j + 1
    BY <1>2
  <2>5. SafeToSave(temp') /\ \A i \in DOMAIN saves' : SafeToSave(saves'[i])
    BY <1>2, <2>1, <2>3
  <2>6. /\ \A i \in DOMAIN saves' : Follows(temp', saves'[i])
        /\ \A i, j \in DOMAIN saves' : i < j => Follows(saves'[i], saves'[j])
    BY <1>2, <2>2, <2>3, <2>4
  <2> QED BY <1>3, <2>5, <2>6 DEF SavesRight, SafeToSave, Follows
<1>7. CacheRight'
  <2>1. Pending /\ Pending'
    BY <1>1, <1>2 DEF Pending
  <2>2. Latest = saves[Len(saves)]
    BY <1>1 DEF Latest
  <2>3. Latest' = Latest
    <3>1. CASE Len(saves) = 1
      <4>1. saves' = <<>>
        BY <1>2, <3>1
      <4> QED BY <1>2, <2>2, <3>1, <4>1 DEF Latest
    <3>2. CASE Len(saves) # 1
      <4>1. saves' # <<>> /\ Len(saves') \in DOMAIN saves' /\ Len(saves') + 1 = Len(saves)
        <5>1. Len(saves') \in Nat \ {0} /\ Len(saves') + 1 = Len(saves)
          BY <1>1, <1>2, <3>2
        <5>2. saves' # <<>>
          BY <5>1
        <5> QED BY <1>2, <5>1, <5>2
      <4> QED BY <1>2, <2>2, <4>1 DEF Latest
    <3> QED BY <3>1, <3>2
  <2>4. 1 \in DOMAIN saves
    BY <1>1, <1>2
  <2> QED BY <1>2, <1>3, <2>1, <2>3, <2>4 DEF CacheRight
<1> QED BY <1>4, <1>5, <1>6, <1>7 DEF FilesRight

(* The temporary file becomes the file: what it held before is given up,   *)
(* what it holds now is not, and a save without a passphrase only ever     *)
(* meets a file without one.                                               *)
LEMMA RenameStep ==
    ASSUME PassesAreReal, AccountsIInv, Rename
    PROVE  FilesRight'
<1> USE DEF AccountsIInv, Rename
<1>1. temp \in Entry /\ temp.id \in Ids /\ temp.pass \in Passes \cup {NoPass}
  BY DEF FilesTyped, Entry
<1>2. /\ file' = [file EXCEPT ![temp.id] = temp.pass]
      /\ \A a \in Ids : file'[a] = IF a = temp.id THEN temp.pass ELSE file[a]
  BY <1>1 DEF FilesTyped
<1>3. /\ replaced' \in [Ids -> SUBSET Passes]
      /\ \A a \in Ids :
            replaced'[a] = IF a = temp.id
                           THEN (replaced[a] \cup ({file[a]} \cap Passes)) \ {temp.pass}
                           ELSE replaced[a]
  BY <1>1 DEF FilesTyped
<1>4. SafeToSave(temp)
  BY DEF SavesRight
<1>5. Doubled' = Doubled /\ MadeCapital' = MadeCapital
  BY DEF Doubled, MadeCapital
<1>6. \A a \in Doubled : file[a] \in Passes /\ file'[a] \in Passes
  <2>1. \A a \in Doubled : a \in Ids /\ file[a] \in Passes
    BY DEF CacheRight, Doubled, MadeCapital
  <2>2. temp.id \in Doubled => temp.pass \in Passes
    BY <1>4, <2>1 DEF SafeToSave
  <2> QED BY <1>2, <2>1, <2>2
<1>7. FilesTyped'
  BY <1>1, <1>2, <1>3 DEF FilesTyped
<1>8. NeverBack'
  BY <1>1, <1>2, <1>3, <1>4 DEF NeverBack, SafeToSave, FilesTyped
<1>9. SavesRight'
  <2>1. ASSUME NEW i \in DOMAIN saves
        PROVE  /\ saves[i].id \notin Doubled => saves[i].pass \notin replaced'[saves[i].id]
               /\ saves[i].pass \notin Passes => file'[saves[i].id] \notin Passes
    <3>1. saves[i] \in Entry /\ saves[i].id \in Ids
      <4>1. saves \in Seq(Entry)
        BY DEF FilesTyped
      <4>2. saves[i] \in Entry
        BY <4>1
      <4> QED BY <4>2 DEF Entry
    <3>2. SafeToSave(saves[i]) /\ Follows(temp, saves[i])
      BY DEF SavesRight
    <3>3. CASE saves[i].id # temp.id
      BY <1>2, <1>3, <3>1, <3>2, <3>3 DEF SafeToSave
    <3>4. CASE saves[i].id = temp.id /\ temp.id \notin Doubled
      <4>1. temp.pass \notin Passes /\ saves[i].pass \in Passes
        BY <3>2, <3>4 DEF Follows
      <4>2. file[temp.id] \notin Passes
        BY <1>4, <4>1 DEF SafeToSave
      <4>3. replaced'[temp.id] \subseteq replaced[temp.id]
        BY <1>1, <1>3, <4>2
      <4> QED BY <3>2, <3>4, <4>1, <4>3 DEF SafeToSave
    <3>5. CASE saves[i].id \in Doubled
      BY <1>6, <3>2, <3>5 DEF SafeToSave
    <3> QED BY <3>3, <3>4, <3>5
  <2> QED BY <1>5, <2>1 DEF SavesRight, SafeToSave, Follows
<1>10. CacheRight'
  <2>1. Pending /\ server # "down"
    <3>1. Pending
      BY DEF Pending
    <3> QED BY <3>1 DEF CacheRight
  <2>2. \A a \in Doubled' :
           {file'[a], accounts'[<<a, "lower">>], accounts'[<<a, "Capital">>]} \subseteq Passes
    BY <1>5, <1>6 DEF CacheRight
  <2>3. /\ saves' = saves /\ accounts' = accounts /\ server' = server /\ temp' = <<>>
        /\ Latest = IF saves # <<>> THEN saves[Len(saves)] ELSE temp
    BY DEF Latest
  <2>4. server = "running" =>
           /\ temp.id = Latest.id
           /\ \A i \in DOMAIN saves : saves[i].id = Latest.id
           /\ \A k \in Keys : k[1] \notin Doubled =>
                 accounts[k] \in {Unloaded, IF k[1] = Latest.id THEN Latest.pass ELSE file[k[1]]}
           /\ \A a \in MadeCapital : /\ accounts[<<a, "Capital">>] \in Passes
                                     /\ file[a] \in Passes \/ a = Latest.id
    BY <2>1 DEF CacheRight
  <2>5. CASE saves # <<>>
    <3>1. Pending' /\ Latest' = Latest
      BY <2>3, <2>5 DEF Pending, Latest
    <3>2. server = "running" => \A a \in Ids : a # Latest.id => file'[a] = file[a]
      BY <1>2, <2>4
    <3>3. server = "running" =>
             /\ \A k \in Keys : k[1] \notin Doubled =>
                   accounts[k] \in {Unloaded, IF k[1] = Latest.id THEN Latest.pass ELSE file'[k[1]]}
             /\ \A a \in MadeCapital : file'[a] \in Passes \/ a = Latest.id
      BY <2>4, <3>2, KeyFacts DEF MadeCapital
    <3> QED BY <1>5, <2>1, <2>2, <2>3, <2>4, <3>1, <3>3 DEF CacheRight
  <2>6. CASE saves = <<>>
    <3>1. ~Pending' /\ Latest = temp
      BY <2>3, <2>6 DEF Pending
    <3>2. server = "running" =>
             \A k \in Keys : k[1] \notin Doubled => accounts[k] \in {Unloaded, file'[k[1]]}
      BY <1>2, <2>4, <3>1, KeyFacts
    <3>3. server = "running" => \A a \in MadeCapital : file'[a] \in Passes
      <4> SUFFICES ASSUME server = "running", NEW a \in MadeCapital PROVE file'[a] \in Passes
        OBVIOUS
      <4>1. a \in Ids /\ accounts[<<a, "Capital">>] \in Passes /\ accounts[<<a, "Capital">>] # Unloaded
        BY <2>4 DEF MadeCapital
      <4>2. CASE a \in Doubled
        BY <1>6, <4>2
      <4>3. CASE a \notin Doubled
        <5>1. accounts[<<a, "Capital">>] \in {Unloaded, file'[a]}
          BY <3>2, <4>1, <4>3, BothKeys
        <5> QED BY <4>1, <5>1
      <4> QED BY <4>2, <4>3
    <3> QED BY <1>5, <2>1, <2>2, <2>3, <2>4, <2>6, <3>1, <3>2, <3>3 DEF CacheRight
  <2> QED BY <2>5, <2>6
<1> QED BY <1>7, <1>8, <1>9, <1>10 DEF FilesRight

-----------------------------------------------------------------------------
(* A crash, or the end of a shutdown, ends every dialogue and forgets every*)
(* object; the files stay as they are.                                     *)
LEMMA ForgetDialogues == ASSUME AccountsIInv, Forget PROVE DialoguesTyped' /\ KeysLoaded'
BY DEF Forget, DialoguesTyped, Dialogue, DialogueFits, KeysLoaded, LoggedIn, Off, Places

LEMMA ForgetKeys == ASSUME Forget PROVE MadeCapital' = {} /\ Doubled' = {}
BY BothKeys DEF Forget, MadeCapital, Doubled

LEMMA DownStep ==
    ASSUME AccountsIInv, Crash \/ Stopped
    PROVE  FilesRight'
<1>1. /\ Forget /\ server' = "down" /\ saves' = <<>> /\ temp' = <<>>
      /\ UNCHANGED <<file, replaced>>
  BY DEF Crash, Stopped
<1>2. FilesTyped'
  <2>1. accounts' \in [Keys -> Passes \cup {NoPass, Unloaded}]
    BY <1>1 DEF Forget
  <2>2. saves' \in Seq(Entry)
    BY <1>1
  <2> QED BY <1>1, <2>1, <2>2 DEF AccountsIInv, FilesTyped
<1>3. NeverBack'
  BY <1>1 DEF AccountsIInv, NeverBack
<1>4. SavesRight'
  BY <1>1 DEF SavesRight
<1>5. CacheRight'
  BY <1>1, ForgetKeys DEF CacheRight, Pending, Forget
<1> QED BY <1>2, <1>3, <1>4, <1>5 DEF FilesRight

LEMMA StartStep ==
    ASSUME AccountsIInv, Start
    PROVE  FilesRight'
<1> USE DEF AccountsIInv, Start
<1>1. saves = <<>> /\ temp = <<>> /\ \A k \in Keys : accounts[k] = Unloaded
  BY DEF CacheRight, Pending
<1>2. MadeCapital' = {} /\ Doubled' = {}
  BY <1>1, BothKeys DEF MadeCapital, Doubled
<1>3. FilesTyped' /\ NeverBack'
  BY DEF FilesTyped, NeverBack
<1>4. SavesRight'
  BY <1>1 DEF SavesRight
<1>5. CacheRight'
  BY <1>1, <1>2 DEF CacheRight, Pending
<1> QED BY <1>3, <1>4, <1>5 DEF FilesRight

(* The shutdown saves some of the objects, each once: every one that is    *)
(* its account's only one has what the file has already.                   *)
LEMMA ShutdownStep ==
    ASSUME PassesAreReal, AccountsIInv, Shutdown
    PROVE  FilesRight'
<1> USE DEF AccountsIInv
<1> DEFINE L == {k \in Keys : accounts[k] # Unloaded}
<1>1. PICK n \in 0 .. Cardinality(L) : \E s \in [1 .. n -> L] :
          /\ \A i, j \in 1 .. n : i # j => s[i] # s[j]
          /\ saves' = [i \in 1 .. n |-> Save(s[i], accounts[s[i]])]
  BY DEF Shutdown
<1>2. n \in Nat
  <2>1. IsFiniteSet({"lower", "Capital"})
    <3>1. IsFiniteSet({"lower"})
      BY FS_Singleton
    <3>2. IsFiniteSet({"lower"} \cup {"Capital"})
      BY <3>1, FS_AddElement
    <3> QED BY <3>2, {"lower", "Capital"} = {"lower"} \cup {"Capital"}
  <2>2. IsFiniteSet(L)
    BY <2>1, FS_Product, FS_Subset DEF PassesAreReal, Keys
  <2>3. Cardinality(L) \in Nat
    BY <2>2, FS_CardinalityType
  <2> QED BY <2>3
<1>3. PICK s \in [1 .. n -> L] :
          /\ \A i, j \in 1 .. n : i # j => s[i] # s[j]
          /\ saves' = [i \in 1 .. n |-> Save(s[i], accounts[s[i]])]
  BY <1>1
<1>4. /\ \A k \in Keys : k[1] \notin Doubled => accounts[k] \in {Unloaded, file[k[1]]}
      /\ \A a \in Doubled : accounts[<<a, "lower">>] \in Passes /\ accounts[<<a, "Capital">>] \in Passes
  BY WhenReady DEF Shutdown, CacheRight
<1>5. ASSUME NEW k \in L
      PROVE  /\ k[1] \in Ids /\ Save(k, accounts[k]) \in Entry
             /\ SafeToSave(Save(k, accounts[k]))
  <2>1. k[1] \in Ids /\ (k = <<k[1], "lower">> \/ k = <<k[1], "Capital">>)
    BY KeyFacts
  <2>2. accounts[k] \in Passes \cup {NoPass}
    BY DEF FilesTyped
  <2>3. k[1] \notin Doubled => accounts[k] = file[k[1]]
    BY <1>4
  <2>4. k[1] \in Doubled => accounts[k] \in Passes
    BY <1>4, <2>1
  <2> QED BY <2>1, <2>2, <2>3, <2>4 DEF Save, Entry, SafeToSave, NeverBack
<1>6. /\ DOMAIN saves' = 1 .. n /\ saves' \in Seq(Entry)
      /\ \A i \in 1 .. n : saves'[i] = Save(s[i], accounts[s[i]])
  <2>1. \A i \in 1 .. n : Save(s[i], accounts[s[i]]) \in Entry
    BY <1>3, <1>5
  <2>2. saves' \in [1 .. n -> Entry]
    BY <1>3, <2>1
  <2> QED BY <1>2, <1>3, <2>2
<1>7. /\ server' = "stopping" /\ temp' = <<>>
      /\ UNCHANGED <<file, replaced, accounts>>
  BY DEF Shutdown, Ready
<1>8. Doubled' = Doubled /\ MadeCapital' = MadeCapital
  BY <1>7 DEF Doubled, MadeCapital
<1>9. FilesTyped'
  BY <1>6, <1>7 DEF FilesTyped
<1>10. NeverBack'
  BY <1>7 DEF NeverBack
<1>11. SavesRight'
  <2>1. ASSUME NEW i \in 1 .. n PROVE SafeToSave(saves'[i])
    BY <1>3, <1>5, <1>6
  <2>2. ASSUME NEW i \in 1 .. n, NEW j \in 1 .. n, i < j
        PROVE  Follows(saves'[i], saves'[j])
    <3>1. s[i] # s[j] /\ s[i] \in L /\ s[j] \in L
      BY <1>2, <1>3, <2>2
    <3>2. s[i][1] = s[j][1] => s[i][1] \in Doubled
      <4> SUFFICES ASSUME s[i][1] = s[j][1] PROVE s[i][1] \in Doubled
        OBVIOUS
      <4> DEFINE a == s[i][1]
      <4>1. s[i] = <<a, "lower">> \/ s[i] = <<a, "Capital">>
        BY <3>1, KeyFacts
      <4>2. s[j] = <<a, "lower">> \/ s[j] = <<a, "Capital">>
        <5>1. s[j] = <<s[j][1], "lower">> \/ s[j] = <<s[j][1], "Capital">>
          BY <3>1, KeyFacts
        <5> QED BY <5>1
      <4>3. accounts[<<a, "lower">>] # Unloaded /\ accounts[<<a, "Capital">>] # Unloaded
        BY <3>1, <4>1, <4>2
      <4> QED BY <1>5, <3>1, <4>3 DEF Doubled, MadeCapital
    <3> QED BY <1>6, <3>2 DEF Follows, Save
  <2> QED BY <1>6, <1>7, <1>8, <2>1, <2>2 DEF SavesRight, SafeToSave, Follows
<1>12. CacheRight'
  BY <1>7, <1>8 DEF CacheRight
<1> QED BY <1>9, <1>10, <1>11, <1>12 DEF FilesRight

-----------------------------------------------------------------------------
(* The passphrase a new account or a change was given is a real one.       *)
LEMMA ApproveStep ==
    ASSUME PassesAreReal, AccountsIInv, NEW h \in Handlers, Approve(h)
    PROVE  FilesRight'
<1> DEFINE k == mode[h].key
           p == mode[h].pass
<1>1. k \in Keys /\ p \in Passes
  BY DEF AccountsIInv, DialoguesTyped, Dialogue, DialogueFits, Approve, At
<1>2. Ready /\ UNCHANGED <<server, file, temp, replaced>>
  BY DEF Approve, At
<1>3. CASE Get(k) # Unloaded
  <2>1. Loads
    BY <1>1, <1>2, <1>3 DEF Approve, Loads
  <2> QED BY <2>1, LoadsStep
<1>4. CASE Get(k) = Unloaded
  <2>1. file[k[1]] = NoFile /\ k[1] \in Ids /\ accounts[Lower(k)] = Unloaded
    BY <1>1, <1>2, <1>4, GetsTheFile, KeyFacts
  <2>2. file[k[1]] \notin Passes /\ replaced[k[1]] = {}
    BY <2>1 DEF AccountsIInv, NeverBack, PassesAreReal
  <2>3. /\ accounts' = [accounts EXCEPT ![k] = p]
        /\ saves' = <<Save(k, NoPass), Save(k, p)>>
    BY <1>4 DEF Approve
  <2>4. Giving(k, p)
    BY <1>1, <1>2, <2>1, <2>3 DEF Giving
  <2>5. SafeToSave(Save(k, p))
    BY <1>1, <2>2 DEF SafeToSave, Save
  <2>6. Saving(k, p)
    BY <1>1, <2>2, <2>3, <2>4, <2>5 DEF Saving
  <2> QED BY <1>1, <2>6, SavingStep
<1> QED BY <1>3, <1>4

LEMMA ConfirmStep ==
    ASSUME PassesAreReal, AccountsIInv, NEW h \in Handlers, NEW p \in Passes \cup {NoPass},
           Confirm(h, p)
    PROVE  FilesRight'
<1> DEFINE k == mode[h].key
<1>1. k \in Keys /\ mode[h].pass \in Passes /\ accounts[k] # Unloaded
  BY DEF AccountsIInv, DialoguesTyped, Dialogue, DialogueFits, KeysLoaded, LoggedIn, Confirm, At
<1>2. Ready /\ UNCHANGED <<server, file, temp, replaced>> /\ p \notin replaced[k[1]]
  BY DEF Confirm, At
<1>3. CASE p = mode[h].pass
  <2>1. accounts' = [accounts EXCEPT ![k] = p] /\ saves' = <<Save(k, p)>>
    BY <1>3 DEF Confirm
  <2>2. Giving(k, p)
    BY <1>1, <1>2, <1>3, <2>1 DEF Giving
  <2>3. SafeToSave(Save(k, p))
    BY <1>1, <1>2, <1>3 DEF SafeToSave, Save
  <2>4. Saving(k, p)
    BY <2>1, <2>2, <2>3 DEF Saving
  <2> QED BY <1>1, <1>3, <2>4, SavingStep
<1>4. CASE p # mode[h].pass
  <2>1. UNCHANGED <<accounts, saves>>
    BY <1>4 DEF Confirm
  <2> QED BY <1>2, <2>1, SameStep
<1> QED BY <1>3, <1>4

(* `admin grant' saves what the file has already, but for an account with  *)
(* two objects.                                                            *)
LEMMA AdminStep ==
    ASSUME PassesAreReal, AccountsIInv, NEW k \in Keys, Admin(k)
    PROVE  FilesRight'
<1> DEFINE p == Get(k)
           o == Lower(k)
<1>1. /\ Ready /\ UNCHANGED <<server, file, temp, replaced>> /\ p # Unloaded
      /\ accounts' = [accounts EXCEPT ![o] = p] /\ saves' = <<Save(k, p)>>
  BY DEF Admin, Loaded
<1>2. /\ k[1] \in Ids /\ o \in Keys /\ o[1] = k[1] /\ o[2] = "lower"
      /\ Save(o, p) = Save(k, p)
  BY KeyFacts DEF Save
<1>3. /\ p \in Passes \cup {NoPass}
      /\ k[1] \notin Doubled => p = file[k[1]]
      /\ k[1] \in MadeCapital => p \in Passes
  BY <1>1, GetsTheFile
<1>4. k[1] \in Doubled => p \in Passes
  BY <1>3 DEF Doubled
<1>5. p \notin Passes => file[k[1]] \notin Passes
  BY <1>3, <1>4
<1>6. Giving(o, p)
  BY <1>1, <1>2, <1>3, <1>5 DEF Giving
<1>7. SafeToSave(Save(o, p))
  BY <1>2, <1>3, <1>5 DEF SafeToSave, Save, AccountsIInv, NeverBack
<1>8. Saving(o, p)
  BY <1>1, <1>2, <1>6, <1>7 DEF Saving
<1> QED BY <1>2, <1>3, <1>8, SavingStep

(* Every other command at most loads an object.                            *)
Others(h) ==
    \/ Connect(h) \/ Disconnect(h) \/ NewAccount(h) \/ Disapprove(h) \/ ChangePass(h)
    \/ \E k \in Typed : NewId(h, k)
    \/ \E line \in {"good", "bad", "empty"} : NewEmail(h, line)
    \/ \E p \in Passes : LoginPass(h, p) \/ NewPass(h, p) \/ NewCheck(h, p)
    \/ \E p \in Passes \cup {NoPass} : Challenge(h, p) \/ Select(h, p)

LEMMA OthersSame ==
    ASSUME NEW h \in Handlers, Others(h)
    PROVE  UNCHANGED <<server, file, temp, accounts, saves, replaced>>
BY DEF Others, Connect, Disconnect, NewAccount, Disapprove, ChangePass, NewId, NewEmail,
       LoginPass, NewPass, NewCheck, Challenge, Select

LEMMA LoginNameLoads ==
    ASSUME NEW h \in Handlers, NEW k \in Typed, LoginName(h, k)
    PROVE  \/ Loads
           \/ UNCHANGED <<server, file, temp, accounts, saves, replaced>>
BY TypedKeys DEF LoginName, Loads, At

LEMMA CommandStep ==
    ASSUME PassesAreReal, AccountsIInv, NEW h \in Handlers, Command(h)
    PROVE  FilesRight'
<1>1. CASE Approve(h)
  BY <1>1, ApproveStep
<1>2. ASSUME NEW p \in Passes \cup {NoPass}, Confirm(h, p) PROVE FilesRight'
  BY <1>2, ConfirmStep
<1>3. ASSUME NEW k \in Typed, LoginName(h, k) PROVE FilesRight'
  BY <1>3, LoginNameLoads, LoadsStep, SameStep
<1>4. CASE Others(h)
  BY <1>4, OthersSame, SameStep
<1> QED BY <1>1, <1>2, <1>3, <1>4 DEF Command, Others

-----------------------------------------------------------------------------
(* One dialogue goes on.                                                   *)
LEMMA OneDialogue ==
    ASSUME DialoguesTyped, NEW h \in Handlers, NEW m \in Dialogue, DialogueFits(m),
           mode' = [mode EXCEPT ![h] = m]
    PROVE  DialoguesTyped'
BY DEF DialoguesTyped

(* Every command leaves its connection in a dialogue that has the account  *)
(* and the passphrase it goes on with.                                     *)
LEMMA DialogueStep ==
    ASSUME PassesAreReal, DialoguesTyped, NEW h \in Handlers, Command(h)
    PROVE  DialoguesTyped'
<1> DEFINE m == mode[h]
<1>1. /\ m \in Dialogue /\ DialogueFits(m) /\ Off \in Dialogue /\ m.tries + 1 \in Nat
      /\ m = [at |-> m.at, key |-> m.key, pass |-> m.pass, email |-> m.email, tries |-> m.tries]
  <2>1. m \in Dialogue /\ DialogueFits(m) /\ Off \in Dialogue
    BY DEF DialoguesTyped, Dialogue, Off, Places
  <2>2. /\ m.tries \in Nat
        /\ m = [at |-> m.at, key |-> m.key, pass |-> m.pass, email |-> m.email, tries |-> m.tries]
    BY <2>1 DEF Dialogue
  <2> QED BY <2>1, <2>2
<1>2. \A k \in Typed : k \in Keys /\ Lower(k) \in Keys
  BY TypedKeys, KeyFacts
<1>3. ASSUME NEW d \in Dialogue, DialogueFits(d), mode' = [mode EXCEPT ![h] = d]
      PROVE  DialoguesTyped'
  BY <1>3, OneDialogue
<1>4. ASSUME NEW at \in Places, Goes(h, at), DialogueFits([m EXCEPT !.at = at])
      PROVE  DialoguesTyped'
  <2>1. [m EXCEPT !.at = at] \in Dialogue
    BY <1>1 DEF Dialogue
  <2>2. mode' = [mode EXCEPT ![h] = [m EXCEPT !.at = at]]
    BY <1>4 DEF Goes
  <2> QED BY <1>3, <1>4, <2>1, <2>2
<1> USE <1>1 DEF At, DialogueFits, LoggedIn
<1>5. ASSUME NewAccount(h) \/ Connect(h) \/ Disconnect(h) PROVE DialoguesTyped'
  <2>1. CASE Disconnect(h)
    BY <1>3, <2>1 DEF Disconnect, Off
  <2>2. ASSUME NEW at \in {"name", "new id"}, mode' = [mode EXCEPT ![h] = [Off EXCEPT !.at = at]]
        PROVE  DialoguesTyped'
    BY <1>3, <2>2 DEF Off, Dialogue, Places
  <2> QED BY <1>5, <2>1, <2>2 DEF NewAccount, Connect
<1>6. ASSUME Disapprove(h) \/ ChangePass(h) PROVE DialoguesTyped'
  BY <1>4, <1>6 DEF Disapprove, ChangePass, Places
<1>7. ASSUME Approve(h) PROVE DialoguesTyped'
  <2>1. CASE Get(m.key) # Unloaded
    BY <1>4, <1>7, <2>1 DEF Approve, Places
  <2>2. CASE Get(m.key) = Unloaded
    <3>1. mode' = [mode EXCEPT ![h] = [Off EXCEPT !.at = "menu", !.key = m.key]]
      BY <1>7, <2>2 DEF Approve
    <3> QED BY <1>3, <1>7, <3>1 DEF Approve, Off, Dialogue, Places
  <2> QED BY <2>1, <2>2
<1>8. ASSUME NEW k \in Typed, LoginName(h, k) PROVE DialoguesTyped'
  <2> DEFINE d == [m EXCEPT !.at = "pass", !.key = IF Exists(k) THEN Lower(k) ELSE <<>>]
  <2>1. mode' = [mode EXCEPT ![h] = d]
    BY <1>8 DEF LoginName
  <2>2. d \in Dialogue /\ d.at = "pass"
    BY <1>2 DEF Dialogue, Places
  <2> HIDE DEF d
  <2> QED BY <1>3, <2>1, <2>2
<1>9. ASSUME NEW k \in Typed, NewId(h, k) PROVE DialoguesTyped'
  <2> DEFINE d == [m EXCEPT !.at = "new email", !.key = k]
  <2>1. mode' = [mode EXCEPT ![h] = d]
    BY <1>9 DEF NewId
  <2>2. d \in Dialogue /\ d.at = "new email" /\ d.key = k
    BY <1>2 DEF Dialogue, Places
  <2> HIDE DEF d
  <2> QED BY <1>2, <1>3, <2>1, <2>2
<1>10. ASSUME NEW line \in {"good", "bad", "empty"}, NewEmail(h, line) PROVE DialoguesTyped'
  <2> DEFINE d == [m EXCEPT !.email = (m.email \/ line = "good") /\ line # "bad",
                            !.at = IF (m.email \/ line = "good") /\ line # "bad"
                                   THEN "new pass" ELSE "new email"]
  <2>1. mode' = [mode EXCEPT ![h] = d]
    BY <1>10 DEF NewEmail
  <2>2. d \in Dialogue /\ d.at \in {"new pass", "new email"} /\ d.key = m.key
    BY DEF Dialogue, Places
  <2>3. m.key \in Keys
    BY <1>10 DEF NewEmail
  <2> HIDE DEF d
  <2> QED BY <1>3, <2>1, <2>2, <2>3
<1>11. ASSUME NEW p \in Passes, LoginPass(h, p) PROVE DialoguesTyped'
  <2>1. CASE m.key # <<>> /\ Matches(m.key, p)
    <3> DEFINE d == [Off EXCEPT !.at = "menu", !.key = m.key]
    <3>1. mode' = [mode EXCEPT ![h] = d]
      BY <1>11, <2>1 DEF LoginPass
    <3>2. d \in Dialogue /\ d.at = "menu" /\ d.key \in Keys
      BY <2>1 DEF Off, Dialogue, Places
    <3> HIDE DEF d
    <3> QED BY <1>3, <3>1, <3>2
  <2>2. CASE ~(m.key # <<>> /\ Matches(m.key, p)) /\ m.tries = 2
    <3>1. mode' = [mode EXCEPT ![h] = Off]
      BY <1>11, <2>2 DEF LoginPass
    <3> QED BY <1>3, <3>1 DEF Off
  <2>3. CASE ~(m.key # <<>> /\ Matches(m.key, p)) /\ m.tries # 2
    <3> DEFINE d == [Off EXCEPT !.at = "name", !.tries = m.tries + 1]
    <3>1. mode' = [mode EXCEPT ![h] = d]
      BY <1>11, <2>3 DEF LoginPass
    <3>2. d \in Dialogue /\ d.at = "name"
      BY DEF Off, Dialogue, Places
    <3> HIDE DEF d
    <3> QED BY <1>3, <3>1, <3>2
  <2> QED BY <2>1, <2>2, <2>3
<1>12. ASSUME NEW p \in Passes, NewPass(h, p) PROVE DialoguesTyped'
  <2> DEFINE d == [m EXCEPT !.at = "new check", !.pass = p]
  <2>1. mode' = [mode EXCEPT ![h] = d]
    BY <1>12 DEF NewPass
  <2>2. d \in Dialogue /\ d.at = "new check" /\ d.key = m.key /\ d.pass = p
    BY DEF Dialogue, Places
  <2>3. m.key \in Keys
    BY <1>12 DEF NewPass
  <2> HIDE DEF d
  <2> QED BY <1>3, <2>1, <2>2, <2>3
<1>13. ASSUME NEW p \in Passes, NewCheck(h, p) PROVE DialoguesTyped'
  BY <1>4, <1>13 DEF NewCheck, Places
<1>14. ASSUME NEW p \in Passes \cup {NoPass}, Challenge(h, p) PROVE DialoguesTyped'
  BY <1>4, <1>14 DEF Challenge, Places
<1>15. ASSUME NEW p \in Passes \cup {NoPass}, Select(h, p) PROVE DialoguesTyped'
  <2>1. CASE p = NoPass
    BY <1>4, <1>15, <2>1 DEF Select, Places
  <2>2. CASE p # NoPass
    <3> DEFINE d == [m EXCEPT !.at = "confirm", !.pass = p]
    <3>1. mode' = [mode EXCEPT ![h] = d]
      BY <1>15, <2>2 DEF Select
    <3>2. d \in Dialogue /\ d.at = "confirm" /\ d.key = m.key /\ d.pass \in Passes
      BY <2>2 DEF Dialogue, Places
    <3>3. m.key \in Keys
      BY <1>15 DEF Select
    <3> HIDE DEF d
    <3> QED BY <1>3, <3>1, <3>2, <3>3
  <2> QED BY <2>1, <2>2
<1>16. ASSUME NEW p \in Passes \cup {NoPass}, Confirm(h, p) PROVE DialoguesTyped'
  <2>1. mode' = [mode EXCEPT ![h] = [Off EXCEPT !.at = "menu", !.key = m.key]]
    BY <1>16 DEF Confirm
  <2>2. m.key \in Keys
    BY <1>16 DEF Confirm
  <2> QED BY <1>3, <2>1, <2>2 DEF Off, Dialogue, Places
<1> QED BY <1>5, <1>6, <1>7, <1>8, <1>9, <1>10, <1>11, <1>12, <1>13, <1>14, <1>15, <1>16 DEF Command

-----------------------------------------------------------------------------
(* No command drops an object.                                             *)
LEMMA ObjectsStay ==
    ASSUME PassesAreReal, AccountsIInv, NEW k \in Keys, accounts[k] # Unloaded,
           \/ UNCHANGED accounts
           \/ \E j \in Keys, p \in Passes : accounts' = [accounts EXCEPT ![j] = p]
           \/ Ready /\ \E j \in Keys : Loaded(j)
    PROVE  accounts'[k] # Unloaded
<1>1. accounts \in [Keys -> Passes \cup {NoPass, Unloaded}] /\ Unloaded \notin Passes
  BY DEF AccountsIInv, FilesTyped, PassesAreReal
<1>2. CASE UNCHANGED accounts
  BY <1>2
<1>3. ASSUME NEW j \in Keys, NEW p \in Passes, accounts' = [accounts EXCEPT ![j] = p]
      PROVE  accounts'[k] # Unloaded
  BY <1>1, <1>3
<1>4. ASSUME Ready, NEW j \in Keys, Loaded(j)
      PROVE  accounts'[k] # Unloaded
  <2>1. Lower(j) \in Keys /\ accounts' = [accounts EXCEPT ![Lower(j)] = Get(j)]
    BY <1>4, KeyFacts DEF Loaded
  <2>2. accounts[Lower(j)] # Unloaded => Get(j) = accounts[Lower(j)]
    BY DEF Get
  <2> QED BY <1>1, <2>1, <2>2
<1> QED BY <1>2, <1>3, <1>4

LEMMA CommandKeeps ==
    ASSUME PassesAreReal, AccountsIInv, NEW h \in Handlers, Command(h)
    PROVE  \/ UNCHANGED accounts
           \/ \E j \in Keys, p \in Passes : accounts' = [accounts EXCEPT ![j] = p]
           \/ Ready /\ \E j \in Keys : Loaded(j)
<1>1. CASE Approve(h)
  <2>1. Ready /\ mode[h].key \in Keys /\ mode[h].pass \in Passes
    BY <1>1 DEF AccountsIInv, DialoguesTyped, Dialogue, DialogueFits, Approve, At
  <2> QED BY <1>1, <2>1 DEF Approve
<1>2. ASSUME NEW p \in Passes \cup {NoPass}, Confirm(h, p)
      PROVE  UNCHANGED accounts \/ \E j \in Keys, q \in Passes : accounts' = [accounts EXCEPT ![j] = q]
  <2>1. mode[h].key \in Keys /\ mode[h].pass \in Passes
    BY <1>2 DEF AccountsIInv, DialoguesTyped, Dialogue, DialogueFits, LoggedIn, Confirm, At
  <2> QED BY <1>2, <2>1 DEF Confirm
<1>3. ASSUME NEW k \in Typed, LoginName(h, k)
      PROVE  UNCHANGED accounts \/ (Ready /\ \E j \in Keys : Loaded(j))
  BY <1>3, TypedKeys DEF LoginName, At
<1>4. CASE Others(h)
  BY <1>4, OthersSame
<1> QED BY <1>1, <1>2, <1>3, <1>4 DEF Command, Others

(* Who is logged in after a command was so before, has just given the      *)
(* passphrase, or has just made the account.                               *)
LEMMA WhoIsLoggedIn ==
    ASSUME PassesAreReal, AccountsIInv, NEW h \in Handlers, Command(h)
    PROVE  /\ \A g \in Handlers : g # h => mode'[g] = mode[g]
           /\ mode'[h].at \in LoggedIn =>
                 \/ mode[h].at \in LoggedIn /\ mode'[h].key = mode[h].key
                 \/ /\ mode'[h].key = mode[h].key /\ mode[h].key \in Keys
                    /\ accounts[mode[h].key] \in Passes
                 \/ /\ mode'[h].key = mode[h].key /\ mode[h].key \in Keys
                    /\ accounts' = [accounts EXCEPT ![mode[h].key] = mode[h].pass]
                    /\ mode[h].pass \in Passes
<1> DEFINE m == mode[h]
<1>1. mode \in [Handlers -> Dialogue] /\ m \in Dialogue /\ DialogueFits(m)
  BY DEF AccountsIInv, DialoguesTyped
<1>2. m = [at |-> m.at, key |-> m.key, pass |-> m.pass, email |-> m.email, tries |-> m.tries]
  BY <1>1 DEF Dialogue
<1>3. ASSUME NEW d, mode' = [mode EXCEPT ![h] = d]
      PROVE  mode'[h] = d /\ \A g \in Handlers : g # h => mode'[g] = mode[g]
  BY <1>1, <1>3
<1> USE DEF At, LoggedIn
<1>4. CASE Connect(h) \/ Disconnect(h) \/ NewAccount(h)
  <2>1. PICK at \in {"off", "name", "new id"} : mode' = [mode EXCEPT ![h] = [Off EXCEPT !.at = at]]
    BY <1>4 DEF Connect, Disconnect, NewAccount, Off
  <2> QED BY <1>3, <2>1 DEF Off
<1>5. CASE Disapprove(h) \/ ChangePass(h)
  <2>1. PICK at \in {"new id", "challenge"} :
           /\ at = "challenge" => m.at = "menu"
           /\ mode' = [mode EXCEPT ![h] = [m EXCEPT !.at = at]]
    BY <1>5 DEF Disapprove, ChangePass, Goes
  <2> QED BY <1>2, <1>3, <2>1
<1>6. CASE Approve(h)
  <2>1. CASE Get(m.key) # Unloaded
    <3>1. mode' = [mode EXCEPT ![h] = [m EXCEPT !.at = "new id"]]
      BY <1>6, <2>1 DEF Approve, Goes
    <3> QED BY <1>2, <1>3, <3>1
  <2>2. CASE Get(m.key) = Unloaded
    <3>1. /\ mode' = [mode EXCEPT ![h] = [Off EXCEPT !.at = "menu", !.key = m.key]]
          /\ accounts' = [accounts EXCEPT ![m.key] = m.pass]
      BY <1>6, <2>2 DEF Approve
    <3>2. m.key \in Keys /\ m.pass \in Passes
      BY <1>1, <1>6 DEF Approve, DialogueFits
    <3> QED BY <1>3, <3>1, <3>2 DEF Off
  <2> QED BY <2>1, <2>2
<1>7. ASSUME NEW k \in Typed, LoginName(h, k)
      PROVE  (\A g \in Handlers : g # h => mode'[g] = mode[g]) /\ mode'[h].at \notin LoggedIn
  <2> DEFINE d == [m EXCEPT !.at = "pass", !.key = IF Exists(k) THEN Lower(k) ELSE <<>>]
  <2>1. mode' = [mode EXCEPT ![h] = d]
    BY <1>7 DEF LoginName
  <2>2. d.at = "pass"
    BY <1>2
  <2> HIDE DEF d
  <2> QED BY <1>3, <2>1, <2>2
<1>8. ASSUME NEW k \in Typed, NewId(h, k)
      PROVE  (\A g \in Handlers : g # h => mode'[g] = mode[g]) /\ mode'[h].at \notin LoggedIn
  <2> DEFINE d == [m EXCEPT !.at = "new email", !.key = k]
  <2>1. mode' = [mode EXCEPT ![h] = d]
    BY <1>8 DEF NewId
  <2>2. d.at = "new email"
    BY <1>2
  <2> HIDE DEF d
  <2> QED BY <1>3, <2>1, <2>2
<1>9. ASSUME NEW line \in {"good", "bad", "empty"}, NewEmail(h, line)
      PROVE  (\A g \in Handlers : g # h => mode'[g] = mode[g]) /\ mode'[h].at \notin LoggedIn
  <2>1. PICK at \in {"new pass", "new email"}, e \in BOOLEAN :
           mode' = [mode EXCEPT ![h] = [m EXCEPT !.email = e, !.at = at]]
    <3>1. m.email \in BOOLEAN
      BY <1>1 DEF Dialogue
    <3> QED BY <1>9, <3>1 DEF NewEmail
  <2> QED BY <1>2, <1>3, <2>1
<1>10. ASSUME NEW p \in Passes, NewPass(h, p) \/ NewCheck(h, p)
       PROVE  (\A g \in Handlers : g # h => mode'[g] = mode[g]) /\ mode'[h].at \notin LoggedIn
  <2>1. PICK at \in {"new check", "approve", "new pass"}, q \in Passes \cup {m.pass} :
           mode' = [mode EXCEPT ![h] = [m EXCEPT !.at = at, !.pass = q]]
    <3>1. CASE NewPass(h, p)
      BY <3>1 DEF NewPass
    <3>2. CASE NewCheck(h, p)
      <4>1. PICK at \in {"new check", "approve", "new pass"} : mode' = [mode EXCEPT ![h] = [m EXCEPT !.at = at]]
        BY <3>2 DEF NewCheck, Goes
      <4>2. [m EXCEPT !.at = at] = [m EXCEPT !.at = at, !.pass = m.pass]
        BY <1>2
      <4> QED BY <4>1, <4>2
    <3> QED BY <1>10, <3>1, <3>2
  <2> QED BY <1>2, <1>3, <2>1
<1>11. ASSUME NEW p \in Passes, LoginPass(h, p)
       PROVE  /\ \A g \in Handlers : g # h => mode'[g] = mode[g]
              /\ mode'[h].at \in LoggedIn => /\ mode'[h].key = m.key /\ m.key \in Keys
                                             /\ accounts[m.key] \in Passes
  <2>1. CASE m.key # <<>> /\ Matches(m.key, p)
    <3>1. mode' = [mode EXCEPT ![h] = [Off EXCEPT !.at = "menu", !.key = m.key]]
      BY <1>11, <2>1 DEF LoginPass
    <3>2. m.key \in Keys /\ accounts[m.key] = p
      BY <1>1, <2>1 DEF Dialogue, Matches
    <3> QED BY <1>3, <3>1, <3>2 DEF Off
  <2>2. CASE ~(m.key # <<>> /\ Matches(m.key, p))
    <3>1. PICK at \in {"off", "name"}, n \in {0, m.tries + 1} : mode' = [mode EXCEPT ![h] = [Off EXCEPT !.at = at, !.tries = n]]
      BY <1>11, <2>2 DEF LoginPass, Off
    <3> QED BY <1>3, <3>1 DEF Off
  <2> QED BY <2>1, <2>2
<1>12. ASSUME NEW p \in Passes \cup {NoPass}, Challenge(h, p) \/ Select(h, p) \/ Confirm(h, p)
       PROVE  /\ \A g \in Handlers : g # h => mode'[g] = mode[g]
              /\ m.at \in LoggedIn /\ mode'[h].key = m.key
  <2>1. m.at \in LoggedIn
    BY <1>12 DEF Challenge, Select, Confirm
  <2>2. CASE Confirm(h, p)
    <3>1. mode' = [mode EXCEPT ![h] = [Off EXCEPT !.at = "menu", !.key = m.key]]
      BY <2>2 DEF Confirm
    <3> QED BY <1>3, <2>1, <3>1 DEF Off
  <2>3. ASSUME NEW at, Goes(h, at)
        PROVE  (\A g \in Handlers : g # h => mode'[g] = mode[g]) /\ mode'[h].key = m.key
    <3>1. mode' = [mode EXCEPT ![h] = [m EXCEPT !.at = at]]
      BY <2>3 DEF Goes
    <3> QED BY <1>2, <1>3, <3>1
  <2>4. CASE Challenge(h, p)
    BY <2>1, <2>3, <2>4 DEF Challenge
  <2>5. CASE Select(h, p) /\ p = NoPass
    BY <2>1, <2>3, <2>5 DEF Select
  <2>6. CASE Select(h, p) /\ p # NoPass
    <3>1. mode' = [mode EXCEPT ![h] = [m EXCEPT !.at = "confirm", !.pass = p]]
      BY <2>6 DEF Select
    <3> QED BY <1>2, <1>3, <2>1, <3>1
  <2> QED BY <1>12, <2>2, <2>4, <2>5, <2>6
<1> QED BY <1>4, <1>5, <1>6, <1>7, <1>8, <1>9, <1>10, <1>11, <1>12 DEF Command

LEMMA KeysLoadedStep ==
    ASSUME PassesAreReal, AccountsIInv, NEW h \in Handlers, Command(h)
    PROVE  KeysLoaded'
<1>1. \A k \in Keys : accounts[k] # Unloaded => accounts'[k] # Unloaded
  BY ObjectsStay, CommandKeeps
<1>2. ASSUME NEW g \in Handlers, mode[g].at \in LoggedIn
      PROVE  mode[g].key \in Keys /\ accounts'[mode[g].key] # Unloaded
  BY <1>1, <1>2 DEF AccountsIInv, DialoguesTyped, DialogueFits, KeysLoaded
<1>3. Unloaded \notin Passes /\ accounts \in [Keys -> Passes \cup {NoPass, Unloaded}]
  BY DEF PassesAreReal, AccountsIInv, FilesTyped
<1>4. ASSUME NEW g \in Handlers, mode'[g].at \in LoggedIn
      PROVE  accounts'[mode'[g].key] # Unloaded
  <2>1. CASE g # h
    BY <1>2, <1>4, <2>1, WhoIsLoggedIn
  <2>2. CASE g = h
    BY <1>1, <1>2, <1>3, <1>4, <2>2, WhoIsLoggedIn
  <2> QED BY <2>1, <2>2
<1> QED BY <1>4 DEF KeysLoaded

-----------------------------------------------------------------------------
LEMMA StepIInv ==
    ASSUME PassesAreReal, AccountsIInv, [Next]_vars
    PROVE  AccountsIInv'
<1>1. ASSUME NEW h \in Handlers, Command(h) PROVE AccountsIInv'
  <2>1. DialoguesTyped'
    BY <1>1, DialogueStep DEF AccountsIInv
  <2> QED BY <1>1, <2>1, CommandStep, KeysLoadedStep DEF AccountsIInv, FilesRight
<1>2. ASSUME NEW k \in Typed, Admin(k) PROVE AccountsIInv'
  <2>1. k \in Keys
    BY TypedKeys
  <2>2. FilesRight'
    BY <1>2, <2>1, AdminStep
  <2>3. Ready /\ Loaded(k) /\ mode' = mode
    BY <1>2 DEF Admin
  <2>4. \A j \in Keys : accounts[j] # Unloaded => accounts'[j] # Unloaded
    BY <2>1, <2>3, ObjectsStay
  <2>5. KeysLoaded'
    BY <2>3, <2>4 DEF AccountsIInv, KeysLoaded, DialoguesTyped, DialogueFits
  <2> QED BY <2>2, <2>3, <2>5 DEF AccountsIInv, FilesRight, DialoguesTyped
<1>3. ASSUME UNCHANGED <<mode, accounts>> PROVE DialoguesTyped' /\ KeysLoaded'
  BY <1>3 DEF AccountsIInv, DialoguesTyped, KeysLoaded
<1>4. CASE WriteTemp
  BY <1>3, <1>4, WriteTempStep DEF WriteTemp, AccountsIInv, FilesRight
<1>5. CASE Rename
  BY <1>3, <1>5, RenameStep DEF Rename, AccountsIInv, FilesRight
<1>6. CASE Start
  BY <1>3, <1>6, StartStep DEF Start, AccountsIInv, FilesRight
<1>7. CASE Crash \/ Stopped
  BY <1>7, DownStep, ForgetDialogues DEF Crash, Stopped, AccountsIInv, FilesRight
<1>8. CASE Shutdown
  BY <1>3, <1>8, ShutdownStep DEF Shutdown, AccountsIInv, FilesRight
<1>9. CASE UNCHANGED vars
  BY <1>3, <1>9, SameStep DEF vars, AccountsIInv, FilesRight
<1> QED BY <1>1, <1>2, <1>4, <1>5, <1>6, <1>7, <1>8, <1>9 DEF Next

(* The inductive invariant holds in every behaviour, whatever the server,  *)
(* its connections and its crashes do, and however names are typed.        *)
THEOREM AccountsInvariance ==
    ASSUME PassesAreReal
    PROVE  Spec => []AccountsIInv
<1>1. Init => AccountsIInv
  BY InitIInv
<1>2. AccountsIInv /\ [Next]_vars => AccountsIInv'
  BY StepIInv
<1> QED BY <1>1, <1>2, PTL DEF Spec

-----------------------------------------------------------------------------
(* The rename of a save is the creation of an account, the change of its   *)
(* passphrase, its going back to one it used to have, or, where the file   *)
(* has that passphrase already, no step of AccountStore at all.            *)
LEMMA RenameImplements ==
    ASSUME PassesAreReal, AccountsIInv, Rename
    PROVE  [Store!Next]_(Store!vars)
<1> DEFINE a == temp.id
           p == temp.pass
<1>1. temp \in Entry /\ a \in Ids /\ p \in Passes \cup {NoPass} /\ NoPass \notin Passes
  BY DEF AccountsIInv, FilesTyped, Rename, Entry, PassesAreReal
<1>2. file' = [file EXCEPT ![a] = p] /\ file \in [Ids -> Passes \cup {NoPass, NoFile}]
  BY DEF Rename, AccountsIInv, FilesTyped
<1>3. /\ replaced' = [replaced EXCEPT ![a] = (replaced[a] \cup ({file[a]} \cap Passes)) \ {p}]
      /\ replaced \in [Ids -> SUBSET Passes]
  BY DEF Rename, AccountsIInv, FilesTyped
<1>4. (a \notin Doubled => p \notin replaced[a]) /\ (p \notin Passes => file[a] \notin Passes)
  BY DEF Rename, AccountsIInv, SavesRight, SafeToSave
<1>5. file[a] \notin replaced[a] /\ (file[a] \notin Passes => replaced[a] = {})
  BY <1>1 DEF AccountsIInv, NeverBack
<1>6. Stored' = [Stored EXCEPT ![a] = IF p \in Passes THEN p ELSE NoPass]
  BY <1>1, <1>2 DEF Stored
<1>7. Stored[a] = IF file[a] \in Passes THEN file[a] ELSE NoPass
  BY <1>1 DEF Stored
<1>8. MadeCapital' = MadeCapital /\ Doubled' = Doubled
  BY DEF Rename, MadeCapital, Doubled
<1> HIDE DEF a, p
<1>9. CASE file[a] \notin Passes /\ p \in Passes
  <2>1. replaced' = replaced
    BY <1>1, <1>3, <1>5, <1>9
  <2>2. Store!Create(a, p)
    BY <1>1, <1>6, <1>7, <1>8, <1>9, <2>1 DEF Store!Create
  <2> QED BY <1>1, <1>9, <2>2 DEF Store!Next
<1>10. CASE file[a] \in Passes /\ p # file[a] /\ p \notin replaced[a]
  <2>1. p \in Passes
    BY <1>1, <1>4, <1>10
  <2>2. replaced' = [replaced EXCEPT ![a] = replaced[a] \cup {Stored[a]}]
    <3>1. (replaced[a] \cup ({file[a]} \cap Passes)) \ {p} = replaced[a] \cup {Stored[a]}
      BY <1>7, <1>10
    <3> QED BY <1>3, <3>1
  <2>3. Store!Change(a, p)
    BY <1>1, <1>6, <1>7, <1>8, <1>10, <2>1, <2>2 DEF Store!Change
  <2> QED BY <1>1, <2>1, <2>3 DEF Store!Next
<1>11. CASE file[a] \in Passes /\ p # file[a] /\ p \in replaced[a]
  <2>1. p \in Passes /\ a \in Doubled
    BY <1>1, <1>4, <1>11
  <2>2. replaced' = [replaced EXCEPT ![a] = (replaced[a] \cup {Stored[a]}) \ {p}]
    <3>1. (replaced[a] \cup ({file[a]} \cap Passes)) \ {p} = (replaced[a] \cup {Stored[a]}) \ {p}
      BY <1>7, <1>11
    <3> QED BY <1>3, <3>1
  <2>3. Store!GoBack(a, p)
    BY <1>1, <1>6, <1>8, <1>11, <2>1, <2>2 DEF Store!GoBack
  <2> QED BY <1>1, <2>1, <2>3 DEF Store!Next
<1>12. CASE p = file[a] \/ p \notin Passes
  <2>1. replaced' = replaced
    <3>1. (replaced[a] \cup ({file[a]} \cap Passes)) \ {p} = replaced[a]
      BY <1>1, <1>3, <1>4, <1>5, <1>12
    <3> QED BY <1>1, <1>3, <3>1
  <2>2. Stored' = Stored
    BY <1>1, <1>4, <1>6, <1>7, <1>12 DEF Stored
  <2> QED BY <1>8, <2>1, <2>2 DEF Store!vars
<1> QED BY <1>4, <1>9, <1>10, <1>11, <1>12

(* To load an object, or to give it a passphrase, is at most the look-up   *)
(* that doubles an account made under a name with capitals.                *)
LEMMA LowerImplements ==
    ASSUME AccountsIInv, NEW a \in Ids, NEW v, UNCHANGED <<file, replaced>>,
           accounts' = [accounts EXCEPT ![<<a, "lower">>] = v],
           accounts[<<a, "lower">>] # Unloaded => v # Unloaded
    PROVE  [Store!Next]_(Store!vars)
<1>1. Stored' = Stored
  BY DEF Stored
<1>2. \A b \in Ids : /\ <<b, "lower">> \in Keys /\ <<b, "Capital">> \in Keys
                     /\ <<b, "Capital">> # <<a, "lower">> /\ (<<b, "lower">> = <<a, "lower">> => b = a)
  BY DEF Keys
<1>3. /\ \A b \in Ids : accounts'[<<b, "Capital">>] = accounts[<<b, "Capital">>]
      /\ \A b \in Ids : b # a => accounts'[<<b, "lower">>] = accounts[<<b, "lower">>]
      /\ accounts'[<<a, "lower">>] = v
  BY <1>2 DEF AccountsIInv, FilesTyped
<1>4. MadeCapital' = MadeCapital
  BY <1>3 DEF MadeCapital
<1>5. CASE a \in MadeCapital /\ v # Unloaded
  <2>1. Doubled' = Doubled \cup {a}
    BY <1>3, <1>4, <1>5 DEF Doubled, MadeCapital
  <2>2. Store!LookUp(a)
    BY <1>1, <1>4, <1>5, <2>1 DEF Store!LookUp
  <2> QED BY <2>2 DEF Store!Next
<1>6. CASE a \notin MadeCapital \/ v = Unloaded
  <2>1. Doubled' = Doubled
    BY <1>3, <1>4, <1>6 DEF Doubled, MadeCapital
  <2> QED BY <1>1, <1>4, <2>1 DEF Store!vars
<1> QED BY <1>5, <1>6

(* To give an object filed under capitals a passphrase is no step, where   *)
(* there is one; to make it is the beginning of an account.                *)
LEMMA CapitalImplements ==
    ASSUME AccountsIInv, NEW a \in Ids, NEW v, v # Unloaded, UNCHANGED <<file, replaced>>,
           accounts' = [accounts EXCEPT ![<<a, "Capital">>] = v],
           \/ accounts[<<a, "Capital">>] # Unloaded
           \/ accounts[<<a, "lower">>] = Unloaded /\ Stored[a] = NoPass
    PROVE  [Store!Next]_(Store!vars)
<1>1. Stored' = Stored
  BY DEF Stored
<1>2. \A b \in Ids : /\ <<b, "lower">> \in Keys /\ <<b, "Capital">> \in Keys
                     /\ <<b, "lower">> # <<a, "Capital">> /\ (<<b, "Capital">> = <<a, "Capital">> => b = a)
  BY DEF Keys
<1>3. /\ \A b \in Ids : accounts'[<<b, "lower">>] = accounts[<<b, "lower">>]
      /\ \A b \in Ids : b # a => accounts'[<<b, "Capital">>] = accounts[<<b, "Capital">>]
      /\ accounts'[<<a, "Capital">>] = v
  BY <1>2 DEF AccountsIInv, FilesTyped
<1>4. MadeCapital' = MadeCapital \cup {a}
  BY <1>3 DEF MadeCapital
<1>5. CASE accounts[<<a, "Capital">>] # Unloaded
  <2>1. MadeCapital' = MadeCapital
    BY <1>4, <1>5 DEF MadeCapital
  <2>2. Doubled' = Doubled
    BY <1>3, <2>1 DEF Doubled
  <2> QED BY <1>1, <2>1, <2>2 DEF Store!vars
<1>6. CASE accounts[<<a, "lower">>] = Unloaded /\ Stored[a] = NoPass
  <2>1. Doubled' = Doubled
    BY <1>3, <1>4, <1>6 DEF Doubled
  <2>2. Store!Begin(a)
    BY <1>1, <1>4, <1>6, <2>1 DEF Store!Begin
  <2> QED BY <2>2 DEF Store!Next
<1> QED BY <1>5, <1>6

LEMMA LoadsImplements ==
    ASSUME PassesAreReal, AccountsIInv, UNCHANGED <<file, replaced>>, NEW k \in Keys, Loaded(k)
    PROVE  [Store!Next]_(Store!vars)
<1>1. /\ k[1] \in Ids /\ Lower(k) = <<k[1], "lower">>
      /\ accounts' = [accounts EXCEPT ![<<k[1], "lower">>] = Get(k)]
  BY KeyFacts DEF Loaded
<1>2. accounts[<<k[1], "lower">>] # Unloaded => Get(k) # Unloaded
  BY <1>1 DEF Get
<1> QED BY <1>1, <1>2, LowerImplements

LEMMA ApproveImplements ==
    ASSUME PassesAreReal, AccountsIInv, NEW h \in Handlers, Approve(h)
    PROVE  [Store!Next]_(Store!vars)
<1> DEFINE k == mode[h].key
           p == mode[h].pass
<1>1. k \in Keys /\ p \in Passes /\ Ready /\ UNCHANGED <<file, replaced>>
  BY DEF AccountsIInv, DialoguesTyped, Dialogue, DialogueFits, Approve, At
<1>2. p # Unloaded /\ k[1] \in Ids
  BY <1>1, KeyFacts DEF PassesAreReal
<1>3. CASE Get(k) # Unloaded
  BY <1>1, <1>3, LoadsImplements DEF Approve
<1>4. CASE Get(k) = Unloaded
  <2>1. accounts' = [accounts EXCEPT ![k] = p]
    BY <1>4 DEF Approve
  <2>2. file[k[1]] = NoFile /\ accounts[<<k[1], "lower">>] = Unloaded
    BY <1>1, <1>4, GetsTheFile
  <2>3. Stored[k[1]] = NoPass
    BY <1>2, <2>2 DEF Stored, PassesAreReal
  <2>4. k = <<k[1], "lower">> \/ k = <<k[1], "Capital">>
    BY <1>1, KeyFacts
  <2> HIDE DEF k, p
  <2>5. CASE k = <<k[1], "lower">>
    <3>1. accounts' = [accounts EXCEPT ![<<k[1], "lower">>] = p]
      BY <2>1, <2>5
    <3> QED BY <1>1, <1>2, <3>1, LowerImplements
  <2>6. CASE k = <<k[1], "Capital">>
    <3>1. accounts' = [accounts EXCEPT ![<<k[1], "Capital">>] = p]
      BY <2>1, <2>6
    <3> QED BY <1>1, <1>2, <2>2, <2>3, <3>1, CapitalImplements
  <2> QED BY <2>4, <2>5, <2>6
<1> QED BY <1>3, <1>4

LEMMA ConfirmImplements ==
    ASSUME PassesAreReal, AccountsIInv, NEW h \in Handlers, NEW p \in Passes \cup {NoPass},
           Confirm(h, p)
    PROVE  [Store!Next]_(Store!vars)
<1> DEFINE k == mode[h].key
<1>1. /\ k \in Keys /\ mode[h].pass \in Passes /\ accounts[k] # Unloaded
      /\ UNCHANGED <<file, replaced>>
  BY DEF AccountsIInv, DialoguesTyped, Dialogue, DialogueFits, KeysLoaded, LoggedIn, Confirm, At
<1>2. CASE p = mode[h].pass
  <2>1. accounts' = [accounts EXCEPT ![k] = p]
    BY <1>2 DEF Confirm
  <2>2. p # Unloaded /\ k[1] \in Ids
    BY <1>1, <1>2, KeyFacts DEF PassesAreReal
  <2>3. k = <<k[1], "lower">> \/ k = <<k[1], "Capital">>
    BY <1>1, KeyFacts
  <2> HIDE DEF k
  <2>4. CASE k = <<k[1], "lower">>
    <3>1. accounts' = [accounts EXCEPT ![<<k[1], "lower">>] = p]
      BY <2>1, <2>4
    <3> QED BY <1>1, <2>2, <3>1, LowerImplements
  <2>5. CASE k = <<k[1], "Capital">>
    <3>1. accounts' = [accounts EXCEPT ![<<k[1], "Capital">>] = p] /\ accounts[<<k[1], "Capital">>] # Unloaded
      BY <1>1, <2>1, <2>5
    <3> QED BY <1>1, <2>2, <3>1, CapitalImplements
  <2> QED BY <2>3, <2>4, <2>5
<1>3. CASE p # mode[h].pass
  <2>1. UNCHANGED accounts
    BY <1>3 DEF Confirm
  <2> QED BY <1>1, <2>1 DEF Store!vars, Stored, MadeCapital, Doubled
<1> QED BY <1>2, <1>3

LEMMA CommandImplements ==
    ASSUME PassesAreReal, AccountsIInv, NEW h \in Handlers, Command(h)
    PROVE  [Store!Next]_(Store!vars)
<1>1. ASSUME UNCHANGED <<file, replaced, accounts>> PROVE [Store!Next]_(Store!vars)
  BY <1>1 DEF Store!vars, Stored, MadeCapital, Doubled
<1>2. CASE Approve(h)
  BY <1>2, ApproveImplements
<1>3. ASSUME NEW p \in Passes \cup {NoPass}, Confirm(h, p) PROVE [Store!Next]_(Store!vars)
  BY <1>3, ConfirmImplements
<1>4. ASSUME NEW k \in Typed, LoginName(h, k) PROVE [Store!Next]_(Store!vars)
  <2>1. UNCHANGED <<file, replaced>> /\ (Loaded(k) \/ UNCHANGED accounts)
    BY <1>4 DEF LoginName
  <2> QED BY <1>1, <2>1, LoadsImplements, TypedKeys
<1>5. CASE Others(h)
  BY <1>1, <1>5, OthersSame
<1> QED BY <1>2, <1>3, <1>4, <1>5 DEF Command, Others

(* The refinement: with its cache of accounts, its two saves for a new     *)
(* account, crashes between any two steps and a shutdown that saves what   *)
(* it comes to, an account keeps the passphrase its owner gave it last;    *)
(* one that was replaced comes back only to an account made under a name   *)
(* with capitals since the start and loaded a second time.                 *)
THEOREM StoreCorrect ==
    ASSUME PassesAreReal
    PROVE  Spec => StoreKept
<1>1. Init => Store!Init
  <2> SUFFICES ASSUME Init PROVE Store!Init
    OBVIOUS
  <2>1. MadeCapital = {} /\ Doubled = {}
    BY BothKeys DEF Init, MadeCapital, Doubled
  <2> QED BY <2>1 DEF Init, Store!Init, Stored
<1>2. AccountsIInv /\ [Next]_vars => [Store!Next]_(Store!vars)
  <2> SUFFICES ASSUME AccountsIInv, [Next]_vars PROVE [Store!Next]_(Store!vars)
    OBVIOUS
  <2>1. ASSUME NEW h \in Handlers, Command(h) PROVE [Store!Next]_(Store!vars)
    BY <2>1, CommandImplements
  <2>2. ASSUME NEW k \in Typed, Admin(k) PROVE [Store!Next]_(Store!vars)
    BY <2>2, LoadsImplements, TypedKeys DEF Admin
  <2>3. CASE Rename
    BY <2>3, RenameImplements
  <2>4. CASE WriteTemp \/ Start \/ Shutdown \/ UNCHANGED vars
    <3>1. UNCHANGED <<file, replaced, accounts>>
      BY <2>4 DEF WriteTemp, Start, Shutdown, vars
    <3> QED BY <3>1 DEF Store!vars, Stored, MadeCapital, Doubled
  <2>5. CASE Crash \/ Stopped
    <3>1. Forget /\ UNCHANGED <<file, replaced>>
      BY <2>5 DEF Crash, Stopped
    <3>2. Store!Restart
      BY <3>1, ForgetKeys DEF Store!Restart, Stored
    <3> QED BY <3>2 DEF Store!Next
  <2> QED BY <2>1, <2>2, <2>3, <2>4, <2>5 DEF Next
<1> QED BY <1>1, <1>2, AccountsInvariance, PTL DEF Spec, StoreKept, Store!Spec

-----------------------------------------------------------------------------
(* The echo, however names are typed: all it takes is that a dialogue      *)
(* knows its question.                                                     *)
Record ==
    [at : Places, key : (Ids \X (Spellings \cup {"lower"})) \cup {<<>>},
     pass : Passes \cup {NoPass}, email : BOOLEAN, tries : Nat]

EchoFits(m, on) ==
    /\ on \in BOOLEAN
    /\ ~on => m.at \in Stages
    /\ m.at \in Stages \ {"new pass", "new check"} => ~on

EchoIInv ==
    /\ DOMAIN echo = Handlers /\ mode \in [Handlers -> Record]
    /\ \A h \in Handlers : EchoFits(mode[h], echo[h])

(* A command takes one connection to its next question.                    *)
LEMMA OneEcho ==
    ASSUME EchoIInv, NEW h \in Handlers, NEW m \in Record, NEW on, EchoFits(m, on),
           mode' = [mode EXCEPT ![h] = m],
           echo' = [echo EXCEPT ![h] = on] \/ (echo' = echo /\ on = echo[h])
    PROVE  EchoIInv'
BY DEF EchoIInv

LEMMA EchoStep ==
    ASSUME EchoIInv, [Next]_vars
    PROVE  EchoIInv'
<1>1. ASSUME NEW h \in Handlers, Command(h) PROVE EchoIInv'
  <2> DEFINE m == mode[h]
  <2>1. /\ m \in Record /\ echo[h] \in BOOLEAN /\ m.tries + 1 \in Nat
        /\ ~echo[h] => m.at \in Stages
        /\ m.at \in Stages \ {"new pass", "new check"} => ~echo[h]
    <3>1. /\ m \in Record /\ echo[h] \in BOOLEAN
          /\ ~echo[h] => m.at \in Stages
          /\ m.at \in Stages \ {"new pass", "new check"} => ~echo[h]
      BY DEF EchoIInv, EchoFits
    <3>2. m.tries \in Nat
      BY <3>1 DEF Record
    <3>3. m.tries + 1 \in Nat
      BY <3>2
    <3> QED BY <3>1, <3>3
  <2>2. /\ Off \in Record /\ Off.at = "off"
        /\ \A k \in Typed : /\ k \in Ids \X (Spellings \cup {"lower"})
                            /\ Lower(k) \in Ids \X (Spellings \cup {"lower"})
    BY DEF Record, Off, Places, Typed, Lower
  <2>3. ASSUME NEW d \in Record, NEW on, EchoFits(d, on), mode' = [mode EXCEPT ![h] = d],
               echo' = [echo EXCEPT ![h] = on] \/ (echo' = echo /\ on = echo[h])
        PROVE  EchoIInv'
    BY <2>3, OneEcho
  <2>4. ASSUME Connect(h) PROVE EchoIInv'
    <3> DEFINE d == [Off EXCEPT !.at = "name"]
    <3>1. mode' = [mode EXCEPT ![h] = d] /\ echo' = echo
      BY <2>4 DEF Connect, At, Echo, Goes
    <3>2. d \in Record /\ d.at = "name"
      BY <2>1, <2>2 DEF Record, Off, Places
    <3>3. echo[h] = TRUE
      BY <2>1, <2>4 DEF Connect, At, Stages
    <3> HIDE DEF d
    <3> QED BY <2>1, <2>3, <3>1, <3>2, <3>3 DEF EchoFits, Stages
  <2>5. ASSUME NewAccount(h) PROVE EchoIInv'
    <3> DEFINE d == [Off EXCEPT !.at = "new id"]
    <3>1. mode' = [mode EXCEPT ![h] = d] /\ echo' = echo
      BY <2>5 DEF NewAccount, At, Echo, Goes
    <3>2. d \in Record /\ d.at = "new id"
      BY <2>1, <2>2 DEF Record, Off, Places
    <3>3. echo[h] = TRUE
      BY <2>1, <2>5 DEF NewAccount, At, Stages
    <3> HIDE DEF d
    <3> QED BY <2>1, <2>3, <3>1, <3>2, <3>3 DEF EchoFits, Stages
  <2>6. ASSUME Disconnect(h) PROVE EchoIInv'
    <3> DEFINE d == Off
    <3>1. mode' = [mode EXCEPT ![h] = d] /\ echo' = [echo EXCEPT ![h] = TRUE]
      BY <2>6 DEF Disconnect, At, Echo, Goes
    <3>2. d \in Record /\ d.at = "off"
      BY <2>1, <2>2 DEF Record, Off, Places
    <3> HIDE DEF d
    <3> QED BY <2>1, <2>3, <3>1, <3>2 DEF EchoFits, Stages
  <2>7. ASSUME Disapprove(h) PROVE EchoIInv'
    <3> DEFINE d == [m EXCEPT !.at = "new id"]
    <3>1. mode' = [mode EXCEPT ![h] = d] /\ echo' = echo
      BY <2>7 DEF Disapprove, At, Echo, Goes
    <3>2. d \in Record /\ d.at = "new id"
      BY <2>1, <2>2 DEF Record, Off, Places
    <3>3. echo[h] = TRUE
      BY <2>1, <2>7 DEF Disapprove, At, Stages
    <3> HIDE DEF d
    <3> QED BY <2>1, <2>3, <3>1, <3>2, <3>3 DEF EchoFits, Stages
  <2>8. ASSUME ChangePass(h) PROVE EchoIInv'
    <3> DEFINE d == [m EXCEPT !.at = "challenge"]
    <3>1. mode' = [mode EXCEPT ![h] = d] /\ echo' = [echo EXCEPT ![h] = FALSE]
      BY <2>8 DEF ChangePass, At, Echo, Goes
    <3>2. d \in Record /\ d.at = "challenge"
      BY <2>1, <2>2 DEF Record, Off, Places
    <3> HIDE DEF d
    <3> QED BY <2>1, <2>3, <3>1, <3>2 DEF EchoFits, Stages
  <2>9. ASSUME Approve(h) PROVE EchoIInv'
    <3>1. CASE Get(m.key) # Unloaded
      <4> DEFINE d == [m EXCEPT !.at = "new id"]
      <4>1. mode' = [mode EXCEPT ![h] = d] /\ echo' = echo
        BY <2>9, <3>1 DEF Approve, At, Echo, Goes
      <4>2. d \in Record /\ d.at = "new id"
        BY <2>1, <2>2 DEF Record, Off, Places
      <4>3. echo[h] = TRUE
        BY <2>1, <2>9, <3>1 DEF Approve, At, Stages
      <4> HIDE DEF d
      <4> QED BY <2>1, <2>3, <4>1, <4>2, <4>3 DEF EchoFits, Stages
    <3>2. CASE Get(m.key) = Unloaded
      <4> DEFINE d == [Off EXCEPT !.at = "menu", !.key = m.key]
      <4>1. mode' = [mode EXCEPT ![h] = d] /\ echo' = echo
        BY <2>9, <3>2 DEF Approve, At, Echo, Goes
      <4>2. d \in Record /\ d.at = "menu"
        BY <2>1, <2>2 DEF Record, Off, Places
      <4>3. echo[h] = TRUE
        BY <2>1, <2>9, <3>2 DEF Approve, At, Stages
      <4> HIDE DEF d
      <4> QED BY <2>1, <2>3, <4>1, <4>2, <4>3 DEF EchoFits, Stages
    <3> QED BY <3>1, <3>2
  <2>10. ASSUME NEW k \in Typed, LoginName(h, k) PROVE EchoIInv'
    <3> DEFINE d == [m EXCEPT !.at = "pass", !.key = IF Exists(k) THEN Lower(k) ELSE <<>>]
    <3>1. mode' = [mode EXCEPT ![h] = d] /\ echo' = [echo EXCEPT ![h] = FALSE]
      BY <2>10 DEF LoginName, At, Echo, Goes
    <3>2. d \in Record /\ d.at = "pass"
      BY <2>1, <2>2 DEF Record, Off, Places
    <3> HIDE DEF d
    <3> QED BY <2>1, <2>3, <3>1, <3>2 DEF EchoFits, Stages
  <2>11. ASSUME NEW k \in Typed, NewId(h, k) PROVE EchoIInv'
    <3> DEFINE d == [m EXCEPT !.at = "new email", !.key = k]
    <3>1. mode' = [mode EXCEPT ![h] = d] /\ echo' = echo
      BY <2>11 DEF NewId, At, Echo, Goes
    <3>2. d \in Record /\ d.at = "new email"
      BY <2>1, <2>2 DEF Record, Off, Places
    <3>3. echo[h] = TRUE
      BY <2>1, <2>11 DEF NewId, At, Stages
    <3> HIDE DEF d
    <3> QED BY <2>1, <2>3, <3>1, <3>2, <3>3 DEF EchoFits, Stages
  <2>12. ASSUME NEW line \in {"good", "bad", "empty"}, NewEmail(h, line) PROVE EchoIInv'
    <3>1. CASE line = "good"
      <4> DEFINE d == [m EXCEPT !.email = (m.email \/ line = "good") /\ line # "bad", !.at = "new pass"]
      <4>1. mode' = [mode EXCEPT ![h] = d] /\ echo' = [echo EXCEPT ![h] = FALSE]
        BY <2>12, <3>1 DEF NewEmail, At, Echo, Goes
      <4>2. d \in Record /\ d.at = "new pass"
        BY <2>1, <2>2 DEF Record, Off, Places
      <4> HIDE DEF d
      <4> QED BY <2>1, <2>3, <4>1, <4>2 DEF EchoFits, Stages
    <3>2. CASE line # "good"
      <4> DEFINE d == [m EXCEPT !.email = (m.email \/ line = "good") /\ line # "bad", !.at = IF m.email /\ line # "bad" THEN "new pass" ELSE "new email"]
      <4>1. mode' = [mode EXCEPT ![h] = d] /\ echo' = echo
        BY <2>12, <3>2 DEF NewEmail, At, Echo, Goes
      <4>2. d \in Record /\ d.at \in {"new pass", "new email"}
        BY <2>1, <2>2 DEF Record, Off, Places
      <4>3. echo[h] = TRUE
        BY <2>1, <2>12, <3>2 DEF NewEmail, At, Stages
      <4> HIDE DEF d
      <4> QED BY <2>1, <2>3, <4>1, <4>2, <4>3 DEF EchoFits, Stages
    <3> QED BY <3>1, <3>2
  <2>13. ASSUME NEW p \in Passes, LoginPass(h, p) PROVE EchoIInv'
    <3>1. CASE m.key # <<>> /\ Matches(m.key, p)
      <4> DEFINE d == [Off EXCEPT !.at = "menu", !.key = m.key]
      <4>1. mode' = [mode EXCEPT ![h] = d] /\ echo' = [echo EXCEPT ![h] = TRUE]
        BY <2>13, <3>1 DEF LoginPass, At, Echo, Goes
      <4>2. d \in Record /\ d.at = "menu"
        BY <2>1, <2>2 DEF Record, Off, Places
      <4> HIDE DEF d
      <4> QED BY <2>1, <2>3, <4>1, <4>2 DEF EchoFits, Stages
    <3>2. CASE ~(m.key # <<>> /\ Matches(m.key, p)) /\ m.tries = 2
      <4> DEFINE d == Off
      <4>1. mode' = [mode EXCEPT ![h] = d] /\ echo' = [echo EXCEPT ![h] = TRUE]
        BY <2>13, <3>2 DEF LoginPass, At, Echo, Goes
      <4>2. d \in Record /\ d.at = "off"
        BY <2>1, <2>2 DEF Record, Off, Places
      <4> HIDE DEF d
      <4> QED BY <2>1, <2>3, <4>1, <4>2 DEF EchoFits, Stages
    <3>3. CASE ~(m.key # <<>> /\ Matches(m.key, p)) /\ m.tries # 2
      <4> DEFINE d == [Off EXCEPT !.at = "name", !.tries = m.tries + 1]
      <4>1. mode' = [mode EXCEPT ![h] = d] /\ echo' = [echo EXCEPT ![h] = TRUE]
        BY <2>13, <3>3 DEF LoginPass, At, Echo, Goes
      <4>2. d \in Record /\ d.at = "name"
        BY <2>1, <2>2 DEF Record, Off, Places
      <4> HIDE DEF d
      <4> QED BY <2>1, <2>3, <4>1, <4>2 DEF EchoFits, Stages
    <3> QED BY <3>1, <3>2, <3>3
  <2>14. ASSUME NEW p \in Passes, NewPass(h, p) PROVE EchoIInv'
    <3> DEFINE d == [m EXCEPT !.at = "new check", !.pass = p]
    <3>1. mode' = [mode EXCEPT ![h] = d] /\ echo' = echo
      BY <2>14 DEF NewPass, At, Echo, Goes
    <3>2. d \in Record /\ d.at = "new check"
      BY <2>1, <2>2 DEF Record, Off, Places
    <3> HIDE DEF d
    <3> QED BY <2>1, <2>3, <3>1, <3>2 DEF EchoFits, Stages
  <2>15. ASSUME NEW p \in Passes, NewCheck(h, p) PROVE EchoIInv'
    <3>1. CASE p = m.pass
      <4> DEFINE d == [m EXCEPT !.at = "approve"]
      <4>1. mode' = [mode EXCEPT ![h] = d] /\ echo' = [echo EXCEPT ![h] = TRUE]
        BY <2>15, <3>1 DEF NewCheck, At, Echo, Goes
      <4>2. d \in Record /\ d.at = "approve"
        BY <2>1, <2>2 DEF Record, Off, Places
      <4> HIDE DEF d
      <4> QED BY <2>1, <2>3, <4>1, <4>2 DEF EchoFits, Stages
    <3>2. CASE p # m.pass
      <4> DEFINE d == [m EXCEPT !.at = "new pass"]
      <4>1. mode' = [mode EXCEPT ![h] = d] /\ echo' = echo
        BY <2>15, <3>2 DEF NewCheck, At, Echo, Goes
      <4>2. d \in Record /\ d.at = "new pass"
        BY <2>1, <2>2 DEF Record, Off, Places
      <4> HIDE DEF d
      <4> QED BY <2>1, <2>3, <4>1, <4>2 DEF EchoFits, Stages
    <3> QED BY <3>1, <3>2
  <2>16. ASSUME NEW p \in Passes \cup {NoPass}, Challenge(h, p) PROVE EchoIInv'
    <3>1. CASE Matches(m.key, p)
      <4> DEFINE d == [m EXCEPT !.at = "select"]
      <4>1. mode' = [mode EXCEPT ![h] = d] /\ echo' = echo
        BY <2>16, <3>1 DEF Challenge, At, Echo, Goes
      <4>2. d \in Record /\ d.at = "select"
        BY <2>1, <2>2 DEF Record, Off, Places
      <4>3. echo[h] = FALSE
        BY <2>1, <2>16, <3>1 DEF Challenge, At, Stages
      <4> HIDE DEF d
      <4> QED BY <2>1, <2>3, <4>1, <4>2, <4>3 DEF EchoFits, Stages
    <3>2. CASE ~Matches(m.key, p)
      <4> DEFINE d == [m EXCEPT !.at = "menu"]
      <4>1. mode' = [mode EXCEPT ![h] = d] /\ echo' = [echo EXCEPT ![h] = TRUE]
        BY <2>16, <3>2 DEF Challenge, At, Echo, Goes
      <4>2. d \in Record /\ d.at = "menu"
        BY <2>1, <2>2 DEF Record, Off, Places
      <4> HIDE DEF d
      <4> QED BY <2>1, <2>3, <4>1, <4>2 DEF EchoFits, Stages
    <3> QED BY <3>1, <3>2
  <2>17. ASSUME NEW p \in Passes \cup {NoPass}, Select(h, p) PROVE EchoIInv'
    <3>1. CASE p = NoPass
      <4> DEFINE d == [m EXCEPT !.at = "menu"]
      <4>1. mode' = [mode EXCEPT ![h] = d] /\ echo' = [echo EXCEPT ![h] = TRUE]
        BY <2>17, <3>1 DEF Select, At, Echo, Goes
      <4>2. d \in Record /\ d.at = "menu"
        BY <2>1, <2>2 DEF Record, Off, Places
      <4> HIDE DEF d
      <4> QED BY <2>1, <2>3, <4>1, <4>2 DEF EchoFits, Stages
    <3>2. CASE p # NoPass
      <4> DEFINE d == [m EXCEPT !.at = "confirm", !.pass = p]
      <4>1. mode' = [mode EXCEPT ![h] = d] /\ echo' = echo
        BY <2>17, <3>2 DEF Select, At, Echo, Goes
      <4>2. d \in Record /\ d.at = "confirm"
        BY <2>1, <2>2 DEF Record, Off, Places
      <4>3. echo[h] = FALSE
        BY <2>1, <2>17, <3>2 DEF Select, At, Stages
      <4> HIDE DEF d
      <4> QED BY <2>1, <2>3, <4>1, <4>2, <4>3 DEF EchoFits, Stages
    <3> QED BY <3>1, <3>2
  <2>18. ASSUME NEW p \in Passes \cup {NoPass}, Confirm(h, p) PROVE EchoIInv'
    <3> DEFINE d == [Off EXCEPT !.at = "menu", !.key = m.key]
    <3>1. mode' = [mode EXCEPT ![h] = d] /\ echo' = [echo EXCEPT ![h] = TRUE]
      BY <2>18 DEF Confirm, At, Echo, Goes
    <3>2. d \in Record /\ d.at = "menu"
      BY <2>1, <2>2 DEF Record, Off, Places
    <3> HIDE DEF d
    <3> QED BY <2>1, <2>3, <3>1, <3>2 DEF EchoFits, Stages
  <2> QED BY <1>1, <2>4, <2>5, <2>6, <2>7, <2>8, <2>9, <2>10, <2>11, <2>12, <2>13, <2>14, <2>15, <2>16, <2>17, <2>18 DEF Command
<1>2. ASSUME UNCHANGED <<mode, echo>> PROVE EchoIInv'
  BY <1>2 DEF EchoIInv
<1>3. ASSUME Forget PROVE EchoIInv'
  BY <1>3 DEF Forget, EchoIInv, EchoFits, Record, Off, Places, Stages
<1> QED BY <1>1, <1>2, <1>3
        DEF Next, Admin, WriteTemp, Rename, Crash, Start, Shutdown, Stopped, vars

(* A passphrase the server asks for by itself is typed unseen, and nothing *)
(* else is: no way through login, new account, menu, hang-up and crash     *)
(* leaves the echo off where a line is asked for.                          *)
THEOREM EchoCorrect == Spec => []EchoFollowsPrompt
<1>1. Init => EchoIInv
  <2> SUFFICES ASSUME Init PROVE EchoIInv
    OBVIOUS
  <2>1. Off \in Record /\ Off.at = "off"
    BY DEF Record, Off, Places
  <2>2. mode = [h \in Handlers |-> Off] /\ echo = [h \in Handlers |-> TRUE]
    BY DEF Init
  <2> QED BY <2>1, <2>2 DEF EchoIInv, EchoFits, Stages
<1>2. EchoIInv /\ [Next]_vars => EchoIInv'
  BY EchoStep
<1>3. EchoIInv => EchoFollowsPrompt
  BY DEF EchoIInv, EchoFits, EchoFollowsPrompt
<1> QED BY <1>1, <1>2, <1>3, PTL DEF Spec

(* Both together: what the account files and the dialogues about them      *)
(* promise, for any accounts, connections, passphrases and crashes.        *)
THEOREM AccountsCorrect ==
    ASSUME PassesAreReal
    PROVE  Spec => AccountsRight
BY StoreCorrect, EchoCorrect DEF AccountsRight


-----------------------------------------------------------------------------
(* MainLoop: what main() and the managers keep.                            *)
MainTypeOK ==
    /\ phase \in {"start", "poll", "tick", "save", "reload", "signals", "stop", "down", "exit"}
    /\ pending \in Seq(Managers) /\ calls \in Seq(Managers)
    /\ managers \in Seq(Managers) /\ stopping \in Seq(Managers)
    /\ signaled_reload \in BOOLEAN /\ owed \in BOOLEAN
    /\ now \in Nat /\ nexttick \in Nat /\ game_ticks \in Nat

(* Who is ready: each once, behind all it needs.                           *)
NeedsFirst ==
    \A i \in 1 .. Len(managers) :
        /\ \A n \in Needs[managers[i]] : \E j \in 1 .. i - 1 : managers[j] = n
        /\ \A j \in 1 .. i - 1 : managers[j] # managers[i]

(* While they are shut down, those still up are those that became ready    *)
(* first, and the next to go is the last of them.                          *)
StopsInOrder ==
    /\ phase \notin {"down", "exit"} => up = InSeq(managers)
    /\ phase = "down" =>
          /\ Len(stopping) <= Len(managers)
          /\ \A i \in 1 .. Len(stopping) : stopping[i] = managers[Len(stopping) + 1 - i]
          /\ up = {managers[i] : i \in 1 .. Len(stopping)}
    /\ phase = "exit" => up = {}

(* The next tick is due no earlier than that many ticks take.              *)
TicksDue == (game_ticks + 1) * TickLength <= nexttick /\ game_ticks * TickLength <= now

MainIInv == MainTypeOK /\ NeedsFirst /\ StopsInOrder /\ HangupRemembered /\ TicksDue

LEMMA SeqMembers ==
    ASSUME NEW s \in Seq(Managers)
    PROVE  /\ Len(s) \in Nat /\ DOMAIN s = 1 .. Len(s) /\ \A i \in 1 .. Len(s) : s[i] \in Managers
           /\ Reversed(s) \in Seq(Managers) /\ Len(Reversed(s)) = Len(s)
           /\ \A i \in 1 .. Len(s) : Reversed(s)[i] = s[Len(s) + 1 - i]
           /\ s # <<>> => /\ Head(s) = s[1] /\ Tail(s) \in Seq(Managers) /\ Len(s) >= 1
                          /\ Len(Tail(s)) = Len(s) - 1
                          /\ \A i \in 1 .. Len(s) - 1 : Tail(s)[i] = s[i + 1]
<1>1. Len(s) \in Nat /\ DOMAIN s = 1 .. Len(s) /\ \A i \in 1 .. Len(s) : s[i] \in Managers
  BY LenProperties, ElementOfSeq
<1>2. /\ Reversed(s) \in [1 .. Len(s) -> Managers]
      /\ \A i \in 1 .. Len(s) : Reversed(s)[i] = s[Len(s) + 1 - i]
  BY <1>1 DEF Reversed
<1>3. Reversed(s) \in Seq(Managers) /\ Len(Reversed(s)) = Len(s)
  BY <1>1, <1>2
<1>4. s # <<>> => /\ Head(s) = s[1] /\ Tail(s) \in Seq(Managers) /\ Len(s) >= 1
                  /\ Len(Tail(s)) = Len(s) - 1
                  /\ \A i \in 1 .. Len(s) - 1 : Tail(s)[i] = s[i + 1]
  BY <1>1, HeadTailProperties, EmptySeq
<1> QED BY <1>1, <1>2, <1>3, <1>4

LEMMA MainInitIInv == MainInit => MainIInv
<1> SUFFICES ASSUME MainInit PROVE MainIInv
  OBVIOUS
<1>1. pending \in Seq(Managers)
  <2>1. Cardinality(Managers) \in Nat
    BY MainAssumption, FS_CardinalityType
  <2>2. pending \in [1 .. Cardinality(Managers) -> Managers]
    BY DEF MainInit
  <2> QED BY <2>1, <2>2
<1>2. MainTypeOK
  <2>1. <<>> \in Seq(Managers) /\ TickLength \in Nat
    BY MainAssumption
  <2> QED BY <1>1, <2>1 DEF MainInit, MainTypeOK
<1>4. TicksDue
  <2>1. (0 + 1) * TickLength <= TickLength /\ 0 * TickLength <= 0
    BY MainAssumption
  <2> QED BY <2>1 DEF MainInit, TicksDue
<1>3. NeedsFirst /\ StopsInOrder /\ HangupRemembered
  BY DEF MainInit, NeedsFirst, StopsInOrder, HangupRemembered, InSeq
<1> QED BY <1>2, <1>3, <1>4 DEF MainIInv

(* A manager is ready: it comes behind the others.                         *)
LEMMA InitializingKeeps ==
    ASSUME MainIInv, Initializing
    PROVE  MainIInv'
<1>1. /\ phase = "start" /\ calls # <<>>
      /\ UNCHANGED <<phase, pending, stopping, flags, clock>>
  BY DEF Initializing
<1>2. /\ calls \in Seq(Managers) /\ managers \in Seq(Managers)
      /\ Head(calls) \in Managers /\ Tail(calls) \in Seq(Managers) /\ Len(managers) \in Nat
      /\ up = InSeq(managers)
  BY <1>1, SeqMembers DEF MainIInv, MainTypeOK, StopsInOrder
<1>3. HangupRemembered' /\ TicksDue'
  BY <1>1 DEF MainIInv, HangupRemembered, TicksDue, flags, clock
<1>4. (calls' \in Seq(Managers) /\ managers' \in Seq(Managers)) => MainTypeOK'
  BY <1>1 DEF MainIInv, MainTypeOK, flags, clock
<1> DEFINE m == Head(calls)
           missing == Needs[m] \ InSeq(managers)
<1>5. ASSUME NEW n \in missing, Require(n) PROVE MainIInv'
  <2>1. n \in Managers
    BY <1>2, MainAssumption
  <2>2. /\ managers' = managers /\ up' = up
        /\ calls' = calls \/ calls' = <<n>> \o calls
    BY <1>5 DEF Require
  <2>3. calls' \in Seq(Managers)
    <3>1. <<n>> \in Seq(Managers)
      BY <2>1
    <3>2. <<n>> \o calls \in Seq(Managers)
      BY <1>2, <3>1, ConcatProperties
    <3> QED BY <1>2, <2>2, <3>2
  <2>4. MainTypeOK'
    BY <1>2, <1>4, <2>2, <2>3
  <2>5. NeedsFirst' /\ StopsInOrder'
    <3>1. UNCHANGED <<managers, up, phase, stopping>>
      BY <1>1, <2>2
    <3>2. NeedsFirst /\ StopsInOrder
      BY DEF MainIInv
    <3>3. NeedsFirst'
      BY ONLY <3>1, <3>2 DEF NeedsFirst
    <3>4. StopsInOrder'
      BY ONLY <3>1, <3>2 DEF StopsInOrder, InSeq
    <3> QED BY <3>3, <3>4
  <2> QED BY <1>3, <2>4, <2>5 DEF MainIInv
<1>6. ASSUME missing = {}, calls' = Tail(calls), up' = up \cup {m},
             managers' = IF m \in InSeq(managers) THEN managers ELSE Append(managers, m)
      PROVE  MainIInv'
  <2>1. CASE m \in InSeq(managers)
    <3>1. managers' = managers /\ up' = up
      BY <1>2, <1>6, <2>1
    <3>2. NeedsFirst' /\ StopsInOrder'
      BY <1>1, <3>1 DEF MainIInv, NeedsFirst, StopsInOrder
    <3>3. MainTypeOK'
      BY <1>2, <1>4, <1>6, <3>1
    <3> QED BY <1>3, <3>2, <3>3 DEF MainIInv
  <2>2. CASE m \notin InSeq(managers)
    <3> DEFINE l == Len(managers)  s == managers'
    <3>1. /\ s \in Seq(Managers) /\ Len(s) = l + 1 /\ s[l + 1] = m
          /\ \A i \in 1 .. l : s[i] = managers[i]
      BY <1>2, <1>6, <2>2, AppendProperties
    <3> HIDE DEF s, l
    <3>2. l \in Nat /\ l = Len(managers)
      BY <1>2 DEF l
    <3>3. /\ \A n \in Needs[m] : \E j \in 1 .. l : managers[j] = n
          /\ \A j \in 1 .. l : managers[j] # m
      BY <1>6, <2>2 DEF InSeq, l
    <3>4. ASSUME NEW i \in 1 .. l + 1
          PROVE  /\ \A n \in Needs[s[i]] : \E j \in 1 .. i - 1 : s[j] = n
                 /\ \A j \in 1 .. i - 1 : s[j] # s[i]
      <4>1. CASE i = l + 1
        BY <3>1, <3>2, <3>3, <4>1
      <4>2. CASE i \in 1 .. l
        <5>1. /\ \A n \in Needs[managers[i]] : \E j \in 1 .. i - 1 : managers[j] = n
              /\ \A j \in 1 .. i - 1 : managers[j] # managers[i]
          BY <3>2, <4>2 DEF MainIInv, NeedsFirst
        <5>2. \A j \in 1 .. i - 1 : s[j] = managers[j]
          BY <3>1, <3>2, <4>2
        <5> QED BY <3>1, <4>2, <5>1, <5>2
      <4> QED BY <3>2, <4>1, <4>2
    <3>5. NeedsFirst'
      BY <3>1, <3>4 DEF NeedsFirst, s
    <3>6. up' = InSeq(managers')
      BY <1>2, <1>6, <3>1, <3>2 DEF InSeq, s, l
    <3>7. StopsInOrder'
      BY <1>1, <3>6 DEF StopsInOrder
    <3>8. MainTypeOK'
      BY <1>2, <1>4, <1>6, <3>1 DEF s
    <3> QED BY <1>3, <3>5, <3>7, <3>8 DEF MainIInv
  <2> QED BY <2>1, <2>2
<1> QED BY <1>5, <1>6 DEF Initializing

LEMMA GameTickKeeps ==
    ASSUME MainIInv, Tick
    PROVE  MainIInv'
<1>1. /\ phase = "tick" /\ phase' = "save" /\ UNCHANGED <<init, stopping, up, flags, now>>
      /\ IF now >= nexttick
         THEN game_ticks' = game_ticks + 1 /\ nexttick' = NextTick
         ELSE UNCHANGED <<game_ticks, nexttick>>
  BY DEF Tick
<1>2. game_ticks \in Nat /\ nexttick \in Nat /\ now \in Nat /\ TickLength \in Nat
  BY MainAssumption DEF MainIInv, MainTypeOK
<1>3. game_ticks' \in Nat /\ nexttick' \in Nat /\ TicksDue'
  <2>1. CASE now >= nexttick
    <3>1. game_ticks' = game_ticks + 1 /\ nexttick' >= nexttick + TickLength /\ nexttick' \in Nat
      BY <1>1, <1>2, <2>1 DEF NextTick
    <3>2. (game_ticks + 1) * TickLength <= nexttick
      BY DEF MainIInv, TicksDue
    <3>3. (game_ticks + 1 + 1) * TickLength = (game_ticks + 1) * TickLength + TickLength
      BY <1>2
    <3>4. (game_ticks + 1) * TickLength \in Nat
      BY <1>2
    <3>5. (game_ticks + 1 + 1) * TickLength <= nexttick'
      BY <1>2, <3>1, <3>2, <3>3, <3>4
    <3>6. (game_ticks + 1) * TickLength <= now
      BY <1>2, <2>1, <3>2, <3>4
    <3> QED BY <1>1, <1>2, <3>1, <3>5, <3>6 DEF TicksDue
  <2>2. CASE ~(now >= nexttick)
    BY <1>1, <1>2, <2>2 DEF MainIInv, TicksDue
  <2> QED BY <2>1, <2>2
<1>4. MainTypeOK'
  BY <1>1, <1>2, <1>3 DEF MainIInv, MainTypeOK, init, flags
<1>5. NeedsFirst' /\ StopsInOrder' /\ HangupRemembered'
  BY <1>1 DEF MainIInv, NeedsFirst, StopsInOrder, HangupRemembered, init, flags
<1> QED BY <1>3, <1>4, <1>5 DEF MainIInv

(* The steps that only begin or end a saveAll or shutdownAll.              *)
LEMMA StoppingKeeps ==
    ASSUME MainIInv, ShutdownBegins \/ ShutdownNext \/ Exit
    PROVE  MainIInv'
<1>1. /\ UNCHANGED <<init, flags, clock>> /\ phase \in {"stop", "down"}
      /\ phase' \in {"stop", "down", "exit"}
  BY DEF ShutdownBegins, ShutdownNext, Exit
<1>2. NeedsFirst' /\ HangupRemembered' /\ TicksDue'
  BY <1>1 DEF MainIInv, NeedsFirst, HangupRemembered, TicksDue, init, flags, clock
<1>3. stopping' \in Seq(Managers) => MainTypeOK'
  BY <1>1 DEF MainIInv, MainTypeOK, init, flags, clock
<1>4. managers \in Seq(Managers) /\ stopping \in Seq(Managers) /\ managers' = managers
  BY <1>1 DEF MainIInv, MainTypeOK, init
<1>5. CASE ShutdownBegins
  <2>1. phase = "stop" /\ phase' = "down" /\ stopping' = Reversed(managers) /\ up' = up
    BY <1>5 DEF ShutdownBegins
  <2>2. up = InSeq(managers)
    BY <2>1 DEF MainIInv, StopsInOrder
  <2>3. StopsInOrder' /\ stopping' \in Seq(Managers)
    BY <1>4, <2>1, <2>2, SeqMembers DEF StopsInOrder, InSeq
  <2> QED BY <1>2, <1>3, <2>3 DEF MainIInv
<1>6. CASE ShutdownNext
  <2>1. /\ phase = "down" /\ phase' = "down" /\ stopping # <<>>
        /\ stopping' = Tail(stopping) /\ up' = up \ {Head(stopping)}
    BY <1>6 DEF ShutdownNext
  <2> DEFINE l == Len(stopping)
  <2>2. /\ l \in Nat /\ l >= 1 /\ Head(stopping) = stopping[1] /\ stopping' \in Seq(Managers)
        /\ Len(stopping') = l - 1 /\ \A i \in 1 .. l - 1 : stopping'[i] = stopping[i + 1]
    BY <1>4, <2>1, SeqMembers
  <2>3. /\ l <= Len(managers) /\ \A i \in 1 .. l : stopping[i] = managers[l + 1 - i]
        /\ up = {managers[i] : i \in 1 .. l} /\ Len(managers) \in Nat
    BY <1>4, <2>1, SeqMembers DEF MainIInv, StopsInOrder
  <2> HIDE DEF l
  <2>4. Head(stopping) = managers[l] /\ \A i \in 1 .. l - 1 : managers[i] # managers[l]
    BY <2>2, <2>3 DEF MainIInv, NeedsFirst
  <2>5. up' = {managers[i] : i \in 1 .. l - 1}
    BY <2>1, <2>2, <2>3, <2>4
  <2>6. \A i \in 1 .. l - 1 : stopping'[i] = managers[l - i]
    BY <2>2, <2>3
  <2>7. StopsInOrder'
    <3>1. \A i \in 1 .. l - 1 : stopping'[i] = managers[(l - 1) + 1 - i]
      BY <2>2, <2>6
    <3>2. l - 1 <= Len(managers)
      BY <2>2, <2>3
    <3>3. phase' = "down" /\ Len(stopping') = l - 1 /\ managers' = managers
      BY <1>4, <2>1, <2>2
    <3>4. /\ Len(stopping') <= Len(managers')
          /\ \A i \in 1 .. Len(stopping') : stopping'[i] = managers'[Len(stopping') + 1 - i]
          /\ up' = {managers'[i] : i \in 1 .. Len(stopping')}
      BY ONLY <2>5, <3>1, <3>2, <3>3
    <3> QED BY ONLY <3>3, <3>4 DEF StopsInOrder
  <2> QED BY <1>2, <1>3, <2>2, <2>7 DEF MainIInv
<1>7. CASE Exit
  <2>1. phase = "down" /\ phase' = "exit" /\ stopping = <<>> /\ stopping' = stopping /\ up' = up
    BY <1>7 DEF Exit
  <2>2. up = {}
    BY <2>1 DEF MainIInv, StopsInOrder
  <2> QED BY <1>2, <1>3, <1>4, <2>1, <2>2 DEF MainIInv, StopsInOrder
<1> QED BY <1>5, <1>6, <1>7

(* All others leave the managers and who of them is ready alone.           *)
LEMMA OthersKeep ==
    ASSUME MainIInv,
           \/ InitializeAll \/ InitializeFails \/ BeginLoop \/ Poll \/ AutoSaves \/ SaveNext
           \/ Reload \/ CheckShutdown \/ AdminShutdown \/ Sighup \/ Sigterm
    PROVE  MainIInv'
<1>1. /\ managers' = managers /\ game_ticks' = game_ticks /\ nexttick' = nexttick
  BY DEF InitializeAll, Require, InitializeFails, BeginLoop, Poll, AutoSaves, SaveNext, Reload,
         CheckShutdown, AdminShutdown, Sighup, Sigterm, init, clock
<1>2. NeedsFirst'
  BY <1>1 DEF MainIInv, NeedsFirst
<1>3. now' \in Nat /\ now' >= now
  BY MainAssumption
     DEF MainIInv, MainTypeOK, InitializeAll, InitializeFails, BeginLoop, Poll, AutoSaves, SaveNext,
         Reload, CheckShutdown, AdminShutdown, Sighup, Sigterm, clock
<1>4. TicksDue'
  <2>1. game_ticks * TickLength \in Nat /\ now \in Nat
    BY MainAssumption DEF MainIInv, MainTypeOK
  <2> QED BY <1>1, <1>3, <2>1 DEF MainIInv, TicksDue
<1>5. HangupRemembered' /\ signaled_reload' \in BOOLEAN /\ owed' \in BOOLEAN
  <2>1. signaled_reload \in BOOLEAN /\ owed \in BOOLEAN /\ HangupRemembered
    BY DEF MainIInv, MainTypeOK
  <2>2. CASE InitializeAll \/ BeginLoop \/ Poll \/ SaveNext \/ AdminShutdown \/ Sigterm
    <3>1. /\ signaled_reload' = signaled_reload /\ owed' = owed
          /\ phase' = phase \/ phase \in {"start", "poll"}
      BY <2>2 DEF InitializeAll, BeginLoop, Poll, SaveNext, AdminShutdown, Sigterm, flags
    <3> QED BY <2>1, <3>1 DEF HangupRemembered
  <2>3. CASE InitializeFails
    BY <2>1, <2>3 DEF InitializeFails, HangupRemembered, flags
  <2>4. CASE AutoSaves \/ Reload
    <3>1. /\ phase \in {"save", "reload"} /\ signaled_reload' \in BOOLEAN /\ owed' \in BOOLEAN
          /\ owed' = FALSE \/ (owed' = owed /\ signaled_reload' = signaled_reload)
      BY <2>1, <2>4 DEF AutoSaves, Reload
    <3> QED BY <2>1, <3>1 DEF HangupRemembered
  <2>5. CASE CheckShutdown
    <3>1. phase = "signals" /\ signaled_reload' = signaled_reload
      BY <2>5 DEF CheckShutdown
    <3>2. (owed' = FALSE) \/ (owed' = owed)
      BY <2>5 DEF CheckShutdown
    <3>3. owed => signaled_reload
      BY <2>1, <3>1 DEF HangupRemembered
    <3>4. owed' \in BOOLEAN /\ (owed' => signaled_reload')
      <4>1. CASE owed' = FALSE
        BY <4>1
      <4>2. CASE owed' = owed
        <5>1. owed' \in BOOLEAN
          BY <2>1, <4>2
        <5>2. owed' => signaled_reload'
          BY <3>1, <3>3, <4>2, Zenon
        <5> QED BY <5>1, <5>2
      <4> QED BY <3>2, <4>1, <4>2
    <3> QED BY <2>1, <3>1, <3>4 DEF HangupRemembered
  <2>6. CASE Sighup
    BY <2>6 DEF Sighup, HangupRemembered
  <2> QED BY <2>2, <2>3, <2>4, <2>5, <2>6
<1>6. StopsInOrder'
  <2>1. CASE InitializeFails
    BY <2>1 DEF StopsInOrder, InitializeFails
  <2>2. CASE ~InitializeFails
    <3>1. \/ up' = up /\ phase \notin {"down", "exit"} /\ phase' \notin {"down", "exit"}
          \/ UNCHANGED <<up, phase, stopping>>
      BY <2>2 DEF InitializeAll, Require, BeginLoop, Poll, AutoSaves, SaveNext, Reload,
                  CheckShutdown, AdminShutdown, Sighup, Sigterm
    <3> QED BY <1>1, <3>1 DEF MainIInv, StopsInOrder
  <2> QED BY <2>1, <2>2
<1>7. pending' \in Seq(Managers) /\ calls' \in Seq(Managers) /\ stopping' \in Seq(Managers)
  <2>1. CASE InitializeAll
    <3>1. Head(pending) \in Managers /\ Tail(pending) \in Seq(Managers)
      BY <2>1, SeqMembers DEF MainIInv, MainTypeOK, InitializeAll
    <3>2. calls' = calls \/ calls' = <<Head(pending)>> \o calls
      BY <2>1 DEF InitializeAll, Require
    <3>3. calls' \in Seq(Managers)
      <4>1. <<Head(pending)>> \in Seq(Managers) /\ calls \in Seq(Managers)
        BY <3>1 DEF MainIInv, MainTypeOK
      <4> QED BY <3>2, <4>1, ConcatProperties
    <3> QED BY <2>1, <3>1, <3>3 DEF MainIInv, MainTypeOK, InitializeAll
  <2>2. CASE ~InitializeAll
    <3>1. /\ pending' = pending /\ calls' = calls
          /\ \/ stopping' = stopping \/ stopping' = Reversed(managers)
             \/ stopping # <<>> /\ stopping' = Tail(stopping)
      BY <2>2 DEF InitializeFails, BeginLoop, Poll, AutoSaves, SaveNext, Reload,
                  CheckShutdown, AdminShutdown, Sighup, Sigterm, init
    <3> QED BY <3>1, SeqMembers DEF MainIInv, MainTypeOK
  <2> QED BY <2>1, <2>2
<1>8. phase' \in {"start", "poll", "tick", "save", "reload", "signals", "stop", "down", "exit"}
  BY DEF MainIInv, MainTypeOK, InitializeAll, InitializeFails, BeginLoop, Poll, AutoSaves, SaveNext,
         Reload, CheckShutdown, AdminShutdown, Sighup, Sigterm
<1>9. MainTypeOK'
  BY <1>1, <1>3, <1>5, <1>7, <1>8 DEF MainIInv, MainTypeOK
<1> QED BY <1>2, <1>4, <1>5, <1>6, <1>9 DEF MainIInv

LEMMA MainStep == MainIInv /\ [MainNext]_mainVars => MainIInv'
<1> SUFFICES ASSUME MainIInv, [MainNext]_mainVars PROVE MainIInv'
  OBVIOUS
<1>1. CASE UNCHANGED mainVars
  <2>1. UNCHANGED <<phase, pending, calls, managers, stopping, up, signaled_reload, owed,
                    now, nexttick, game_ticks>>
    BY <1>1 DEF mainVars, init, flags, clock
  <2>2. MainTypeOK' /\ TicksDue' /\ HangupRemembered'
    BY <2>1 DEF MainIInv, MainTypeOK, HangupRemembered, TicksDue
  <2>3. NeedsFirst'
    BY <2>1 DEF MainIInv, NeedsFirst
  <2>4. StopsInOrder'
    BY <2>1 DEF MainIInv, StopsInOrder, InSeq
  <2> QED BY <2>2, <2>3, <2>4 DEF MainIInv
<1>2. CASE MainNext
  BY <1>2, InitializingKeeps, GameTickKeeps, StoppingKeeps, OthersKeep DEF MainNext, Process
<1> QED BY <1>1, <1>2

(* Whatever order the managers registered in and whenever signals come:    *)
(* who is ready came behind all it needs, and goes before them.            *)
THEOREM MainInvariance == MainSpec => []MainIInv
BY MainInitIInv, MainStep, PTL DEF MainSpec

LEMMA MainIInvEnough == MainIInv => NeedsAreUp /\ HangupRemembered /\ TicksInTime
<1> SUFFICES ASSUME MainIInv PROVE NeedsAreUp /\ HangupRemembered /\ TicksInTime
  OBVIOUS
<1>1. Len(managers) \in Nat /\ Len(stopping) \in Nat
  BY SeqMembers DEF MainIInv, MainTypeOK
<1>2. \A i, j \in 1 .. Len(managers) : managers[i] = managers[j] => i = j
  <2> SUFFICES ASSUME NEW i \in 1 .. Len(managers), NEW j \in 1 .. Len(managers), i < j
               PROVE  managers[i] # managers[j]
    BY <1>1
  <2>1. i \in 1 .. j - 1
    BY <1>1
  <2> QED BY <2>1 DEF MainIInv, NeedsFirst
<1>3. PICK l \in 0 .. Len(managers) : up = {managers[i] : i \in 1 .. l}
  <2>1. CASE phase = "exit"
    BY <1>1, <2>1 DEF MainIInv, StopsInOrder
  <2>2. CASE phase = "down"
    BY <1>1, <2>2 DEF MainIInv, StopsInOrder
  <2>3. CASE phase \notin {"down", "exit"}
    BY <1>1, <2>3 DEF MainIInv, StopsInOrder, InSeq
  <2> QED BY <2>1, <2>2, <2>3
<1>4. \A m \in up : Needs[m] \subseteq up
  <2> SUFFICES ASSUME NEW i \in 1 .. l, NEW n \in Needs[managers[i]] PROVE n \in up
    BY <1>3
  <2>1. PICK j \in 1 .. i - 1 : managers[j] = n
    BY <1>1, <1>3 DEF MainIInv, NeedsFirst
  <2>2. j \in 1 .. l
    BY <1>1, <1>3
  <2> QED BY <1>3, <2>1, <2>2
<1> QED BY <1>2, <1>4 DEF MainIInv, NeedsAreUp, TicksInTime, TicksDue

-----------------------------------------------------------------------------
(* The PID file: who runs holds the lock of the file it opened.            *)
PidIInv ==
    /\ pc \in [Servers -> {"off", "opened", "running", "failed", "ended"}]
    /\ fd \in [Servers -> 0 .. MaxFiles] /\ lock \in [1 .. MaxFiles -> Servers \cup {"nobody"}]
    /\ made \in 0 .. MaxFiles /\ path \in 0 .. MaxFiles
    /\ \A p \in Servers : /\ pc[p] \in {"opened", "running"} => fd[p] \in 1 .. MaxFiles
                          /\ pc[p] = "running" => lock[fd[p]] = p

LEMMA PidInitIInv == PidInit => PidIInv
BY MainAssumption DEF PidInit, PidIInv

LEMMA PidStep == PidIInv /\ [PidNext]_pidVars => PidIInv'
<1> SUFFICES ASSUME PidIInv, [PidNext]_pidVars PROVE PidIInv'
  OBVIOUS
<1>1. ASSUME NEW p \in Servers, OpenPidFile(p) PROVE PidIInv'
  <2>1. fd' = [fd EXCEPT ![p] = path'] /\ path' \in 1 .. MaxFiles /\ made' \in 0 .. MaxFiles
    BY <1>1, MainAssumption DEF OpenPidFile, PidIInv
  <2>2. pc[p] = "off" /\ pc' = [pc EXCEPT ![p] = "opened"] /\ lock' = lock
    BY <1>1 DEF OpenPidFile
  <2> QED BY <2>1, <2>2 DEF PidIInv
<1>2. ASSUME NEW p \in Servers, LockPidFile(p) PROVE PidIInv'
  <2>1. pc[p] = "opened" /\ fd[p] \in 1 .. MaxFiles /\ UNCHANGED <<fd, path, made>>
    BY <1>2 DEF LockPidFile, PidIInv
  <2>2. CASE lock[fd[p]] = "nobody"
    <3>1. pc' = [pc EXCEPT ![p] = "running"] /\ lock' = [lock EXCEPT ![fd[p]] = p]
      BY <1>2, <2>2 DEF LockPidFile
    <3>2. \A q \in Servers : pc[q] = "running" => fd[q] # fd[p]
      BY <2>2, MainAssumption DEF PidIInv
    <3> QED BY <2>1, <3>1, <3>2 DEF PidIInv
  <2>3. CASE lock[fd[p]] # "nobody"
    <3>1. pc' = [pc EXCEPT ![p] = "failed"] /\ lock' = lock
      BY <1>2, <2>3 DEF LockPidFile
    <3> QED BY <2>1, <3>1 DEF PidIInv
  <2> QED BY <2>2, <2>3
<1>3. ASSUME NEW p \in Servers, NEW c \in BOOLEAN, Ends(p, c) PROVE PidIInv'
  <2>1. /\ pc[p] = "running" /\ fd[p] \in 1 .. MaxFiles /\ lock[fd[p]] = p
        /\ pc' = [pc EXCEPT ![p] = "ended"] /\ lock' = [lock EXCEPT ![fd[p]] = "nobody"]
        /\ UNCHANGED <<fd, made>> /\ path' \in 0 .. MaxFiles
    BY <1>3, MainAssumption DEF Ends, PidIInv
  <2>2. \A q \in Servers : pc[q] = "running" /\ q # p => fd[q] # fd[p]
    BY <2>1 DEF PidIInv
  <2> QED BY <2>1, <2>2 DEF PidIInv
<1>4. CASE UNCHANGED pidVars
  BY <1>4 DEF pidVars, PidIInv
<1> QED BY <1>1, <1>2, <1>3, <1>4 DEF PidNext

(* However many servers start, stop and crash, a server that runs holds    *)
(* the lock of the file it opened.                                         *)
THEOREM PidInvariance == PidSpec => []PidIInv
BY PidInitIInv, PidStep, PTL DEF PidSpec

LEMMA PidIInvEnough == PidIInv => OneUnderTheName
BY DEF PidIInv, OneUnderTheName, Running

(* For any managers and needs, any clock and any number of servers: no     *)
(* manager is up without what it needs, no SIGHUP is lost, ticks are never *)
(* ahead of the clock, and one server runs under a name (main.cc,          *)
(* imanager.cc).                                                           *)
THEOREM ServerCorrect == MainSpec /\ PidSpec => []ServerRight
<1>1. MainIInv /\ PidIInv => ServerRight
  BY MainIInvEnough, PidIInvEnough DEF ServerRight
<1> QED BY <1>1, MainInvariance, PidInvariance, PTL
-----------------------------------------------------------------------------
(* Blueprints.  What is read of one before its end holds of it then: which *)
(* fields are set, from whom the others come; and it is nobody's parent    *)
(* while it is being read, so that what a parent gave does not change.     *)
ReadBlueprint ==
    [id : BlueprintIds \cup {""}, parent : Nat, value : [Fields -> Nat],
     set : SUBSET Flagged, given : [Fields -> Nat]]

Inherits(h, b) ==
    /\ h[b].parent < b
    /\ \A f \in Flagged :
          /\ f \in h[b].set <=> h[b].given[f] # Default
          /\ h[b].value[f] = IF f \in h[b].set THEN h[b].given[f]
                             ELSE IF h[b].parent = 0 THEN Default ELSE h[h[b].parent].value[f]

BlueprintsIInv ==
    /\ heap \in Seq(ReadBlueprint)
    /\ blueprints \in [BlueprintIds -> 0 .. Len(heap)]
    /\ reading \in BOOLEAN
    /\ reading => Len(heap) # 0 /\ \A i \in BlueprintIds : blueprints[i] < Len(heap)
    /\ \A b \in 1 .. Len(heap) : Inherits(heap, b)

LEMMA BlueprintFacts ==
    ASSUME heap \in Seq(ReadBlueprint)
    PROVE  /\ Len(heap) \in Nat /\ DOMAIN heap = 1 .. Len(heap)
           /\ \A b \in 1 .. Len(heap) : heap[b] \in ReadBlueprint
BY LenProperties, ElementOfSeq

LEMMA BlueprintsInitIInv == BlueprintsInit => BlueprintsIInv
<1> SUFFICES ASSUME BlueprintsInit PROVE BlueprintsIInv
  OBVIOUS
<1>1. heap \in Seq(ReadBlueprint) /\ Len(heap) = 0
  BY EmptySeq DEF BlueprintsInit
<1>2. blueprints \in [BlueprintIds -> 0 .. Len(heap)] /\ reading = FALSE
  BY <1>1 DEF BlueprintsInit
<1>3. \A b \in 1 .. Len(heap) : Inherits(heap, b)
  BY <1>1
<1> QED BY <1>1, <1>2, <1>3 DEF BlueprintsIInv

(* A blueprint begins with nothing of its own.                             *)
LEMMA BeginKeeps == BlueprintsIInv /\ Begin => BlueprintsIInv'
<1> SUFFICES ASSUME BlueprintsIInv, Begin PROVE BlueprintsIInv'
  OBVIOUS
<1> DEFINE new == [id |-> "", parent |-> 0, value |-> [f \in Fields |-> Default],
                   set |-> {}, given |-> [f \in Fields |-> Default]]
<1>1. heap \in Seq(ReadBlueprint) /\ new \in ReadBlueprint
  BY DEF BlueprintsIInv, ReadBlueprint, Default
<1>2. heap' = Append(heap, new)
  BY DEF Begin
<1>0. new.parent = 0 /\ new.set = {} /\ \A f \in Fields : new.given[f] = Default /\ new.value[f] = Default
  OBVIOUS
<1> HIDE DEF new
<1>3. /\ heap' \in Seq(ReadBlueprint) /\ Len(heap') = Len(heap) + 1
      /\ heap'[Len(heap) + 1] = new
      /\ \A b \in 1 .. Len(heap) : heap'[b] = heap[b]
  BY <1>1, <1>2, AppendProperties
<1>4. Len(heap) \in Nat /\ \A b \in 1 .. Len(heap) : heap[b] \in ReadBlueprint
  BY <1>1, BlueprintFacts
<1>5. ASSUME NEW b \in 1 .. Len(heap) PROVE Inherits(heap', b)
  <2>1. Inherits(heap, b) /\ heap[b].parent \in Nat
    BY <1>4 DEF BlueprintsIInv, ReadBlueprint
  <2>2. heap[b].parent # 0 => heap[b].parent \in 1 .. Len(heap)
    BY <2>1, <1>4 DEF Inherits
  <2> QED BY <2>1, <2>2, <1>3 DEF Inherits
<1>6. Inherits(heap', Len(heap) + 1)
  <2>1. Len(heap) + 1 > 0 /\ Flagged \subseteq Fields
    BY <1>4 DEF Fields
  <2> QED BY <1>0, <1>3, <2>1 DEF Inherits
<1>7. ASSUME NEW b \in 1 .. Len(heap') PROVE Inherits(heap', b)
  <2>1. b \in 1 .. Len(heap) \/ b = Len(heap) + 1
    BY <1>3, <1>4
  <2> QED BY <1>5, <1>6, <2>1
<1>8. /\ blueprints' = blueprints /\ reading'
      /\ \A i \in BlueprintIds : blueprints[i] \in 0 .. Len(heap') /\ blueprints[i] < Len(heap')
  <2>1. /\ blueprints' = blueprints /\ reading'
        /\ blueprints \in [BlueprintIds -> 0 .. Len(heap)]
    BY DEF Begin, BlueprintsIInv
  <2>2. ASSUME NEW i \in BlueprintIds
        PROVE  blueprints[i] \in 0 .. Len(heap') /\ blueprints[i] < Len(heap')
    <3>1. blueprints[i] \in 0 .. Len(heap)
      BY <2>1
    <3> QED BY <1>3, <1>4, <3>1
  <2> QED BY <2>1, <2>2
<1>9. Len(heap') # 0 /\ blueprints \in [BlueprintIds -> 0 .. Len(heap')]
  BY <1>3, <1>4, <1>8 DEF BlueprintsIInv
<1> QED BY <1>3, <1>7, <1>8, <1>9 DEF BlueprintsIInv

(* A node changes the blueprint that is being read.                        *)
LEMMA NodeKeeps ==
    ASSUME BlueprintsIInv, Node, NEW r \in ReadBlueprint,
           heap' = [heap EXCEPT ![Len(heap)] = r], r.parent < Len(heap),
           \A f \in Flagged :
              /\ f \in r.set <=> r.given[f] # Default
              /\ r.value[f] = IF f \in r.set THEN r.given[f]
                              ELSE IF r.parent = 0 THEN Default ELSE heap[r.parent].value[f]
    PROVE  BlueprintsIInv'
<1>1. heap \in Seq(ReadBlueprint) /\ reading
  BY DEF BlueprintsIInv, Node
<1>2. /\ Len(heap) \in Nat /\ Len(heap) # 0
      /\ \A b \in 1 .. Len(heap) : heap[b] \in ReadBlueprint
  BY <1>1, BlueprintFacts DEF BlueprintsIInv
<1>3. Len(heap) \in 1 .. Len(heap)
  BY <1>2
<1>4. /\ heap' \in Seq(ReadBlueprint) /\ Len(heap') = Len(heap)
      /\ \A b \in 1 .. Len(heap) : heap'[b] = IF b = Len(heap) THEN r ELSE heap[b]
  BY <1>1, <1>3, ExceptSeq
<1>5. ASSUME NEW b \in 1 .. Len(heap) PROVE Inherits(heap', b)
  <2>1. Inherits(heap, b) /\ heap[b].parent \in Nat /\ r.parent \in Nat
    BY <1>2 DEF BlueprintsIInv, ReadBlueprint
  <2>2. CASE b = Len(heap)
    <3>1. heap'[b] = r /\ (r.parent # 0 => heap'[r.parent] = heap[r.parent])
      BY <1>2, <1>4, <2>1, <2>2
    <3> QED BY <2>2, <3>1 DEF Inherits
  <2>3. CASE b # Len(heap)
    <3>1. heap'[b] = heap[b] /\ (heap[b].parent # 0 => heap'[heap[b].parent] = heap[heap[b].parent])
      <4>1. heap[b].parent < b
        BY <2>1 DEF Inherits
      <4> QED BY <1>2, <1>4, <2>1, <2>3, <4>1
    <3> QED BY <2>1, <3>1 DEF Inherits
  <2> QED BY <2>2, <2>3
<1> QED BY <1>4, <1>5 DEF Node, BlueprintsIInv

LEMMA Changed ==
    ASSUME NEW b \in ReadBlueprint, NEW f \in Fields, NEW v, NEW p
    PROVE  /\ [b EXCEPT !.value[f] = v, !.given[f] = v,
                        !.set = IF f \in Flagged THEN @ \cup {f} ELSE @] =
                 [id |-> b.id, parent |-> b.parent, value |-> [b.value EXCEPT ![f] = v],
                  set |-> IF f \in Flagged THEN b.set \cup {f} ELSE b.set,
                  given |-> [b.given EXCEPT ![f] = v]]
           /\ Refresh(b, p) =
                 [id |-> b.id, parent |-> p,
                  value |-> [g \in Fields |-> IF g \in b.set THEN b.value[g] ELSE heap[p].value[g]],
                  set |-> b.set, given |-> b.given]
<1>1. PICK i, q, w, S, g : b = [id |-> i, parent |-> q, value |-> w, set |-> S, given |-> g]
  BY DEF ReadBlueprint
<1>2. b.id = i /\ b.parent = q /\ b.value = w /\ b.set = S /\ b.given = g
  BY <1>1
<1> DEFINE X == IF f \in Flagged THEN S \cup {f} ELSE S
           Y == [h \in Fields |-> IF h \in S THEN w[h] ELSE heap[p].value[h]]
<1>3. [b EXCEPT !.value[f] = v, !.given[f] = v,
                !.set = IF f \in Flagged THEN @ \cup {f} ELSE @] =
        [id |-> i, parent |-> q, value |-> [w EXCEPT ![f] = v], set |-> X,
         given |-> [g EXCEPT ![f] = v]]
  <2>1. [b EXCEPT !.value[f] = v, !.given[f] = v,
                  !.set = IF f \in Flagged THEN @ \cup {f} ELSE @] =
          [[[b EXCEPT !.value[f] = v] EXCEPT !.given[f] = v] EXCEPT !.set = X]
    BY ONLY <1>2
  <2>2. PICK w1, g1, c : w1 = [w EXCEPT ![f] = v] /\ g1 = [g EXCEPT ![f] = v] /\ c = [b EXCEPT !.value[f] = v]
    OBVIOUS
  <2>3. c = [id |-> i, parent |-> q, value |-> w1, set |-> S, given |-> g]
    BY ONLY <1>1, <2>2
  <2>4. PICK d : d = [c EXCEPT !.given[f] = v]
    OBVIOUS
  <2>5. d = [id |-> i, parent |-> q, value |-> w1, set |-> S, given |-> g1]
    BY ONLY <2>2, <2>3, <2>4
  <2> HIDE DEF X
  <2>6. [d EXCEPT !.set = X] = [id |-> i, parent |-> q, value |-> w1, set |-> X, given |-> g1]
    BY ONLY <2>5
  <2> QED BY ONLY <2>1, <2>2, <2>4, <2>6
<1>4. Refresh(b, p) = [id |-> i, parent |-> p, value |-> Y, set |-> S, given |-> g]
  <2>1. Refresh(b, p) = [[b EXCEPT !.parent = p] EXCEPT !.value = Y]
    BY ONLY <1>2 DEF Refresh
  <2>2. [b EXCEPT !.parent = p] = [id |-> i, parent |-> p, value |-> w, set |-> S, given |-> g]
    BY ONLY <1>1
  <2> HIDE DEF Y
  <2> QED BY ONLY <2>1, <2>2
<1> QED BY <1>2, <1>3, <1>4

LEMMA ReadKeeps ==
    ASSUME BlueprintsIInv,
           \/ \E i \in BlueprintIds : ReadId(i) \/ ReadParent(i)
           \/ \E f \in Fields, v \in Values : ReadValue(f, v)
    PROVE  BlueprintsIInv'
<1> DEFINE newest == heap[Len(heap)]
<1>1. Node /\ reading /\ heap \in Seq(ReadBlueprint) /\ Len(heap) # 0
  BY DEF BlueprintsIInv, ReadId, ReadParent, ReadValue, Node
<1>2. Len(heap) \in 1 .. Len(heap)
  BY <1>1, BlueprintFacts
<1>3. newest \in ReadBlueprint /\ Inherits(heap, Len(heap))
  BY <1>1, <1>2, BlueprintFacts DEF BlueprintsIInv
<1>4. /\ newest.id \in BlueprintIds \cup {""} /\ newest.parent \in Nat
      /\ newest.value \in [Fields -> Nat] /\ newest.set \in SUBSET Flagged
      /\ newest.given \in [Fields -> Nat]
      /\ newest = [id |-> newest.id, parent |-> newest.parent, value |-> newest.value,
                 set |-> newest.set, given |-> newest.given]
  BY <1>3 DEF ReadBlueprint
<1>5. ASSUME NEW i \in BlueprintIds, ReadId(i) PROVE BlueprintsIInv'
  <2> DEFINE r == [newest EXCEPT !.id = i]
  <2>1. heap' = [heap EXCEPT ![Len(heap)] = r]
    BY <1>5 DEF ReadId, Last
  <2>2. r \in ReadBlueprint
    BY <1>3 DEF ReadBlueprint
  <2>3. /\ r.parent = newest.parent /\ r.value = newest.value
        /\ r.set = newest.set /\ r.given = newest.given
    BY <1>3 DEF ReadBlueprint
  <2> HIDE DEF r
  <2>4. /\ r.parent < Len(heap)
        /\ \A f \in Flagged :
              /\ f \in r.set <=> r.given[f] # Default
              /\ r.value[f] = IF f \in r.set THEN r.given[f]
                              ELSE IF r.parent = 0 THEN Default ELSE heap[r.parent].value[f]
    BY <1>3, <2>3 DEF Inherits
  <2> QED BY ONLY <1>1, <2>1, <2>2, <2>4, BlueprintsIInv, NodeKeeps
<1>6. ASSUME NEW f \in Fields, NEW v \in Values, ReadValue(f, v) PROVE BlueprintsIInv'
  <2> DEFINE r == [id |-> newest.id, parent |-> newest.parent, value |-> [newest.value EXCEPT ![f] = v],
                   set |-> IF f \in Flagged THEN newest.set \cup {f} ELSE newest.set,
                   given |-> [newest.given EXCEPT ![f] = v]]
  <2>1. heap' = [heap EXCEPT ![Len(heap)] = r]
    <3>1. heap' = [heap EXCEPT ![Last].value[f] = v, ![Last].given[f] = v,
                               ![Last].set = IF f \in Flagged THEN @ \cup {f} ELSE @]
      BY <1>6 DEF ReadValue
    <3>2. Last = Len(heap) /\ Last \in DOMAIN heap
      BY <1>1, <1>2, BlueprintFacts DEF Last
    <3>3. heap' = [heap EXCEPT ![Last] =
                     [heap[Last] EXCEPT !.value[f] = v, !.given[f] = v,
                                        !.set = IF f \in Flagged THEN @ \cup {f} ELSE @]]
      BY <3>1, <3>2
    <3>4. [newest EXCEPT !.value[f] = v, !.given[f] = v,
                       !.set = IF f \in Flagged THEN @ \cup {f} ELSE @] = r
      BY <1>3, Changed DEF Values
    <3> QED BY <3>2, <3>3, <3>4
  <2>2. v \in Nat /\ v # Default
    BY DEF Values, Default
  <2>3. /\ r.parent = newest.parent /\ r.value = [newest.value EXCEPT ![f] = v]
        /\ r.set = (IF f \in Flagged THEN newest.set \cup {f} ELSE newest.set)
        /\ r.given = [newest.given EXCEPT ![f] = v]
    OBVIOUS
  <2>4. r \in ReadBlueprint
    BY <1>4, <2>2, <2>3 DEF ReadBlueprint
  <2> HIDE DEF r
  <2>6. ASSUME NEW g \in Flagged
        PROVE  /\ g \in r.set <=> r.given[g] # Default
               /\ r.value[g] = IF g \in r.set THEN r.given[g]
                               ELSE IF r.parent = 0 THEN Default ELSE heap[r.parent].value[g]
    <3>1. /\ g \in Fields
          /\ g \in newest.set <=> newest.given[g] # Default
          /\ newest.value[g] = IF g \in newest.set THEN newest.given[g]
                             ELSE IF newest.parent = 0 THEN Default ELSE heap[newest.parent].value[g]
      BY <1>3 DEF Inherits, Fields
    <3>2. CASE g = f
      <4>1. g \in r.set /\ r.value[g] = v /\ r.given[g] = v
        BY <1>4, <2>3, <3>1, <3>2
      <4> QED BY <2>2, <4>1
    <3>3. CASE g # f
      <4>1. (g \in r.set <=> g \in newest.set) /\ r.value[g] = newest.value[g] /\ r.given[g] = newest.given[g]
        <5>1. \A S : (g \in (IF f \in Flagged THEN S \cup {f} ELSE S)) <=> g \in S
          BY <3>3
        <5>2. r.value[g] = newest.value[g] /\ r.given[g] = newest.given[g]
          BY <1>4, <2>3, <3>1, <3>3
        <5> QED BY <2>3, <5>1, <5>2
      <4> QED BY <2>3, <3>1, <4>1
    <3> QED BY <3>2, <3>3
  <2>7. r.parent < Len(heap)
    BY <1>3, <2>3 DEF Inherits
  <2> QED BY <1>1, <2>1, <2>4, <2>6, <2>7, NodeKeeps
<1>7. ASSUME NEW i \in BlueprintIds, ReadParent(i) PROVE BlueprintsIInv'
  <2>1. CASE blueprints[i] = 0
    BY <1>7, <2>1 DEF ReadParent, Node, BlueprintsIInv
  <2>2. CASE blueprints[i] # 0
    <3> DEFINE p == blueprints[i]
               r == [id |-> newest.id, parent |-> p,
                     value |-> [f \in Fields |-> IF f \in newest.set THEN newest.value[f] ELSE heap[p].value[f]],
                     set |-> newest.set, given |-> newest.given]
    <3>1. p \in 1 .. Len(heap) /\ p \in Nat /\ p < Len(heap)
      BY <1>1, <1>2, <2>2 DEF BlueprintsIInv
    <3>2. heap[p].value \in [Fields -> Nat]
      BY <1>1, <3>1, BlueprintFacts DEF ReadBlueprint
    <3>3. heap' = [heap EXCEPT ![Len(heap)] = r]
      <4>1. heap' = [heap EXCEPT ![Last] = Refresh(heap[Last], p)]
        BY <1>7, <2>2 DEF ReadParent
      <4>2. Refresh(newest, p) = r
        <5>1. "name" \in Fields
          BY DEF Fields, Flagged
        <5> QED BY <1>3, <5>1, Changed
      <4> QED BY <4>1, <4>2 DEF Last
    <3>4. /\ r.parent = p /\ r.set = newest.set /\ r.given = newest.given
          /\ r.value = [f \in Fields |-> IF f \in newest.set THEN newest.value[f] ELSE heap[p].value[f]]
      OBVIOUS
    <3>5. r \in ReadBlueprint
      BY <1>4, <3>1, <3>2 DEF ReadBlueprint
    <3> HIDE DEF r
    <3>7. ASSUME NEW g \in Flagged
          PROVE  /\ g \in r.set <=> r.given[g] # Default
                 /\ r.value[g] = IF g \in r.set THEN r.given[g]
                                 ELSE IF r.parent = 0 THEN Default ELSE heap[r.parent].value[g]
      BY <1>3, <2>2, <3>4 DEF Inherits, Fields
    <3>8. r.parent < Len(heap)
      BY <3>1, <3>4
    <3> QED BY <1>1, <3>3, <3>5, <3>7, <3>8, NodeKeeps
  <2> QED BY <2>1, <2>2
<1> QED BY <1>5, <1>6, <1>7

(* A blueprint that ends can be a parent.                                  *)
LEMMA EndKeeps == BlueprintsIInv /\ End => BlueprintsIInv'
<1> SUFFICES ASSUME BlueprintsIInv, End PROVE BlueprintsIInv'
  OBVIOUS
<1>1. Len(heap) \in Nat /\ heap' = heap
  BY BlueprintFacts DEF BlueprintsIInv, End
<1>2. blueprints' \in [BlueprintIds -> 0 .. Len(heap)]
  <2>1. blueprints \in [BlueprintIds -> 0 .. Len(heap)] /\ Len(heap) \in 0 .. Len(heap)
    BY <1>1 DEF BlueprintsIInv
  <2>2. blueprints' = blueprints \/ blueprints' = [blueprints EXCEPT ![heap[Last].id] = Len(heap)]
    BY DEF End, Last
  <2> QED BY <2>1, <2>2
<1> QED BY <1>1, <1>2 DEF BlueprintsIInv, End

LEMMA BlueprintsStep == BlueprintsIInv /\ [BlueprintsNext]_blueprintsVars => BlueprintsIInv'
<1> SUFFICES ASSUME BlueprintsIInv, [BlueprintsNext]_blueprintsVars PROVE BlueprintsIInv'
  OBVIOUS
<1>1. CASE Unknown
  BY <1>1 DEF Unknown, BlueprintsIInv
<1>2. CASE \E i \in BlueprintIds : LoadNpc(i)
  BY <1>2 DEF LoadNpc, BlueprintsIInv
<1>3. CASE UNCHANGED blueprintsVars
  BY <1>3 DEF blueprintsVars, BlueprintsIInv
<1> QED BY <1>1, <1>2, <1>3, BeginKeeps, ReadKeeps, EndKeeps DEF BlueprintsNext

(* A set of numbers that is not empty has a least element.                 *)
LEMMA LeastOf ==
    ASSUME NEW T \in SUBSET Nat, T # {}
    PROVE  \E m \in T : \A k \in T : m <= k
<1>1. PICK R : IsWellFoundedOn(R, Nat) /\ \A a, b \in Nat : a < b => <<a, b>> \in R
  <2>1. IsWellFoundedOn(OpToRel(<, Nat), Nat)
    BY NatLessThanWellFounded, Zenon
  <2>2. \A a, b \in Nat : a < b => <<a, b>> \in OpToRel(<, Nat)
    BY Zenon DEF OpToRel
  <2> QED BY <2>1, <2>2
<1>2. IsWellFoundedOn(R, Nat)
  BY <1>1
<1>3. PICK m \in T : \A y \in T : ~(<<y, m>> \in R)
  BY <1>2, WFMin
<1>4. \A k \in T : ~(k < m)
  BY <1>1, <1>3
<1> QED BY <1>4

(* The line of a blueprint is itself and the line of its parent.           *)
LEMMA LineIs ==
    ASSUME BlueprintsIInv, NEW b \in 1 .. Len(heap)
    PROVE  /\ Line(b) \subseteq 1 .. b /\ b \in Line(b)
           /\ heap[b].parent = 0 => Line(b) = {b}
           /\ heap[b].parent # 0 => Line(b) = {b} \cup Line(heap[b].parent)
<1>1. /\ Len(heap) \in Nat /\ DOMAIN heap = 1 .. Len(heap)
      /\ \A c \in 1 .. Len(heap) : heap[c].parent \in Nat /\ heap[c].parent < c
  BY BlueprintFacts DEF BlueprintsIInv, Inherits, ReadBlueprint
<1> DEFINE Closed(S) == \A c \in S : heap[c].parent \in S \cup {0}
           p == heap[b].parent
<1>2. ASSUME NEW c \in 1 .. Len(heap)
      PROVE  /\ \A a \in Line(c), S \in SUBSET DOMAIN heap : c \in S /\ Closed(S) => a \in S
             /\ \A a \in DOMAIN heap :
                   (\A S \in SUBSET DOMAIN heap : c \in S /\ Closed(S) => a \in S) => a \in Line(c)
             /\ Line(c) \subseteq DOMAIN heap
  BY DEF Line
<1>3. b \in Line(b)
  BY <1>1 DEF Line
<1>4. Line(b) \subseteq 1 .. b
  <2>1. (1 .. b) \in SUBSET DOMAIN heap /\ Closed(1 .. b) /\ b \in 1 .. b
    BY <1>1
  <2> HIDE DEF Closed
  <2> QED BY <1>2, <2>1
<1>5. ASSUME p = 0 PROVE Line(b) = {b}
  <2>1. {b} \in SUBSET DOMAIN heap /\ Closed({b})
    BY <1>1, <1>5
  <2> HIDE DEF Closed
  <2>2. Line(b) \subseteq {b}
    BY <1>2, <2>1
  <2> QED BY <1>3, <2>2
<1>6. ASSUME p # 0 PROVE Line(b) = {b} \cup Line(p)
  <2>1. p \in 1 .. Len(heap)
    BY <1>1, <1>6
  <2>2. p \in Line(p) /\ Closed(Line(p)) /\ Line(p) \subseteq DOMAIN heap
    <3>1. ASSUME NEW c \in Line(p), heap[c].parent # 0
          PROVE  heap[c].parent \in Line(p)
      <4>1. c \in 1 .. Len(heap) /\ heap[c].parent \in DOMAIN heap
        BY <1>1, <1>2, <2>1, <3>1
      <4> QED BY <1>2, <2>1, <3>1, <4>1
    <3> QED BY <1>1, <1>2, <2>1, <3>1
  <2>3. Line(b) \subseteq {b} \cup Line(p)
    <3>1. ({b} \cup Line(p)) \in SUBSET DOMAIN heap /\ Closed({b} \cup Line(p))
      BY <1>1, <2>2
    <3> HIDE DEF Closed
    <3> QED BY <1>2, <3>1
  <2>4. Line(p) \subseteq Line(b)
    <3> SUFFICES ASSUME NEW a \in Line(p), NEW S \in SUBSET DOMAIN heap, b \in S, Closed(S)
                 PROVE  a \in S
      BY <1>2, <2>1, <2>2
    <3>1. p \in S
      BY <1>6
    <3> QED BY <1>2, <2>1, <3>1
  <2> QED BY <1>3, <2>3, <2>4
<1> QED BY <1>3, <1>4, <1>5, <1>6

(* What a blueprint has of its own it has; else it has what its parent has.*)
LEMMA NearestIs ==
    ASSUME BlueprintsIInv, NEW b \in 1 .. Len(heap), NEW f \in Flagged
    PROVE  Nearest(b, f) = IF heap[b].given[f] # Default THEN heap[b].given[f]
                           ELSE IF heap[b].parent = 0 THEN Default ELSE Nearest(heap[b].parent, f)
<1> DEFINE p == heap[b].parent
<1>1. CASE heap[b].given[f] # Default
  <2>1. b \in Givers(b, f) /\ \A c \in Givers(b, f) : c \in 1 .. b
    BY <1>1, LineIs DEF Givers
  <2>2. \A a \in Givers(b, f) : (\A c \in Givers(b, f) : c <= a) <=> a = b
    BY <2>1
  <2>3. (CHOOSE a \in Givers(b, f) : \A c \in Givers(b, f) : c <= a) = b
    BY <2>1, <2>2
  <2> QED BY <1>1, <2>1, <2>3 DEF Nearest
<1>2. CASE heap[b].given[f] = Default /\ p = 0
  <2>1. Givers(b, f) = {}
    BY <1>2, LineIs DEF Givers
  <2> QED BY <1>2, <2>1 DEF Nearest
<1>3. CASE heap[b].given[f] = Default /\ p # 0
  <2>1. Givers(b, f) = Givers(p, f)
    BY <1>3, LineIs DEF Givers
  <2> QED BY <1>3, <2>1 DEF Nearest
<1> QED BY <1>1, <1>2, <1>3

(* ... and so on, up to the first of the line.                             *)
LEMMA BlueprintsIInvEnough == BlueprintsIInv => InheritsNearest
<1> SUFFICES ASSUME BlueprintsIInv PROVE InheritsNearest
  OBVIOUS
<1>1. /\ Len(heap) \in Nat /\ DOMAIN heap = 1 .. Len(heap)
      /\ \A c \in 1 .. Len(heap) : heap[c].parent \in Nat /\ Inherits(heap, c)
  BY BlueprintFacts DEF BlueprintsIInv, ReadBlueprint
<1>2. ASSUME NEW f \in Flagged
      PROVE  \A b \in 1 .. Len(heap) : heap[b].value[f] = Nearest(b, f)
  <2> DEFINE wrong == {b \in 1 .. Len(heap) : heap[b].value[f] # Nearest(b, f)}
  <2> SUFFICES ASSUME wrong # {} PROVE FALSE
    OBVIOUS
  <2>1. PICK b \in wrong : \A c \in wrong : b <= c
    <3>1. wrong \in SUBSET Nat
      BY <1>1
    <3> HIDE DEF wrong
    <3> QED BY <3>1, LeastOf
  <2>2. /\ b \in 1 .. Len(heap) /\ Inherits(heap, b) /\ heap[b].parent \in Nat
        /\ heap[b].value[f] # Nearest(b, f)
    BY <1>1
  <2>3. heap[b].parent # 0 =>
            heap[heap[b].parent].value[f] = Nearest(heap[b].parent, f)
    BY <1>1, <2>1, <2>2 DEF Inherits
  <2> HIDE DEF wrong
  <2> QED BY <2>2, <2>3, NearestIs DEF Inherits
<1> QED BY <1>1, <1>2 DEF InheritsNearest, Inherits

(* A blueprint has what the nearest blueprint of its line was given        *)
(* (npcbp.cc:110-173), of any number of blueprints with any nodes in any   *)
(* order.                                                                  *)
THEOREM InheritanceCorrect == BlueprintsSpec => []InheritsNearest
<1> QED BY BlueprintsInitIInv, BlueprintsStep, BlueprintsIInvEnough, PTL DEF BlueprintsSpec

-----------------------------------------------------------------------------
(* What is saved and loaded again.  A loader sets, from each attribute,    *)
(* the field that was written as it, and takes every field that is not     *)
(* lost from some attribute: so what is read back is what was there.       *)
Classes == {"Player", "Npc", "Object", "Room", "Portal", "Account"}

(* The fields a part of class c can have at all.                           *)
Has(c) == {w.field : w \in Writes[c] \cup Reads[c]}

Parts == [class : Classes, on : SUBSET UNION {Has(c) : c \in Classes}]
IsThing(t) ==
    /\ t \in Seq(Parts)
    /\ \A i \in DOMAIN t : t[i].on \subseteq Has(t[i].class)

SaveSteps == {"backup", "write", "rename"}

(* A file is what was saved last, unless that was moved away as a backup.  *)
PersistIInv ==
    /\ IsThing(thing) /\ IsThing(last)
    /\ disk \in {<<>>, Data(last)}
    /\ saving \in Seq(SaveSteps)

(* An attribute has the name of its field, but for the mark of what lies   *)
(* in an object, the direction of a portal in old files, and an account's  *)
(* time-out; and these names are no fields of their class, but the last.   *)
LEMMA AttributesNameFields ==
    ASSUME NEW c \in Classes, NEW w \in Writes[c] \cup Reads[c]
    PROVE  /\ \/ w.attr[2] = w.field
              \/ c = "Object" /\ w.field = "in_container" /\ w.attr[2] = "location"
              \/ c = "Portal" /\ w.field = "dir" /\ w.attr[2] = "direction"
              \/ c = "Account" /\ w.field = "timeout" /\ w.attr[2] = "maxactive"
           /\ c = "Object" => w.field # "location"
           /\ c = "Portal" => w.field # "direction"
<1> USE DEF W, Same, EntityWrites, CreatureWrites
<1>1. CASE c = "Player"
  BY <1>1 DEF Writes, Reads, PlayerWrites, PlayerReads
<1>2. CASE c = "Npc"
  BY <1>2 DEF Writes, Reads, NpcWrites, NpcReads
<1>3. CASE c = "Object"
  BY <1>3 DEF Writes, Reads, ObjectWrites, ObjectReads, EntityReads
<1>4. CASE c = "Room"
  BY <1>4 DEF Writes, Reads, RoomWrites, RoomReads
<1>5. CASE c = "Portal"
  BY <1>5 DEF Writes, Reads, PortalWrites, PortalReads
<1>6. CASE c = "Account"
  BY <1>6 DEF Writes, Reads, AccountWrites, AccountReads
<1> QED BY <1>1, <1>2, <1>3, <1>4, <1>5, <1>6 DEF Classes

(* The field a loader sets is the one that was written, or both are lost.  *)
LEMMA TakenIsWritten ==
    ASSUME NEW c \in Classes, NEW w \in Writes[c], NEW r \in Taken(c, w)
    PROVE  r.field = w.field \/ {r.field, w.field} \subseteq Lost(c)
<1>1. r \in Reads[c] /\ r.attr = w.attr
  BY DEF Taken
<1> QED BY <1>1, AttributesNameFields DEF Lost

(* Every field a class can have is written or lost.                        *)
LEMMA WrittenOrLost ==
    ASSUME NEW c \in Classes, NEW f \in Has(c)
    PROVE  f \in Lost(c) \/ \E w \in Writes[c] : w.field = f
<1> SUFFICES ASSUME NEW r \in Reads[c], r.field = f
             PROVE  f \in Lost(c) \/ \E w \in Writes[c] : w.field = f
  BY DEF Has
<1>1. CASE r \in Writes[c]
  BY <1>1
<1>2. CASE r \notin Writes[c]
  <2> USE DEF W, Same, Lost
  <2>1. CASE c = "Player"
    BY <1>2, <2>1 DEF Writes, Reads, PlayerReads
  <2>2. CASE c = "Npc"
    BY <1>2, <2>2 DEF Writes, Reads, NpcReads
  <2>3. CASE c = "Object"
    <3>1. r.field = "in_container"
      BY <1>2, <2>3 DEF Writes, Reads, ObjectReads, ObjectWrites, EntityReads
    <3>2. W("in_container", <<"object", "location">>, "bool") \in Writes[c]
      BY <2>3 DEF Writes, ObjectWrites
    <3> QED BY <3>1, <3>2
  <2>4. CASE c = "Room"
    BY <1>2, <2>4 DEF Writes, Reads, RoomReads
  <2>5. CASE c = "Portal"
    <3>1. r.field = "dir"
      BY <1>2, <2>5 DEF Writes, Reads, PortalReads
    <3>2. W("dir", <<"portal", "dir">>, "string") \in Writes[c]
      BY <2>5 DEF Writes, PortalWrites
    <3> QED BY <3>1, <3>2
  <2>6. CASE c = "Account"
    BY <1>2, <2>6 DEF Writes, Reads, AccountReads
  <2> QED BY <2>1, <2>2, <2>3, <2>4, <2>5, <2>6 DEF Classes
<1> QED BY <1>1, <1>2

LEMMA PartsAre == ASSUME NEW p \in Parts PROVE p.class \in Classes
BY DEF Parts

(* What is read back of a file that can be read is a thing, and the one    *)
(* that was saved.                                                         *)
LEMMA ReadBackIsAlike ==
    ASSUME NEW t, IsThing(t), Readable(Data(t))
    PROVE  IsThing(ReadBack(Data(t))) /\ Alike(ReadBack(Data(t)), t)
<1> DEFINE u == ReadBack(Data(t))
           on(i) == {r.field : r \in UNION {Taken(t[i].class, w) : w \in Data(t)[i].attrs}}
<1>1. Len(t) \in Nat /\ DOMAIN t = 1 .. Len(t) /\ DOMAIN Data(t) = DOMAIN t /\ DOMAIN u = DOMAIN t
  BY DEF IsThing, Data, ReadBack
<1>2. ASSUME NEW i \in DOMAIN t
      PROVE  /\ t[i] \in Parts /\ t[i].class \in Classes /\ t[i].on \subseteq Has(t[i].class)
             /\ Data(t)[i].attrs = {w \in Writes[t[i].class] : w.field \in t[i].on}
             /\ Data(t)[i].class = t[i].class
             /\ u[i] = [class |-> t[i].class, on |-> on(i)]
             /\ \A w \in Data(t)[i].attrs : Taken(t[i].class, w) # {}
  <2>1. t[i] \in Parts /\ t[i].class \in Classes /\ t[i].on \subseteq Has(t[i].class)
    BY PartsAre DEF IsThing
  <2>2. /\ Data(t)[i].attrs = {w \in Writes[t[i].class] : w.field \in t[i].on}
        /\ Data(t)[i].class = t[i].class
    BY DEF Data
  <2>3. u[i] = [class |-> t[i].class, on |-> on(i)]
    BY <1>1, <2>2 DEF ReadBack
  <2>4. \A w \in Data(t)[i].attrs : Taken(t[i].class, w) # {}
    BY <1>1, <2>2 DEF Readable
  <2> QED BY <2>1, <2>2, <2>3, <2>4
<1>3. ASSUME NEW i \in DOMAIN t PROVE on(i) \subseteq Has(t[i].class)
  BY DEF Has, Taken
<1>4. ASSUME NEW i \in DOMAIN t PROVE Kept(u[i]) = Kept(t[i])
  <2> DEFINE c == t[i].class
  <2>1. c \in Classes
    BY <1>2
  <2>2. ASSUME NEW f \in on(i), f \notin Lost(c) PROVE f \in t[i].on
    <3>1. PICK w \in Data(t)[i].attrs : \E r \in Taken(c, w) : r.field = f
      OBVIOUS
    <3>2. PICK r \in Taken(c, w) : r.field = f
      BY <3>1
    <3>3. w \in Writes[c] /\ w.field \in t[i].on
      BY <1>2
    <3>4. r.field = w.field \/ {r.field, w.field} \subseteq Lost(c)
      BY <2>1, <3>3, TakenIsWritten
    <3> QED BY <2>2, <3>2, <3>3, <3>4
  <2>3. ASSUME NEW f \in t[i].on, f \notin Lost(c) PROVE f \in on(i)
    <3>1. PICK w \in Writes[c] : w.field = f
      BY <1>2, <2>3, WrittenOrLost
    <3>2. w \in Data(t)[i].attrs
      BY <1>2, <3>1
    <3>3. PICK r \in Taken(c, w) : TRUE
      BY <1>2, <3>2
    <3>4. r.field = w.field \/ {r.field, w.field} \subseteq Lost(c)
      BY <2>1, TakenIsWritten
    <3>5. r.field = f
      BY <2>3, <3>1, <3>4
    <3> QED BY <3>2, <3>3, <3>5
  <2>4. u[i] = [class |-> c, on |-> on(i)]
    BY <1>2
  <2> HIDE DEF on, u
  <2>5. u[i].class = c /\ u[i].on = on(i)
    BY <2>4
  <2> QED BY <2>2, <2>3, <2>5 DEF Kept
<1>5. ASSUME NEW i \in DOMAIN t PROVE u[i] \in Parts /\ u[i].on \subseteq Has(u[i].class)
  <2>1. u[i] = [class |-> t[i].class, on |-> on(i)] /\ t[i].class \in Classes
    BY <1>2
  <2>2. on(i) \subseteq Has(t[i].class)
    BY <1>3
  <2> HIDE DEF u, on
  <2> QED BY <2>1, <2>2 DEF Parts
<1>6. u \in Seq(Parts)
  <2>1. \A i \in DOMAIN t : u[i] \in Parts
    BY <1>5
  <2>2. u = [i \in 1 .. Len(t) |-> u[i]]
    BY <1>1 DEF ReadBack
  <2> HIDE DEF u
  <2> QED BY <1>1, <2>1, <2>2
<1>7. Alike(u, t)
  <2> HIDE DEF u, on
  <2>1. ASSUME NEW i \in DOMAIN t PROVE u[i].class = t[i].class /\ Kept(u[i]) = Kept(t[i])
    <3>1. u[i] = [class |-> t[i].class, on |-> on(i)]
      BY <1>2
    <3> QED BY <1>4, <3>1
  <2> QED BY <1>1, <2>1 DEF Alike
<1> QED BY <1>1, <1>5, <1>6, <1>7 DEF IsThing

-----------------------------------------------------------------------------
LEMMA BareIsPart ==
    ASSUME NEW c \in Classes
    PROVE  Bare(c) \in Parts /\ Bare(c).class = c /\ Bare(c).on \subseteq Has(c)
<1>1. Fixed(c) \subseteq Has(c)
  <2>1. CASE c = "Object"
    <3>1. W("blueprint", <<"object", "blueprint">>, "string") \in Writes[c]
      BY <2>1 DEF Writes, ObjectWrites, Same
    <3> QED BY <2>1, <3>1 DEF Fixed, Has, W
  <2>2. CASE c = "Npc"
    <3>1. W("blueprint", <<"npc", "blueprint">>, "string") \in Writes[c]
      BY <2>2 DEF Writes, NpcWrites, Same
    <3> QED BY <2>2, <3>1 DEF Fixed, Has, W
  <2> QED BY <2>1, <2>2 DEF Fixed
<1> QED BY <1>1 DEF Bare, Parts

LEMMA PersistInitIInv == PersistInit => PersistIInv
<1> SUFFICES ASSUME PersistInit PROVE PersistIInv
  OBVIOUS
<1>1. PICK c \in Classes : thing = <<Bare(c)>>
  BY DEF PersistInit, Classes
<1>2. IsThing(thing)
  BY <1>1, BareIsPart DEF IsThing
<1>3. last = <<>> /\ disk = <<>> /\ saving = <<>>
  BY DEF PersistInit
<1>4. IsThing(last)
  BY <1>3 DEF IsThing
<1> QED BY <1>2, <1>3, <1>4 DEF PersistIInv

LEMMA ChangeFieldKeeps == PersistIInv /\ ChangeField => IsThing(thing')
<1> SUFFICES ASSUME PersistIInv, ChangeField PROVE IsThing(thing')
  OBVIOUS
<1>1. PICK i \in DOMAIN thing : \E f \in FieldsOf(thing[i].class) :
        thing' = [thing EXCEPT ![i].on = IF f \in @ THEN @ \ {f} ELSE @ \cup {f}]
  BY DEF ChangeField
<1>2. PICK f \in FieldsOf(thing[i].class) :
        thing' = [thing EXCEPT ![i].on = IF f \in @ THEN @ \ {f} ELSE @ \cup {f}]
  BY <1>1
<1>3. thing \in Seq(Parts) /\ \A j \in DOMAIN thing : thing[j] \in Parts /\ thing[j].on \subseteq Has(thing[j].class)
  BY DEF PersistIInv, IsThing
<1>4. f \in Has(thing[i].class)
  BY DEF FieldsOf, Has
<1> DEFINE on == IF f \in thing[i].on THEN thing[i].on \ {f} ELSE thing[i].on \cup {f}
<1>5. on \subseteq Has(thing[i].class)
  BY <1>3, <1>4
<1>6. thing[i].class \in Classes
  BY <1>3 DEF Parts
<1>7. thing' = [thing EXCEPT ![i] = [class |-> thing[i].class, on |-> on]]
  <2>1. [thing[i] EXCEPT !.on = on] = [class |-> thing[i].class, on |-> on]
    <3>1. thing[i] \in Parts
      BY <1>3
    <3> QED BY <3>1 DEF Parts
  <2> QED BY <1>2, <2>1
<1> HIDE DEF on
<1>8. [class |-> thing[i].class, on |-> on] \in Parts
  BY <1>5, <1>6 DEF Parts
<1>9. thing' \in Seq(Parts)
  BY <1>3, <1>7, <1>8
<1>10. \A j \in DOMAIN thing' : thing'[j].on \subseteq Has(thing'[j].class)
  BY <1>3, <1>5, <1>7
<1> QED BY <1>9, <1>10 DEF IsThing

LEMMA ChangeKidKeeps == PersistIInv /\ ChangeKid => IsThing(thing')
<1> SUFFICES ASSUME PersistIInv, ChangeKid PROVE IsThing(thing')
  OBVIOUS
<1>1. /\ thing \in Seq(Parts)
      /\ \A j \in DOMAIN thing : /\ thing[j] \in Parts /\ thing[j].class \in Classes
                                 /\ thing[j].on \subseteq Has(thing[j].class)
  BY PartsAre DEF PersistIInv, IsThing
<1>2. \A c \in Classes : Holds[c] \subseteq Classes
  BY DEF Classes, Holds
<1>3. ASSUME NEW p \in Parts, p.on \subseteq Has(p.class) PROVE IsThing(Append(thing, p))
  <2>1. Append(thing, p) \in Seq(Parts)
    BY <1>1
  <2>2. ASSUME NEW i \in DOMAIN Append(thing, p)
        PROVE  Append(thing, p)[i] = p \/ (i \in DOMAIN thing /\ Append(thing, p)[i] = thing[i])
    BY <1>1
  <2> QED BY <1>1, <1>3, <2>1, <2>2 DEF IsThing
<1>4. CASE Len(thing) = 1 /\ \E c \in Holds[thing[1].class] : thing' = Append(thing, Bare(c))
  BY <1>1, <1>2, <1>3, <1>4, BareIsPart
<1>5. CASE /\ Len(thing) = 2
           /\ \E c \in Holds[thing[2].class] :
                 thing' = Append(thing, IF thing[2].class = "Object" THEN Inside(Bare(c)) ELSE Bare(c))
  <2>1. PICK c \in Holds[thing[2].class] :
           thing' = Append(thing, IF thing[2].class = "Object" THEN Inside(Bare(c)) ELSE Bare(c))
    BY <1>5
  <2>2. c \in Classes
    BY <1>1, <1>2, <1>5
  <2>3. CASE thing[2].class = "Object"
    <3>1. c = "Object"
      BY <2>3 DEF Holds
    <3>2. W("in_container", <<"object", "location">>, "bool") \in Writes[c]
      BY <3>1 DEF Writes, ObjectWrites
    <3>3. "in_container" \in Has(c)
      BY <3>2 DEF Has, W
    <3>4. Inside(Bare(c)) = [class |-> c, on |-> Bare(c).on \cup {"in_container"}]
      BY DEF Inside, Bare
    <3>5. Inside(Bare(c)) \in Parts /\ Inside(Bare(c)).on \subseteq Has(Inside(Bare(c)).class)
      BY <2>2, <3>3, <3>4, BareIsPart DEF Parts
    <3> QED BY <1>3, <2>1, <2>3, <3>5
  <2>4. CASE thing[2].class # "Object"
    BY <1>3, <2>1, <2>2, <2>4, BareIsPart
  <2> QED BY <2>3, <2>4
<1>6. CASE Len(thing) = 3 /\ thing' = <<thing[1], Outside(thing[3])>>
  <2>1. thing[1] \in Parts /\ thing[3] \in Parts
        /\ thing[1].on \subseteq Has(thing[1].class) /\ thing[3].on \subseteq Has(thing[3].class)
    BY <1>1, <1>6
  <2>2. Outside(thing[3]) = [class |-> thing[3].class, on |-> thing[3].on \ {"in_container"}]
    BY <2>1 DEF Outside, Parts
  <2>3. Outside(thing[3]) \in Parts /\ Outside(thing[3]).on \subseteq Has(Outside(thing[3]).class)
    BY <2>1, <2>2 DEF Parts
  <2> QED BY <1>6, <2>1, <2>3 DEF IsThing
<1>7. CASE Len(thing) > 1 /\ thing' = <<thing[1]>>
  <2>1. thing[1] \in Parts /\ thing[1].on \subseteq Has(thing[1].class)
    BY <1>1, <1>7
  <2> QED BY <1>7, <2>1 DEF IsThing
<1> QED BY <1>4, <1>5, <1>6, <1>7 DEF ChangeKid

LEMMA PersistStep == PersistIInv /\ [PersistNext]_persistVars => PersistIInv' /\ Restored
<1> SUFFICES ASSUME PersistIInv, [PersistNext]_persistVars PROVE PersistIInv' /\ Restored
  OBVIOUS
<1>1. IsThing(<<>>)
  BY DEF IsThing
<1>2. CASE ChangeField \/ ChangeKid
  <2>1. IsThing(thing')
    BY <1>2, ChangeFieldKeeps, ChangeKidKeeps
  <2>2. thing # <<>> /\ UNCHANGED <<disk, last, saving>>
    BY <1>2 DEF ChangeField, ChangeKid, MayChange
  <2> QED BY <2>1, <2>2 DEF PersistIInv, Restored, Data
<1>3. CASE SaveBegin
  <2>1. saving' \in Seq(SaveSteps)
    <3>1. <<"backup">> \in Seq(SaveSteps) /\ <<"write", "rename">> \in Seq(SaveSteps)
          /\ <<>> \in Seq(SaveSteps)
      BY DEF SaveSteps
    <3> QED BY <1>3, <3>1 DEF SaveBegin
  <2> QED BY <1>3, <2>1 DEF SaveBegin, PersistIInv, Restored, Data
<1>4. CASE SaveStep
  <2>1. UNCHANGED thing /\ Head(saving) \in SaveSteps /\ saving' \in Seq(SaveSteps)
    BY <1>4 DEF SaveStep, PersistIInv
  <2>2. CASE disk' = <<>> /\ UNCHANGED last
    BY <2>1, <2>2 DEF PersistIInv, Restored
  <2>3. CASE UNCHANGED <<disk, last>>
    BY <2>1, <2>3 DEF PersistIInv, Restored, Data
  <2>4. CASE disk' = Data(thing) /\ last' = thing
    BY <2>1, <2>4 DEF PersistIInv, Restored
  <2> QED BY <1>4, <2>1, <2>2, <2>3, <2>4 DEF SaveStep, SaveSteps
<1>5. CASE Leave
  BY <1>1, <1>5 DEF Leave, PersistIInv, Restored, Data
<1>6. CASE Load
  <2>1. disk = Data(last) /\ IsThing(last) /\ UNCHANGED <<disk, last, saving>>
    BY <1>6 DEF Load, PersistIInv
  <2>2. CASE Readable(disk)
    <3>1. thing' = ReadBack(Data(last))
      BY <1>6, <2>1, <2>2 DEF Load
    <3>2. IsThing(thing') /\ Alike(thing', last)
      BY <2>1, <2>2, <3>1, ReadBackIsAlike
    <3> QED BY <2>1, <3>2 DEF PersistIInv, Restored, Data
  <2>3. CASE ~Readable(disk)
    BY <1>1, <1>6, <2>1, <2>3 DEF Load, PersistIInv, Restored, Data
  <2> QED BY <2>2, <2>3
<1>7. CASE \E what \in {"room", "blueprint"} : Remove(what)
  BY <1>7 DEF Remove, PersistIInv, Restored, Data
<1>8. CASE UNCHANGED persistVars
  BY <1>8 DEF persistVars, PersistIInv, Restored, Data
<1> QED BY <1>2, <1>3, <1>4, <1>5, <1>6, <1>7, <1>8 DEF PersistNext

(* Whatever is changed, saved, stopped or removed in whatever order, what  *)
(* a load brings back is the last thing whose save was completed, all of   *)
(* it but what no save keeps.                                              *)
THEOREM LoadsCorrect == PersistSpec => LoadRestores
<1>1. PersistInit => PersistIInv
  BY PersistInitIInv
<1>2. PersistIInv /\ [PersistNext]_persistVars => PersistIInv' /\ Restored
  BY PersistStep
<1> QED BY <1>1, <1>2, PTL DEF PersistSpec, LoadRestores

-----------------------------------------------------------------------------
(* The calendar.  The loop of clipTime that takes off the days of a month  *)
(* ends, and where it ends there is such a day.                            *)
IsDate(t) ==
    t \in [year : Nat, month : 0 .. Width - 1, day : Nat \ {0}, hour : Nat, ticks : Nat]

(* No date has a day before the first; the weather is one of its region.   *)
ClockIInv ==
    /\ months \in Calendars
    /\ IsDate(time) /\ IsDate(saved) /\ time.year = 3 /\ saved.year = 3
    /\ region \in Weathers /\ sky \in DOMAIN region

CalendarHolds == months \in Calendars

LEMMA CalendarFacts ==
    ASSUME CalendarHolds
    PROVE  /\ \A m \in DOMAIN months : m \in Nat \ {0} /\ months[m].days \in Nat /\ months[m].leap \in Nat
           /\ \E m \in DOMAIN months : m < Width /\ months[m].days > 0
           /\ Len(months) \in Nat /\ DOMAIN months = 1 .. Len(months)
           /\ Width \in Nat /\ Width > 1
<1> DEFINE Month == [days : Nat, leap : Nat]
<1>1. /\ months \in Seq(Month) /\ Width \in Nat /\ Width > 1
      /\ \E m \in DOMAIN months : m < Width /\ months[m].days > 0
  BY ClockAssumption DEF CalendarHolds
<1>2. \A m \in Month : m.days \in Nat /\ m.leap \in Nat
  OBVIOUS
<1> HIDE DEF Month
<1>3. /\ Len(months) \in Nat /\ DOMAIN months = 1 .. Len(months)
      /\ \A m \in 1 .. Len(months) : months[m] \in Month
  BY <1>1, LenProperties, ElementOfSeq
<1> QED BY <1>1, <1>2, <1>3

LEMMA DaysAreNat ==
    ASSUME CalendarHolds, NEW t, IsDate(t)
    PROVE  /\ DaysInMonth(t) \in Nat
           /\ DaysInMonth(t) > 0 => t.month \in DOMAIN months
           /\ t.month \in DOMAIN months => DaysInMonth(t) >= months[t.month].days
<1>1. CASE t.month \notin DOMAIN months
  BY <1>1 DEF DaysInMonth
<1>2. CASE t.month \in DOMAIN months
  <2>1. months[t.month].days \in Nat /\ months[t.month].leap \in Nat
    BY <1>2, CalendarFacts
  <2> QED BY <1>2, <2>1 DEF DaysInMonth
<1> QED BY <1>1, <1>2

(* The month, a byte, is the same after every so many turns.               *)
LEMMA BytesTurn ==
    ASSUME NEW w \in Nat, w > 1, NEW x \in 0 .. w - 1, NEW c \in Nat
    PROVE  (x + c * w) % w = x
OBVIOUS

LEMMA MonthsOnDate ==
    ASSUME CalendarHolds, NEW t, IsDate(t), NEW n \in Nat
    PROVE  /\ IsDate(MonthsOn(t, n))
           /\ MonthsOn(t, n) = [t EXCEPT !.month = (t.month + n) % Width]
<1>1. (t.month + n) % Width \in 0 .. Width - 1
  BY CalendarFacts DEF IsDate
<1> QED BY <1>1 DEF MonthsOn, IsDate

PassedSet(t, n) == UNION {{k} \X (1 .. DaysInMonth(MonthsOn(t, k))) : k \in 0 .. n - 1}

(* Each turn takes off the days of its month.                              *)
LEMMA TurnTakes ==
    ASSUME CalendarHolds, NEW t, IsDate(t), NEW n \in Nat, IsFiniteSet(PassedSet(t, n))
    PROVE  /\ IsFiniteSet(PassedSet(t, n + 1))
           /\ Cardinality(PassedSet(t, n + 1)) = Cardinality(PassedSet(t, n)) + DaysInMonth(MonthsOn(t, n))
<1> DEFINE d == DaysInMonth(MonthsOn(t, n))
           D == {n} \X (1 .. d)
<1>1. d \in Nat
  BY MonthsOnDate, DaysAreNat
<1>2. PassedSet(t, n + 1) = PassedSet(t, n) \cup D
  <2>1. 0 .. (n + 1) - 1 = (0 .. n - 1) \cup {n}
    OBVIOUS
  <2> QED BY <2>1 DEF PassedSet
<1>3. PassedSet(t, n) \cap D = {}
  BY DEF PassedSet
<1>4. IsFiniteSet(D) /\ Cardinality(D) = d
  <2> DEFINE f == [x \in 1 .. d |-> <<n, x>>]
  <2> HIDE DEF d
  <2>1. f \in [1 .. d -> D]
    OBVIOUS
  <2>0. \A x, y \in 1 .. d : f[x] = f[y] => x = y
    OBVIOUS
  <2>4. \A e \in D : \E x \in 1 .. d : f[x] = e
    OBVIOUS
  <2> HIDE DEF f, D
  <2>2. ExistsBijection(1 .. d, D)
    BY <2>1, <2>0, <2>4 DEF ExistsBijection, Bijection, Injection, IsInjective, Surjection
  <2>3. IsFiniteSet(1 .. d) /\ Cardinality(1 .. d) = d
    BY <1>1, FS_Interval
  <2> QED BY <2>2, <2>3, FS_Bijection
<1> HIDE DEF d, D
<1>5. IsFiniteSet(PassedSet(t, n) \cup D)
      /\ Cardinality(PassedSet(t, n) \cup D) = Cardinality(PassedSet(t, n)) + Cardinality(D) - Cardinality({})
  BY <1>3, <1>4, FS_Union
<1>6. Cardinality(PassedSet(t, n)) \in Nat /\ Cardinality({}) = 0
  BY FS_CardinalityType, FS_EmptySet
<1>7. Cardinality(PassedSet(t, n + 1)) = Cardinality(PassedSet(t, n)) + d
  <2>1. Cardinality(PassedSet(t, n + 1)) = Cardinality(PassedSet(t, n) \cup D)
    BY <1>2, Zenon
  <2>2. Cardinality(PassedSet(t, n) \cup D) = Cardinality(PassedSet(t, n)) + d - 0
    BY <1>4, <1>5, <1>6, Zenon
  <2> QED BY <1>1, <1>6, <2>1, <2>2
<1> QED BY <1>2, <1>5, <1>7 DEF d

LEMMA PassedFinite ==
    ASSUME CalendarHolds, NEW t, IsDate(t), NEW n \in Nat
    PROVE  IsFiniteSet(PassedSet(t, n))
<1> DEFINE T == {i \in Nat : ~IsFiniteSet(PassedSet(t, i))}
<1> SUFFICES ASSUME T # {} PROVE FALSE
  OBVIOUS
<1>1. PICK m \in T : \A k \in T : m <= k
  BY LeastOf
<1>2. PassedSet(t, 0) = {}
  BY DEF PassedSet
<1>3. m \in Nat /\ m # 0
  BY <1>1, <1>2, FS_EmptySet
<1>4. IsFiniteSet(PassedSet(t, m - 1))
  BY <1>1, <1>3
<1>5. IsFiniteSet(PassedSet(t, (m - 1) + 1))
  BY <1>3, <1>4, TurnTakes
<1> QED BY <1>1, <1>3, <1>5

(* As many turns as the byte has values take off a day at least.           *)
LEMMA DaysRunOut ==
    ASSUME CalendarHolds, NEW t, IsDate(t)
    PROVE  DaysPassed(t, Width * (t.day + 1)) >= t.day
<1> DEFINE N == Width * (t.day + 1)
<1>1. PICK m \in DOMAIN months : m < Width /\ months[m].days > 0
  BY CalendarFacts
<1>2. /\ Width \in Nat /\ Width > 1 /\ t.month \in 0 .. Width - 1 /\ t.day \in Nat /\ t.day > 0
      /\ m \in Nat /\ m > 0
  BY CalendarFacts DEF IsDate
<1> DEFINE k(d) == (Width - t.month) + (m + d * Width)
<1>3. ASSUME NEW d \in 0 .. t.day - 1
      PROVE  k(d) \in 0 .. N - 1 /\ <<k(d), 1>> \in PassedSet(t, N)
  <2>1. d * Width \in Nat /\ d * Width <= (t.day - 1) * Width
    BY <1>2
  <2>2. (t.day - 1) * Width = Width * (t.day + 1) - 2 * Width
    BY <1>2
  <2>3. k(d) \in 0 .. N - 1
    BY <1>1, <1>2, <2>1, <2>2
  <2>4. t.month + k(d) = m + (d + 1) * Width
    BY <1>2
  <2>5. (m + (d + 1) * Width) % Width = m
    <3>1. d + 1 \in Nat /\ m \in 0 .. Width - 1
      BY <1>1, <1>2
    <3> QED BY <1>2, <3>1, BytesTurn
  <2> HIDE DEF k, N
  <2>6. MonthsOn(t, k(d)).month = m /\ IsDate(MonthsOn(t, k(d)))
    BY <2>3, <2>4, <2>5, MonthsOnDate DEF IsDate
  <2>7. DaysInMonth(MonthsOn(t, k(d))) \in Nat /\ DaysInMonth(MonthsOn(t, k(d))) > 0
    <3>1. months[m].days \in Nat
      BY <1>1, CalendarFacts
    <3> QED BY <1>1, <2>6, <3>1, DaysAreNat
  <2>8. 1 \in 1 .. DaysInMonth(MonthsOn(t, k(d)))
    BY <2>7
  <2> QED BY <2>3, <2>8 DEF PassedSet
<1>4. N \in Nat
  BY <1>2
<1> DEFINE f == [d \in 0 .. t.day - 1 |-> <<k(d), 1>>]
<1>5. f \in Injection(0 .. t.day - 1, PassedSet(t, N))
  <2>1. f \in [0 .. t.day - 1 -> PassedSet(t, N)]
    BY <1>3
  <2>2. ASSUME NEW a \in 0 .. t.day - 1, NEW b \in 0 .. t.day - 1, f[a] = f[b] PROVE a = b
    <3>1. k(a) = k(b)
      BY <2>2
    <3>2. a * Width = b * Width
      BY <1>2, <3>1
    <3> QED BY <1>2, <3>2
  <2> HIDE DEF f
  <2> QED BY <2>1, <2>2 DEF Injection, IsInjective
<1> HIDE DEF N, f
<1>6. IsFiniteSet(PassedSet(t, N))
  BY <1>4, PassedFinite
<1>7. Cardinality(0 .. t.day - 1) = t.day
  <2>1. t.day - 1 \in Int /\ 0 \in Int /\ ~(0 > t.day - 1) /\ (t.day - 1) - 0 + 1 = t.day
    BY <1>2
  <2> QED BY <2>1, FS_Interval
<1>8. Cardinality(0 .. t.day - 1) <= Cardinality(PassedSet(t, N))
  BY <1>5, <1>6, FS_Injection
<1> QED BY <1>7, <1>8 DEF N, PassedSet, DaysPassed

LEMMA TurnsAre ==
    ASSUME CalendarHolds, NEW t, IsDate(t), NEW n \in Nat
    PROVE  /\ DaysPassed(t, n) \in Nat
           /\ DaysPassed(t, n + 1) = DaysPassed(t, n) + DaysInMonth(MonthsOn(t, n))
           /\ DaysPassed(t, 0) = 0
           /\ Turns(t, n) = [year |-> t.year, month |-> (t.month + n) % Width,
                             day |-> t.day - DaysPassed(t, n), hour |-> t.hour, ticks |-> t.ticks]
           /\ DaysInMonth(Turns(t, n)) = DaysInMonth(MonthsOn(t, n))
           /\ (t.month + n) % Width \in 0 .. Width - 1
<1>1. IsFiniteSet(PassedSet(t, n))
  BY PassedFinite
<1>2. Cardinality(PassedSet(t, n)) \in Nat
  BY <1>1, FS_CardinalityType
<1>3. \A k \in Int : DaysPassed(t, k) = Cardinality(PassedSet(t, k))
  BY DEF DaysPassed, PassedSet
<1>4. DaysPassed(t, n + 1) = DaysPassed(t, n) + DaysInMonth(MonthsOn(t, n))
  BY <1>1, <1>3, TurnTakes
<1>5. DaysPassed(t, 0) = 0
  <2>1. PassedSet(t, 0) = {}
    BY DEF PassedSet
  <2> QED BY <1>3, <2>1, FS_EmptySet
<1>6. MonthsOn(t, n) = [t EXCEPT !.month = (t.month + n) % Width] /\ IsDate(MonthsOn(t, n))
  BY MonthsOnDate
<1>7. MonthsOn(t, n) = [year |-> t.year, month |-> (t.month + n) % Width,
                        day |-> t.day, hour |-> t.hour, ticks |-> t.ticks]
  BY <1>6 DEF IsDate
<1>8. Turns(t, n) = [year |-> t.year, month |-> (t.month + n) % Width,
                     day |-> t.day - DaysPassed(t, n), hour |-> t.hour, ticks |-> t.ticks]
  BY <1>7 DEF Turns
<1>9. DaysInMonth(Turns(t, n)) = DaysInMonth(MonthsOn(t, n))
  BY <1>7, <1>8 DEF DaysInMonth
<1>10. (t.month + n) % Width \in 0 .. Width - 1
  BY CalendarFacts DEF IsDate
<1> QED BY <1>2, <1>3, <1>4, <1>5, <1>8, <1>9, <1>10

(* The loop of the days ends with a day of the month it ends in.           *)
LEMMA ClipDaysLands ==
    ASSUME CalendarHolds, NEW t, IsDate(t)
    PROVE  /\ IsDate(ClipDays(t)) /\ ClipDays(t).year = t.year
           /\ ClipDays(t).day <= DaysInMonth(ClipDays(t))
           /\ ClipDays(t).hour = t.hour /\ ClipDays(t).ticks = t.ticks
<1> DEFINE N == Width * (t.day + 1)
           T == {n \in 0 .. N : InMonth(Turns(t, n))}
           First(n) == InMonth(Turns(t, n)) /\ \A k \in 0 .. n - 1 : ~InMonth(Turns(t, k))
<1>1. N \in Nat /\ t.day \in Nat /\ t.day > 0
  BY CalendarFacts DEF IsDate
<1>2. N \in T
  <2> HIDE DEF N
  <2>1. DaysPassed(t, N) \in Nat /\ DaysPassed(t, N) >= t.day
    BY <1>1, TurnsAre, DaysRunOut DEF N
  <2>2. Turns(t, N).day = t.day - DaysPassed(t, N)
    <3>1. Turns(t, N) = [year |-> t.year, month |-> (t.month + N) % Width,
                         day |-> t.day - DaysPassed(t, N), hour |-> t.hour, ticks |-> t.ticks]
      BY <1>1, TurnsAre
    <3> QED BY ONLY <3>1, SMT
  <2>3. DaysInMonth(Turns(t, N)) \in Nat
    BY <1>1, TurnsAre, MonthsOnDate, DaysAreNat
  <2> QED BY <1>1, <2>1, <2>2, <2>3 DEF InMonth
<1>3. PICK m \in T : \A k \in T : m <= k
  <2>1. T \in SUBSET Nat /\ T # {}
    BY <1>1, <1>2
  <2> HIDE DEF T
  <2> QED BY <2>1, LeastOf
<1>4. m \in 0 .. N /\ First(m)
  BY <1>1, <1>3
<1> DEFINE n == CHOOSE n \in 0 .. N : First(n)
<1>5. n \in 0 .. N /\ First(n)
  <2> HIDE DEF First, N
  <2> QED BY <1>4
<1>6. ClipDays(t) = Turns(t, n)
  BY DEF ClipDays
<1> HIDE DEF n, N, T
<1>7. n \in Nat /\ DaysPassed(t, n) \in Nat
  BY <1>1, <1>5, TurnsAre
<1>8. t.day - DaysPassed(t, n) > 0
  <2>1. CASE n = 0
    BY <1>1, <2>1, TurnsAre
  <2>2. CASE n # 0
    <3> DEFINE p == n - 1
    <3>1. p \in Nat /\ p \in 0 .. n - 1 /\ p + 1 = n
      BY <1>7, <2>2
    <3> HIDE DEF p
    <3>2. ~InMonth(Turns(t, p))
      BY <1>5, <3>1
    <3>3. /\ DaysPassed(t, p) \in Nat
          /\ DaysPassed(t, p + 1) = DaysPassed(t, p) + DaysInMonth(MonthsOn(t, p))
          /\ Turns(t, p) = [year |-> t.year, month |-> (t.month + p) % Width,
                             day |-> t.day - DaysPassed(t, p), hour |-> t.hour, ticks |-> t.ticks]
          /\ DaysInMonth(Turns(t, p)) = DaysInMonth(MonthsOn(t, p))
      BY <3>1, TurnsAre
    <3>5. Turns(t, p).day = t.day - DaysPassed(t, p)
      BY ONLY <3>3, SMT
    <3>4. DaysInMonth(MonthsOn(t, p)) \in Nat
      BY <3>1, MonthsOnDate, DaysAreNat
    <3> QED BY <1>1, <1>7, <3>1, <3>2, <3>3, <3>4, <3>5 DEF InMonth
  <2> QED BY <2>1, <2>2
<1> HIDE DEF First
<1>9. /\ Turns(t, n) = [year |-> t.year, month |-> (t.month + n) % Width,
                        day |-> t.day - DaysPassed(t, n), hour |-> t.hour, ticks |-> t.ticks]
      /\ (t.month + n) % Width \in 0 .. Width - 1
  BY <1>7, TurnsAre
<1>10. IsDate(Turns(t, n)) /\ Turns(t, n).year = t.year
       /\ Turns(t, n).hour = t.hour /\ Turns(t, n).ticks = t.ticks
  BY <1>1, <1>7, <1>8, <1>9 DEF IsDate
<1>11. Turns(t, n).day <= DaysInMonth(Turns(t, n))
  BY <1>5 DEF First, InMonth
<1> QED BY <1>6, <1>10, <1>11

(* After clipTime the date is one of the calendar, in the same year.       *)
LEMMA ClipTimeLands ==
    ASSUME CalendarHolds, NEW t, IsDate(t)
    PROVE  /\ IsDate(ClipTime(t)) /\ ClipTime(t).year = t.year
           /\ ClipTime(t).month \in DOMAIN months
           /\ ClipTime(t).day \in 1 .. DaysInMonth(ClipTime(t)) /\ ClipTime(t).hour < Hours
<1> DEFINE h == ClipHours(t)
           d == ClipDays(h)
<1>1. IsDate(h) /\ h.year = t.year /\ h.hour < Hours
  <2> DEFINE hour == t.hour + t.ticks \div TicksPerHour
  <2>1. TicksPerHour \in Nat \ {0} /\ Hours \in Nat \ {0}
    BY ClockAssumption
  <2>2. hour \in Nat /\ t.ticks % TicksPerHour \in Nat
    BY <2>1 DEF IsDate
  <2> HIDE DEF hour
  <2>3. hour % Hours \in Nat /\ hour % Hours < Hours /\ hour \div Hours \in Nat
    BY <2>1, <2>2
  <2>4. h = [year |-> t.year, month |-> t.month, day |-> t.day + hour \div Hours,
             hour |-> hour % Hours, ticks |-> t.ticks % TicksPerHour]
    <3>1. h = [t EXCEPT !.ticks = t.ticks % TicksPerHour, !.hour = hour % Hours,
                        !.day = t.day + hour \div Hours]
      BY DEF ClipHours, hour
    <3> QED BY <3>1 DEF IsDate
  <2> HIDE DEF h
  <2> QED BY <2>2, <2>3, <2>4 DEF IsDate
<1> HIDE DEF h
<1>2. IsDate(d) /\ d.year = t.year /\ d.day <= DaysInMonth(d) /\ d.hour < Hours
  BY <1>1, ClipDaysLands
<1> HIDE DEF d
<1>3. DaysInMonth(d) \in Nat /\ d.day \in Nat /\ d.day > 0 /\ d.month \in DOMAIN months
  BY <1>2, DaysAreNat DEF IsDate
<1>4. DayAtLeastOne(d) = d
  BY <1>2, <1>3 DEF DayAtLeastOne, IsDate
<1>5. 1 <= d.month /\ d.month <= Len(months)
  BY <1>3, CalendarFacts
<1>6. ClipMonths(d) = d
  BY <1>5 DEF ClipMonths
<1>7. MonthAtLeastOne(d) = d
  BY <1>2, <1>5 DEF MonthAtLeastOne, IsDate
<1>8. ClipTime(t) = d
  BY <1>4, <1>6, <1>7 DEF ClipTime, d, h
<1> QED BY <1>2, <1>3, <1>8

LEMMA ClockInitIInv == ClockInit => ClockIInv
<1> SUFFICES ASSUME ClockInit PROVE ClockIInv
  OBVIOUS
<1>1. Width \in Nat /\ Width > 1
  BY ClockAssumption
<1>2. IsDate(time) /\ IsDate(saved) /\ time.year = 3 /\ saved.year = 3
  BY <1>1 DEF ClockInit, IsDate
<1>3. 1 \in DOMAIN region
  BY ClockAssumption DEF ClockInit
<1> QED BY <1>2, <1>3 DEF ClockInit, ClockIInv

LEMMA ClockStep == ClockIInv /\ [ClockNext]_clockVars => ClockIInv' /\ Dated
<1> SUFFICES ASSUME ClockIInv, [ClockNext]_clockVars PROVE ClockIInv' /\ Dated
  OBVIOUS
<1> USE DEF ClockIInv
<1>1. CASE ClockTick
  <2> DEFINE t == [time EXCEPT !.ticks = @ + 1]
  <2>1. IsDate(t) /\ t.year = 3 /\ CalendarHolds /\ UNCHANGED <<months, saved, starts, region>>
    BY <1>1 DEF ClockTick, UpdateWeather, IsDate, CalendarHolds
  <2>2. time' = ClipTime(t)
    BY <1>1 DEF ClockTick
  <2> HIDE DEF t
  <2>3. /\ IsDate(time') /\ time'.year = 3 /\ time'.month \in DOMAIN months
        /\ time'.day \in 1 .. DaysInMonth(time') /\ time'.hour < Hours
    BY <2>1, <2>2, ClipTimeLands
  <2>4. DaysInMonth(time)' = DaysInMonth(time')
    BY <2>1 DEF DaysInMonth
  <2>5. sky' \in DOMAIN region
    <3>1. CASE UNCHANGED sky
      BY <3>1
    <3>2. CASE \E n \in 1 .. Die : sky' \in Falls(region[sky], n)
      BY <3>2, ClockAssumption DEF Falls
    <3> QED BY <1>1, <3>1, <3>2 DEF ClockTick, UpdateWeather
  <2> QED BY <2>1, <2>3, <2>4, <2>5 DEF Dated, IsDate
<1>2. CASE SaveTime
  BY <1>2 DEF SaveTime, Dated, IsDate
<1>3. CASE \E years \in 1 .. 2 : Create(years)
  BY <1>3 DEF Create, Dated, IsDate
<1>4. CASE \E c \in Calendars, w \in Weathers : \E s \in DOMAIN w, n \in {0, Ludicrous + 1} : Restart(c, w, s, n)
  <2>1. PICK c \in Calendars, w \in Weathers : \E s \in DOMAIN w, n \in {0, Ludicrous + 1} : Restart(c, w, s, n)
    BY <1>4
  <2>2. PICK s \in DOMAIN w, n \in {0, Ludicrous + 1} : Restart(c, w, s, n)
    BY <2>1
  <2>3. months' = c /\ time' = saved /\ region' = w /\ sky' = s /\ UNCHANGED saved
    BY <2>2 DEF Restart, LoadWeather
  <2>4. Dated
    <3>1. starts < MaxStarts /\ starts' = starts + 1
      BY <2>2 DEF Restart
    <3> QED BY <3>1 DEF Dated
  <2> QED BY <2>3, <2>4 DEF IsDate
<1>5. CASE UNCHANGED clockVars
  BY <1>5 DEF clockVars, Dated, IsDate
<1> QED BY <1>1, <1>2, <1>3, <1>4, <1>5 DEF ClockNext

(* Whatever calendar the server starts with and whenever the time was      *)
(* saved, every tick leaves a date the calendar has and a state the        *)
(* weather has, and the loop that finds the date ends.                     *)
THEOREM DatesCorrect == ClockSpec => DateInCalendar
<1>1. ClockInit => ClockIInv
  BY ClockInitIInv
<1>2. ClockIInv /\ [ClockNext]_clockVars => ClockIInv' /\ Dated
  BY ClockStep
<1> QED BY <1>1, <1>2, PTL DEF ClockSpec, DateInCalendar

(* No year ever passes, whatever calendar there is and however long the    *)
(* server runs: the loop of the days leaves the loop of the years nothing  *)
(* to do (time.cc:71-81).                                                  *)
THEOREM NoYearPasses == ClockSpec => [](time.year = 3)
<1>1. ClockInit => ClockIInv
  BY ClockInitIInv
<1>2. ClockIInv /\ [ClockNext]_clockVars => ClockIInv'
  BY ClockStep
<1>3. ClockIInv => time.year = 3
  BY DEF ClockIInv
<1> QED BY <1>1, <1>2, <1>3, PTL DEF ClockSpec

=============================================================================
