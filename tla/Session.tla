------------------------------ MODULE Session ------------------------------
(***************************************************************************)
(* Who plays whom: the login, menu, creation and play modes of a telnet    *)
(* handler (src/mud/login.cc, menu.cc, creation.cc), Player's connection   *)
(* and session (src/mud/player.cc), the player manager (pmanager.cc), the  *)
(* account's character list and active count (account.cc) and `gm boot'    *)
(* (src/cmd/gm.cc), in the order src/mud/main.cc runs them: poll's prepare *)
(* loop, poll's ready loop, a tick, collect.                               *)
(*                                                                         *)
(* A character is a name with a file and a place on an account's list.  A  *)
(* Player is an object made for a name: the manager may hold several for   *)
(* one name at a time, an active one among dead and floating ones that     *)
(* wait for the next collect.                                              *)
(***************************************************************************)
EXTENDS Integers, FiniteSets, Sequences, SequencesExt, TLC

CONSTANTS Handlers,       \* telnet handlers; one that was deleted may return
          Objs,           \* memory for Player objects
          Chars,          \* character names
          Accounts,
          Disabled,       \* the accounts an administrator disabled
          MaxActive,      \* Account::getMaxActive
          MaxCharacters,  \* Account::getMaxCharacters
          TimeoutTicks,   \* ROUNDS_TO_TICKS(60) of Player::disconnect
          Null,
          Stale           \* a mode whose handler has been deleted

ASSUME SessionAssumption ==
    /\ IsFiniteSet(Handlers) /\ Handlers # {}
    /\ IsFiniteSet(Objs) /\ IsFiniteSet(Chars)
    /\ Disabled \subseteq Accounts
    /\ MaxActive \in Nat /\ MaxCharacters \in Nat /\ TimeoutTicks \in Nat \ {0}
    /\ {Null, Stale} \cap (Handlers \cup Objs \cup Chars \cup Accounts) = {}
    /\ Null # Stale

VARIABLES
    phase,        \* where the main loop is
    todo,         \* the players the tick has still to visit
    fault,        \* how the process broke, "none" while it has not
    hs,           \* a handler: "none", "up", or "closing" once disconnected
    mode,         \* TelnetHandler::mode with the data the mode keeps
    player_list,  \* _MPlayer::player_list
    state,        \* Entity::state of a Player; "none" while there is no object
    name, owner,  \* Player's id and account
    conn,         \* Player::conn, by the handler its mode belongs to
    timeout,      \* Player::ninfo.timeout_ticks
    count,        \* Account::active
    listed,       \* Account::characters
    files         \* the names that have a player file

loop  == <<phase, todo>>
net   == <<hs, mode>>
objs  == <<player_list, state, name, owner>>
links == <<conn, timeout>>
disk  == <<listed, files>>
vars  == <<loop, fault, net, objs, links, count, disk>>

NoMode == [at |-> "none", acct |-> Null, arg |-> Null, tries |-> 0]
Mode(at, a, arg) == [at |-> at, acct |-> a, arg |-> arg, tries |-> 0]
Menu(a) == Mode("menu", a, Null)

Active == {o \in Objs : state[o] = "active"}
In(h, at) == phase = "ready" /\ hs[h] = "up" /\ mode[h].at = at

(* MPlayer.get: the active Players of that name; load returns one of them. *)
Get(c) == {o \in Active : name[o] = c}

(* The first Player of that name in the list, in a set: the one and only   *)
(* object that exists and destroy look at.                                 *)
First(c) == LET s == SelectSeq(player_list, LAMBDA o : name[o] = c)
            IN IF s = <<>> THEN {} ELSE {Head(s)}

(* MPlayer.exists                                                          *)
Exists(c) == c \in files \/ \E o \in First(c) : conn[o] # Null

-----------------------------------------------------------------------------
(* TelnetHandler::disconnect.  TelnetModePlay::shutdown leaves the player  *)
(* alone: it compares a cast of the player's connection, which is a mode   *)
(* and never a handler, to the handler.                                    *)
Close(H) ==
    /\ hs' = [h \in Handlers |-> IF h \in H THEN "closing" ELSE hs[h]]
    /\ mode' = [h \in Handlers |-> IF h \in H THEN NoMode ELSE mode[h]]

(* What calling a mode does to the process: a mode outlives its handler    *)
(* and goes on using it.                                                   *)
Touch(c) == IF c = Stale THEN "freed" ELSE fault

(* Player::disconnect, but for what becomes of the handler.                *)
Drop(o) ==
    /\ conn' = [conn EXCEPT ![o] = Null]
    /\ timeout' = IF conn[o] = Null THEN timeout
                  ELSE [timeout EXCEPT ![o] = TimeoutTicks]

(* Entity::destroy of a Player: an active one is deactivated.              *)
Leaves(o) ==
    /\ state' = [state EXCEPT ![o] = IF @ = "active" THEN "dead" ELSE @]
    /\ count' = IF o \in Active THEN [count EXCEPT ![owner[o]] = @ - 1] ELSE count

(* Player::save writes the file under the Player's name, whatever became   *)
(* of the file it was loaded from.                                         *)
Save(S) == files' = files \cup {name[o] : o \in S}

(* Player::endSession: save, destroy, disconnect.                          *)
EndSession(o) == Save({o}) /\ Leaves(o) /\ Drop(o)

-----------------------------------------------------------------------------
Init ==
    /\ phase = "prepare" /\ todo = {} /\ fault = "none"
    /\ hs = [h \in Handlers |-> "none"] /\ mode = [h \in Handlers |-> NoMode]
    /\ player_list = <<>>
    /\ state = [o \in Objs |-> "none"]
    /\ name = [o \in Objs |-> Null] /\ owner = [o \in Objs |-> Null]
    /\ conn = [o \in Objs |-> Null] /\ timeout = [o \in Objs |-> 0]
    /\ count = [a \in Accounts |-> 0]
    /\ \E of \in [Chars -> Accounts \cup {Null}] :
          /\ listed = [a \in Accounts |-> {c \in Chars : of[c] = a}]
          /\ \A a \in Accounts : Cardinality(listed[a]) <= MaxCharacters
          /\ files = {c \in Chars : of[c] # Null}

(* poll's prepare loop deletes a closing handler whose output is sent.     *)
Reap(h) ==
    /\ phase = "prepare" /\ hs[h] = "closing"
    /\ hs' = [hs EXCEPT ![h] = "none"]
    /\ conn' = [o \in Objs |-> IF conn[o] = h THEN Stale ELSE conn[o]]
    /\ UNCHANGED <<loop, fault, mode, objs, timeout, count, disk>>

PollReady ==
    /\ phase = "prepare"
    /\ phase' = "ready"
    /\ UNCHANGED <<todo, fault, net, objs, links, count, disk>>

(* sockHangup in the ready loop, the idle timeout in the prepare loop.     *)
Hangup(h) ==
    /\ phase \in {"prepare", "ready"} /\ hs[h] = "up"
    /\ Close({h})
    /\ UNCHANGED <<loop, fault, objs, links, count, disk>>

(* The telnet listener accepts a connection and sets TelnetModeLogin.      *)
Accept(h) ==
    /\ phase = "ready" /\ hs[h] = "none"
    /\ hs' = [hs EXCEPT ![h] = "up"]
    /\ mode' = [mode EXCEPT ![h] = Mode("login", Null, Null)]
    /\ UNCHANGED <<loop, fault, objs, links, count, disk>>

(* TelnetModeLogin, name stage: a valid name, of an account or of none.    *)
LoginName(h, a) ==
    /\ In(h, "login")
    /\ mode' = [mode EXCEPT ![h].at = "pass", ![h].acct = a]
    /\ UNCHANGED <<loop, fault, hs, objs, links, count, disk>>

(* Passphrase stage, refused: the third wrong answer disconnects, a        *)
(* disabled account starts over and is not counted.                        *)
LoginRefused(h) ==
    /\ In(h, "pass")
    /\ IF mode[h].tries = 2
       THEN Close({h})
       ELSE /\ mode' = [mode EXCEPT ![h].at = "login", ![h].acct = Null,
                                    ![h].tries = @ + 1]
            /\ UNCHANGED hs
    /\ UNCHANGED <<loop, fault, objs, links, count, disk>>

LoginDisabled(h) ==
    /\ In(h, "pass") /\ mode[h].acct \in Disabled
    /\ mode' = [mode EXCEPT ![h].at = "login", ![h].acct = Null]
    /\ UNCHANGED <<loop, fault, hs, objs, links, count, disk>>

LoginAccepted(h) ==
    /\ In(h, "pass") /\ mode[h].acct \in Accounts \ Disabled
    /\ mode' = [mode EXCEPT ![h] = Menu(mode[h].acct)]
    /\ UNCHANGED <<loop, fault, hs, objs, links, count, disk>>

(* `quit' at the login prompt, `portal' in the menu.                       *)
Leave(h) ==
    /\ In(h, "login") \/ In(h, "pass") \/ In(h, "menu")
    /\ Close({h})
    /\ UNCHANGED <<loop, fault, objs, links, count, disk>>

-----------------------------------------------------------------------------
(* Faulty: the older connection is left with the player.                   *)
MutPlayShares(h, c) ==
    /\ In(h, "menu") /\ c \in listed[mode[h].acct]
    /\ \E o \in Get(c) :
          /\ conn' = [conn EXCEPT ![o] = h]
          /\ timeout' = [timeout EXCEPT ![o] = 0]
          /\ fault' = Touch(conn[o])
          /\ mode' = [mode EXCEPT ![h] = Mode("play", mode[h].acct, o)]
          /\ UNCHANGED hs
    /\ UNCHANGED <<loop, objs, count, disk>>

(* Play a character that has an active Player: TelnetModePlay::initialize  *)
(* connects, which first boots an older connection, and starts the         *)
(* session, which has only the room to show.                               *)
PlayActive(h, c) ==
    /\ In(h, "menu") /\ c \in listed[mode[h].acct]
    /\ \E o \in Get(c) :
          /\ conn' = [conn EXCEPT ![o] = h]
          /\ timeout' = [timeout EXCEPT ![o] = 0]
          /\ fault' = Touch(conn[o])
          /\ hs' = [g \in Handlers |-> IF g = conn[o] THEN "closing" ELSE hs[g]]
          /\ mode' = [g \in Handlers |->
                        IF g = h THEN Mode("play", mode[h].acct, o)
                        ELSE IF g = conn[o] THEN NoMode ELSE mode[g]]
    /\ UNCHANGED <<loop, objs, count, disk>>

(* A new Player object enters the list, floating.                          *)
Construct(o, c, a, s) ==
    /\ state[o] = "none"
    /\ state' = [state EXCEPT ![o] = s]
    /\ name' = [name EXCEPT ![o] = c] /\ owner' = [owner EXCEPT ![o] = a]
    /\ player_list' = Append(player_list, o)

(* The active limit of TelnetModeMainMenu::process.                        *)
RoomFor(a) == count[a] < MaxActive

(* PLAY_SELECT of a character without an active Player: load makes one.    *)
Load(h, c, o, s) ==
    /\ In(h, "menu") /\ c \in listed[mode[h].acct] /\ c \in files
    /\ Get(c) = {}
    /\ Construct(o, c, mode[h].acct, s)

(* It is connected, and activated by startSession's enter.                 *)
PlayLoad(h, c, o) ==
    /\ Load(h, c, o, "active") /\ RoomFor(mode[h].acct)
    /\ count' = [count EXCEPT ![mode[h].acct] = @ + 1]
    /\ conn' = [conn EXCEPT ![o] = h]
    /\ mode' = [mode EXCEPT ![h] = Mode("play", mode[h].acct, o)]
    /\ UNCHANGED <<loop, fault, hs, timeout, disk>>

(* startSession fails: there is no room to start in.  setMode drops the    *)
(* mode before it disconnects; the floating Player stays connected to it.  *)
PlayFailed(h, c, o) ==
    /\ Load(h, c, o, "float") /\ RoomFor(mode[h].acct)
    /\ conn' = [conn EXCEPT ![o] = h]
    /\ Close({h})
    /\ UNCHANGED <<loop, fault, timeout, count, disk>>

(* The account is at its limit: the floating Player that load made is left *)
(* to the next collect.                                                    *)
PlayRefused(h, c, o) ==
    /\ Load(h, c, o, "float") /\ ~RoomFor(mode[h].acct)
    /\ UNCHANGED <<loop, fault, net, links, count, disk>>

(* Player::processCommand of `quit'.                                       *)
Quit(h) ==
    /\ In(h, "play")
    /\ LET o == mode[h].arg IN
          /\ EndSession(o) /\ Close({conn[o]}) /\ fault' = Touch(conn[o])
    /\ UNCHANGED <<loop, player_list, name, owner, listed>>

(* A GM in play boots another player that is connected.                    *)
Boot(h, o) ==
    /\ In(h, "play") /\ o \in Active \ {mode[h].arg} /\ conn[o] # Null
    /\ Drop(o) /\ Close({conn[o]}) /\ fault' = Touch(conn[o])
    /\ UNCHANGED <<loop, objs, count, disk>>

(* What a player in play does is shown to the others: output for a player  *)
(* whose handler is gone is written into the freed handler.                *)
Overhear(h, o) ==
    /\ In(h, "play") /\ o \in Active /\ conn[o] = Stale
    /\ fault' = "freed"
    /\ UNCHANGED <<loop, net, objs, links, count, disk>>

-----------------------------------------------------------------------------
(* Faulty: the limit is tested one too late.                               *)
MutCreateBegin(h) ==
    /\ In(h, "menu") /\ Cardinality(listed[mode[h].acct]) <= MaxCharacters
    /\ mode' = [mode EXCEPT ![h] = Mode("name", mode[h].acct, Null)]
    /\ UNCHANGED <<loop, fault, hs, objs, links, count, disk>>

(* `create' in the menu: the limit is tested here and never again.         *)
CreateBegin(h) ==
    /\ In(h, "menu") /\ Cardinality(listed[mode[h].acct]) < MaxCharacters
    /\ mode' = [mode EXCEPT ![h] = Mode("name", mode[h].acct, Null)]
    /\ UNCHANGED <<loop, fault, hs, objs, links, count, disk>>

(* STATE_NAME: the name is tested long before the character is made.       *)
CreateName(h, c) ==
    /\ In(h, "name") /\ ~Exists(c)
    /\ mode' = [mode EXCEPT ![h] = Mode("create", mode[h].acct, c)]
    /\ UNCHANGED <<loop, fault, hs, objs, links, count, disk>>

(* TelnetModeRealNewCharacter::create saves the player and the account.    *)
CreateCharacter(o, c, a) ==
    /\ Construct(o, c, a, "float")
    /\ files' = files \cup {c}
    /\ listed' = [listed EXCEPT ![a] = @ \cup {c}]

(* The questions about race, form and stats, then STATE_FINAL_CONFIRM,     *)
(* where the name is tested again.  The mode ends in the menu either way,  *)
(* since a new name for a taken one is never asked to be confirmed.        *)
CreateFinal(h, o) ==
    /\ In(h, "create")
    /\ LET c == mode[h].arg  a == mode[h].acct IN
          IF Exists(c) THEN UNCHANGED <<objs, disk>> ELSE CreateCharacter(o, c, a)
    /\ mode' = [mode EXCEPT ![h] = Menu(mode[h].acct)]
    /\ UNCHANGED <<loop, fault, hs, links, count>>

DeleteSelect(h, c) ==
    /\ In(h, "menu") /\ c \in listed[mode[h].acct]
    /\ mode' = [mode EXCEPT ![h] = Mode("delete", mode[h].acct, c)]
    /\ UNCHANGED <<loop, fault, hs, objs, links, count, disk>>

(* What _MPlayer::destroy does to the file of the character, and the menu  *)
(* to the account's list: File::rename returns true where it succeeded,    *)
(* which destroy takes for an error, so the name of a character whose file *)
(* was moved away stays on the list.  Only a name that has no file left,   *)
(* not even one that ending the session has just saved, is forgotten.      *)
Destroyed(c, a, saved) ==
    /\ files' = files \ {c}
    /\ listed' = IF c \in files \cup saved THEN listed ELSE [listed EXCEPT ![a] = @ \ {c}]

(* STATE_DELETE_CONFIRM and _MPlayer::destroy, confirmed: the first Player *)
(* of the name is ended if it is connected.                                *)
DeleteConfirm(h) ==
    /\ In(h, "delete")
    /\ LET c == mode[h].arg
           a == mode[h].acct
           on == {o \in First(c) : conn[o] # Null}
           closed == {conn[o] : o \in on}
       IN /\ \/ on = {} /\ UNCHANGED <<state, count, links, fault>>
             \/ \E o \in on : Leaves(o) /\ Drop(o) /\ fault' = Touch(conn[o])
          /\ hs' = [g \in Handlers |-> IF g \in closed THEN "closing" ELSE hs[g]]
          /\ mode' = [g \in Handlers |-> IF g = h THEN Menu(a)
                                         ELSE IF g \in closed THEN NoMode ELSE mode[g]]
          /\ Destroyed(c, a, {name[o] : o \in on})
    /\ UNCHANGED <<loop, player_list, name, owner>>

(* `quit' in the creation dialogue, a refusal at the delete prompt.        *)
BackToMenu(h) ==
    /\ In(h, "name") \/ In(h, "create") \/ In(h, "delete")
    /\ mode' = [mode EXCEPT ![h] = Menu(mode[h].acct)]
    /\ UNCHANGED <<loop, fault, hs, objs, links, count, disk>>

-----------------------------------------------------------------------------
(* The clock has passed nexttick, or it has not.                           *)
Tick ==
    /\ phase = "ready"
    /\ phase' = "tick" /\ todo' = Active
    /\ UNCHANGED <<fault, net, objs, links, count, disk>>

NoTick ==
    /\ phase = "ready"
    /\ phase' = "collect"
    /\ UNCHANGED <<todo, fault, net, objs, links, count, disk>>

(* Player::heartbeat's prompt: where HP or round time changed the prompt   *)
(* is asked of the connection, there or not.                               *)
Prompt(c) == IF c = Null THEN "null" ELSE Touch(c)

(* Faulty: a timeout of 1 is counted down like any other.                  *)
MutHeartbeat(o, changed) ==
    /\ phase = "tick" /\ o \in todo
    /\ todo' = todo \ {o}
    /\ timeout' = IF timeout[o] > 0 THEN [timeout EXCEPT ![o] = @ - 1] ELSE timeout
    /\ fault' = IF changed THEN Prompt(conn[o]) ELSE fault
    /\ UNCHANGED <<phase, net, objs, conn, count, disk>>

(* Player::heartbeat.  At the last tick the session ends, and the prompt   *)
(* is looked at all the same.                                              *)
Heartbeat(o, changed) ==
    /\ phase = "tick" /\ o \in todo
    /\ todo' = todo \ {o}
    /\ IF timeout[o] = 1
       THEN EndSession(o) /\ Close({conn[o]})
       ELSE /\ timeout' = IF timeout[o] > 0 THEN [timeout EXCEPT ![o] = @ - 1] ELSE timeout
            /\ UNCHANGED <<net, state, conn, count, files>>
    /\ fault' = IF changed THEN Prompt(conn'[o]) ELSE fault
    /\ UNCHANGED <<phase, player_list, name, owner, listed>>

TickEnd ==
    /\ phase = "tick" /\ todo = {}
    /\ phase' = "collect"
    /\ UNCHANGED <<todo, fault, net, objs, links, count, disk>>

(* MEntity.collect deletes what is dead or was never activated; ~Player    *)
(* takes it off the list.  A SIGHUP then has the active players saved.     *)
Collect(reload) ==
    /\ phase = "collect"
    /\ phase' = "prepare"
    /\ LET gone == Objs \ Active IN
          /\ state' = [o \in Objs |-> IF o \in gone THEN "none" ELSE state[o]]
          /\ name' = [o \in Objs |-> IF o \in gone THEN Null ELSE name[o]]
          /\ owner' = [o \in Objs |-> IF o \in gone THEN Null ELSE owner[o]]
          /\ conn' = [o \in Objs |-> IF o \in gone THEN Null ELSE conn[o]]
          /\ timeout' = [o \in Objs |-> IF o \in gone THEN 0 ELSE timeout[o]]
          /\ player_list' = SelectSeq(player_list, LAMBDA o : o \notin gone)
    /\ Save(IF reload THEN Active ELSE {})
    /\ UNCHANGED <<todo, fault, net, count, listed>>

(* Connections come and go, characters are played, left and taken over.    *)
ComeAndGo(h) ==
    \/ Accept(h) \/ Hangup(h) \/ Leave(h)
    \/ \E a \in Accounts \cup {Null} : LoginName(h, a)
    \/ LoginAccepted(h) \/ Quit(h)
    \/ \E c \in Chars : \/ PlayActive(h, c)
                        \/ \E o \in Objs : \/ PlayLoad(h, c, o) \/ PlayFailed(h, c, o)
                                           \/ PlayRefused(h, c, o)
    \/ \E o \in Objs : Boot(h, o) \/ Overhear(h, o)

(* The dialogues about the list of characters, the logins that fail.       *)
Dialogue(h) ==
    \/ LoginRefused(h) \/ LoginDisabled(h)
    \/ CreateBegin(h) \/ DeleteConfirm(h) \/ BackToMenu(h)
    \/ \E c \in Chars : CreateName(h, c) \/ DeleteSelect(h, c)
    \/ \E o \in Objs : CreateFinal(h, o)

MainLoop ==
    \/ PollReady \/ NoTick \/ TickEnd \/ \E reload \in BOOLEAN : Collect(reload)
    \/ \E o \in Objs, changed \in BOOLEAN : Heartbeat(o, changed)

Broken == fault # "none" /\ UNCHANGED vars

Next ==
    \/ /\ fault = "none"
       /\ \/ MainLoop \/ Tick
          \/ \E h \in Handlers : ComeAndGo(h) \/ Dialogue(h) \/ Reap(h)
    \/ Broken

(* The behaviours in which nobody creates or deletes a character.          *)
NextComeAndGo ==
    \/ /\ fault = "none"
       /\ \/ MainLoop \/ Tick
          \/ \E h \in Handlers : ComeAndGo(h) \/ Reap(h)
    \/ Broken

Spec == Init /\ [][Next]_vars

(* The main loop goes on, and the clock passes nexttick again and again.   *)
Fairness == WF_vars(fault = "none" /\ MainLoop) /\ SF_vars(fault = "none" /\ Tick)

FairSpec == Spec /\ Fairness

-----------------------------------------------------------------------------
Ats == {"none", "login", "pass", "menu", "name", "create", "delete", "play"}

(* The modes, objects and counters keep their shapes; the unsigned         *)
(* Account::active never wraps below 0.                                    *)
TypeOK ==
    /\ phase \in {"prepare", "ready", "tick", "collect"} /\ todo \subseteq Objs
    /\ fault \in {"none", "null", "freed"}
    /\ hs \in [Handlers -> {"none", "up", "closing"}]
    /\ mode \in [Handlers -> [at : Ats, acct : Accounts \cup {Null}, tries : 0 .. 2,
                              arg : Objs \cup Chars \cup {Null}]]
    /\ player_list \in Seq(Objs)
    /\ state \in [Objs -> {"none", "float", "active", "dead"}]
    /\ name \in [Objs -> Chars \cup {Null}] /\ owner \in [Objs -> Accounts \cup {Null}]
    /\ conn \in [Objs -> Handlers \cup {Null, Stale}]
    /\ timeout \in [Objs -> 0 .. TimeoutTicks]
    /\ count \in [Accounts -> 0 .. Cardinality(Objs)]
    /\ listed \in [Accounts -> SUBSET Chars]
    /\ files \subseteq Chars

(* A character is in the world once, however often it is loaded, left      *)
(* link-dead, booted, deleted, created and loaded again: MPlayer.load      *)
(* never makes a second Player that gets activated.                        *)
OncePerName == \A o, p \in Active : name[o] = name[p] => o = p

(* A play mode that still gets input drives an active Player, one that     *)
(* will not be collected under it, whose output comes back to this         *)
(* handler: no two connections ever drive one Player.                      *)
PlayIsExclusive ==
    \A h \in Handlers : mode[h].at = "play" =>
        /\ hs[h] = "up"
        /\ state[mode[h].arg] = "active" /\ conn[mode[h].arg] = h

(* Account::active is the number of the account's players in the world and *)
(* stays within the account's limit.                                       *)
ActiveCounted ==
    \A a \in Accounts : /\ count[a] = Cardinality({o \in Active : owner[o] = a})
                        /\ count[a] <= MaxActive

(* The limit on characters is tested when a creation begins and not when   *)
(* it ends.  What is on the list and what may still come of creations that *)
(* have begun is bounded by the limit and the number of connections: each  *)
(* connection adds one character beyond the limit at the most.             *)
CharactersBounded ==
    \A a \in Accounts :
        Cardinality(listed[a])
          + Cardinality({h \in Handlers : mode[h].at \in {"name", "create"} /\ mode[h].acct = a})
            < MaxCharacters + Cardinality(Handlers)

(* The link-dead timer runs for players without a connection only:         *)
(* nobody who has returned is thrown out by an old one.                    *)
TimerOnlyLinkDead == \A o \in Active : timeout[o] > 0 <=> conn[o] = Null

(* A character lives once: one Player of its name, one connection to it,   *)
(* counted once for its account, with a timer only while it has none       *)
(* (pmanager.cc:56-147, menu.cc:168-216, player.cc:296-365 and 500-640).   *)
OneLife == OncePerName /\ PlayIsExclusive /\ ActiveCounted /\ TimerOnlyLinkDead

(* A player that lost its connection comes back or leaves the world.       *)
LinkDead(o) == state[o] = "active" /\ conn[o] = Null
LinkDeadLeaves == \A o \in Objs : LinkDead(o) ~> (~LinkDead(o) \/ fault # "none")

-----------------------------------------------------------------------------
(* menu.cc, before a deletion: `you will not be able to get the character  *)
(* back, ever'.  A name is on the list of one account only; whoever has it *)
(* on the list can play the character.                                     *)
OneOwner == \A a, b \in Accounts : a # b => listed[a] \cap listed[b] = {}

(* For TLC: handlers and Player objects are interchangeable, and so are    *)
(* characters and accounts.                                                *)
Symmetry == UNION {Permutations(S) : S \in {Handlers, Objs, Chars, Accounts \ Disabled}}
=============================================================================
