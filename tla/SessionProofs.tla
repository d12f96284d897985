--------------------------- MODULE SessionProofs ---------------------------
(***************************************************************************)
(* Proofs about Session for any number of connections, Player objects,     *)
(* characters and accounts and any limits: a character lives once, and the *)
(* list of characters overshoots its limit by less than one per connection.*)
(* Nothing proved here depends on what is on player_list.                  *)
(***************************************************************************)
EXTENDS Session, FiniteSetTheorems, TLAPS

ModeType == [at : Ats, acct : Accounts \cup {Null}, tries : 0 .. 2,
             arg : Objs \cup Chars \cup {Null}]

(* A mode past the login is of an account, and its data is of the kind the *)
(* mode works on.                                                          *)
ModeFits(m) ==
    /\ m \in ModeType
    /\ m.at \in {"menu", "name", "create", "delete", "play"} => m.acct \in Accounts
    /\ m.at \in {"create", "delete"} => m.arg \in Chars
    /\ m.at = "play" => m.arg \in Objs

NetTyped ==
    /\ hs \in [Handlers -> {"none", "up", "closing"}]
    /\ mode \in [Handlers -> ModeType]
    /\ \A h \in Handlers : ModeFits(mode[h])

ObjsTyped ==
    /\ state \in [Objs -> {"none", "float", "active", "dead"}]
    /\ name \in [Objs -> Chars \cup {Null}] /\ owner \in [Objs -> Accounts \cup {Null}]
    /\ conn \in [Objs -> Handlers \cup {Null, Stale}]
    /\ timeout \in [Objs -> 0 .. TimeoutTicks]
    /\ count \in [Accounts -> Int]

(* Free memory holds no connection and no timer, and whoever is active has *)
(* an account.                                                             *)
ObjectsFit ==
    \A o \in Objs : /\ state[o] = "none" => conn[o] = Null /\ timeout[o] = 0
                    /\ state[o] = "active" => owner[o] \in Accounts

(* A connection a Player points to still exists, and while it gets input   *)
(* it is in play.                                                          *)
ConnInPlay ==
    \A o \in Objs : conn[o] \in Handlers =>
        /\ hs[conn[o]] # "none"
        /\ hs[conn[o]] = "up" => mode[conn[o]].at = "play"

(* The inductive invariant.                                                *)
IInv == NetTyped /\ ObjsTyped /\ ObjectsFit /\ ConnInPlay /\ OneLife

-----------------------------------------------------------------------------
(* Closing handlers and setting a fitting mode keep the modes fitting.     *)
LEMMA CloseFits == ASSUME NetTyped, NEW H, Close(H) PROVE NetTyped'
<1>1. ModeFits(NoMode)
  BY DEF ModeFits, ModeType, NoMode, Ats
<1> QED BY <1>1 DEF NetTyped, Close, ModeFits

LEMMA SetFits ==
    ASSUME NetTyped, NEW h \in Handlers, NEW m, ModeFits(m), UNCHANGED hs,
           mode' = [mode EXCEPT ![h] = m]
    PROVE  NetTyped'
  BY DEF NetTyped, ModeFits

(* Every step keeps every mode fitting.                                    *)
LEMMA NetStep == NetTyped /\ [Next]_vars => NetTyped'
<1> SUFFICES ASSUME NetTyped, [Next]_vars PROVE NetTyped'
  OBVIOUS
<1>1. ASSUME NEW h \in Handlers PROVE ModeFits(mode[h]) /\ mode[h] \in ModeType
  BY DEF NetTyped, ModeFits
<1>2. ModeFits(NoMode) /\ ModeFits(Mode("login", Null, Null))
  BY DEF ModeFits, ModeType, NoMode, Mode, Ats
<1>3. ASSUME NEW a \in Accounts
      PROVE  /\ ModeFits(Menu(a)) /\ ModeFits(Mode("name", a, Null))
             /\ \A c \in Chars : ModeFits(Mode("create", a, c)) /\ ModeFits(Mode("delete", a, c))
             /\ \A o \in Objs : ModeFits(Mode("play", a, o))
  BY DEF ModeFits, ModeType, Menu, Mode, Ats
<1>4. ASSUME NEW h \in Handlers, mode[h].at \in {"menu", "name", "create", "delete", "play"}
      PROVE  mode[h].acct \in Accounts
  BY <1>1, <1>4 DEF ModeFits
<1>5. ASSUME NEW h \in Handlers, Hangup(h) \/ Leave(h) PROVE NetTyped'
  BY <1>5, CloseFits DEF Hangup, Leave
<1>6. ASSUME NEW h \in Handlers, Accept(h) \/ Reap(h) PROVE NetTyped'
  BY <1>2, <1>6 DEF Accept, Reap, NetTyped, ModeFits
<1>7. ASSUME NEW h \in Handlers, NEW a \in Accounts \cup {Null}, LoginName(h, a)
      PROVE  NetTyped'
  <2> DEFINE m == [mode[h] EXCEPT !.at = "pass", !.acct = a]
  <2>1. ModeFits(m)
    BY <1>1 DEF ModeFits, ModeType, Ats
  <2>2. mode' = [mode EXCEPT ![h] = m] /\ UNCHANGED hs
    BY <1>7 DEF LoginName
  <2> QED BY <2>1, <2>2, SetFits
<1>8. ASSUME NEW h \in Handlers, LoginRefused(h) PROVE NetTyped'
  <2>1. CASE mode[h].tries = 2
    BY <1>8, <2>1, CloseFits DEF LoginRefused
  <2>2. CASE mode[h].tries # 2
    <3> DEFINE m == [mode[h] EXCEPT !.at = "login", !.acct = Null, !.tries = @ + 1]
    <3>1. mode[h].tries + 1 \in 0 .. 2
      BY <1>1, <2>2 DEF ModeType
    <3>2. ModeFits(m)
      BY <1>1, <3>1 DEF ModeFits, ModeType, Ats
    <3>3. mode' = [mode EXCEPT ![h] = m] /\ UNCHANGED hs
      BY <1>8, <2>2 DEF LoginRefused
    <3> QED BY <3>2, <3>3, SetFits
  <2> QED BY <2>1, <2>2
<1>9. ASSUME NEW h \in Handlers, LoginDisabled(h) PROVE NetTyped'
  <2> DEFINE m == [mode[h] EXCEPT !.at = "login", !.acct = Null]
  <2>1. ModeFits(m)
    BY <1>1 DEF ModeFits, ModeType, Ats
  <2>2. mode' = [mode EXCEPT ![h] = m] /\ UNCHANGED hs
    BY <1>9 DEF LoginDisabled
  <2> QED BY <2>1, <2>2, SetFits
<1>10. ASSUME NEW h \in Handlers,
              \/ LoginAccepted(h) \/ CreateBegin(h) \/ BackToMenu(h)
              \/ \E o \in Objs : CreateFinal(h, o)
       PROVE  NetTyped'
  <2>1. mode[h].acct \in Accounts
    BY <1>4, <1>10 DEF LoginAccepted, CreateBegin, BackToMenu, CreateFinal, In
  <2> QED BY <1>3, <1>10, <2>1, SetFits
          DEF LoginAccepted, CreateBegin, BackToMenu, CreateFinal
<1>11. ASSUME NEW h \in Handlers, NEW c \in Chars, CreateName(h, c) \/ DeleteSelect(h, c)
       PROVE  NetTyped'
  <2>1. mode[h].acct \in Accounts
    BY <1>4, <1>11 DEF CreateName, DeleteSelect, In
  <2> QED BY <1>3, <1>11, <2>1, SetFits DEF CreateName, DeleteSelect
<1>12. ASSUME NEW h \in Handlers, NEW c \in Chars, PlayActive(h, c) PROVE NetTyped'
  <2>1. mode[h].acct \in Accounts
    BY <1>4, <1>12 DEF PlayActive, In
  <2>2. PICK o \in Objs :
          /\ hs' = [g \in Handlers |-> IF g = conn[o] THEN "closing" ELSE hs[g]]
          /\ mode' = [g \in Handlers |->
                        IF g = h THEN Mode("play", mode[h].acct, o)
                        ELSE IF g = conn[o] THEN NoMode ELSE mode[g]]
    BY <1>12 DEF PlayActive, Get, Active
  <2> QED BY <1>1, <1>2, <1>3, <2>1, <2>2 DEF NetTyped, ModeFits
<1>13. ASSUME NEW h \in Handlers, NEW c \in Chars, NEW o \in Objs,
              PlayLoad(h, c, o) \/ PlayFailed(h, c, o) \/ PlayRefused(h, c, o)
       PROVE  NetTyped'
  <2>1. mode[h].acct \in Accounts
    BY <1>4, <1>13 DEF PlayLoad, PlayFailed, PlayRefused, Load, In
  <2>2. CASE PlayLoad(h, c, o)
    BY <1>3, <2>1, <2>2, SetFits DEF PlayLoad
  <2>3. CASE PlayFailed(h, c, o)
    BY <2>3, CloseFits DEF PlayFailed
  <2> QED BY <1>13, <2>2, <2>3 DEF PlayRefused, net, NetTyped
<1>14. ASSUME NEW h \in Handlers, NEW o \in Objs, Boot(h, o) \/ Overhear(h, o)
       PROVE  NetTyped'
  BY <1>14, CloseFits DEF Boot, Overhear, net, NetTyped
<1>15. ASSUME NEW h \in Handlers, Quit(h) PROVE NetTyped'
  BY <1>15, CloseFits DEF Quit
<1>16. ASSUME NEW h \in Handlers, DeleteConfirm(h) PROVE NetTyped'
  <2>1. mode[h].acct \in Accounts
    BY <1>4, <1>16 DEF DeleteConfirm, In
  <2>2. PICK closed :
          /\ hs' = [g \in Handlers |-> IF g \in closed THEN "closing" ELSE hs[g]]
          /\ mode' = [g \in Handlers |-> IF g = h THEN Menu(mode[h].acct)
                                         ELSE IF g \in closed THEN NoMode ELSE mode[g]]
    BY <1>16 DEF DeleteConfirm
  <2> QED BY <1>1, <1>2, <1>3, <2>1, <2>2 DEF NetTyped, ModeFits
<1>17. ASSUME NEW o \in Objs, NEW changed \in BOOLEAN, Heartbeat(o, changed)
       PROVE  NetTyped'
  BY <1>17, CloseFits DEF Heartbeat, net, NetTyped
<1>18. CASE UNCHANGED net
  BY <1>18 DEF net, NetTyped
<1> QED BY <1>5, <1>6, <1>7, <1>8, <1>9, <1>10, <1>11, <1>12, <1>13, <1>14,
           <1>15, <1>16, <1>17, <1>18
        DEF Next, ComeAndGo, Dialogue, MainLoop, PollReady, NoTick, TickEnd,
            Tick, Collect, Broken, vars

(* Leaving the world and losing the connection keep the objects' types.    *)
LEMMA LeaveTyped ==
    ASSUME ObjsTyped, ObjectsFit, NEW o, Leaves(o), Drop(o),
           UNCHANGED <<name, owner>>, o \in Objs => state[o] # "none"
    PROVE  ObjsTyped' /\ ObjectsFit'
<1>1. TimeoutTicks \in 0 .. TimeoutTicks
  BY SessionAssumption
<1>2. /\ conn' \in [Objs -> Handlers \cup {Null, Stale}]
      /\ timeout' \in [Objs -> 0 .. TimeoutTicks]
  BY <1>1 DEF ObjsTyped, Drop
<1>3. /\ state' \in [Objs -> {"none", "float", "active", "dead"}]
      /\ \A p \in Objs : state'[p] = IF p = o /\ state[o] = "active" THEN "dead" ELSE state[p]
  BY DEF ObjsTyped, Leaves
<1>4. count' \in [Accounts -> Int]
  <2>1. CASE o \in Active
    BY <2>1 DEF ObjsTyped, ObjectsFit, Leaves, Active
  <2>2. CASE o \notin Active
    BY <2>2 DEF ObjsTyped, Leaves
  <2> QED BY <2>1, <2>2
<1>5. ASSUME NEW p \in Objs
      PROVE  /\ state'[p] = "none" => conn'[p] = Null /\ timeout'[p] = 0
             /\ state'[p] = "active" => owner'[p] \in Accounts
  BY <1>3 DEF ObjsTyped, ObjectsFit, Drop
<1> QED BY <1>2, <1>3, <1>4, <1>5 DEF ObjsTyped, ObjectsFit

(* Every step keeps the objects in their types, and free memory blank.     *)
LEMMA ObjsStep ==
    NetTyped /\ ObjsTyped /\ ObjectsFit /\ PlayIsExclusive /\ [Next]_vars
        => ObjsTyped' /\ ObjectsFit'
<1> SUFFICES ASSUME NetTyped, ObjsTyped, ObjectsFit, PlayIsExclusive, [Next]_vars
             PROVE  ObjsTyped' /\ ObjectsFit'
  OBVIOUS
<1>1. ASSUME NEW h \in Handlers, Reap(h) PROVE ObjsTyped' /\ ObjectsFit'
  BY <1>1, SessionAssumption DEF Reap, objs, ObjsTyped, ObjectsFit
<1>2. ASSUME NEW h \in Handlers, NEW c \in Chars, PlayActive(h, c)
      PROVE  ObjsTyped' /\ ObjectsFit'
  BY <1>2, SessionAssumption DEF PlayActive, objs, Get, Active, ObjsTyped, ObjectsFit
<1>3. ASSUME NEW h \in Handlers, NEW c \in Chars, NEW o \in Objs,
             PlayLoad(h, c, o) \/ PlayFailed(h, c, o) \/ PlayRefused(h, c, o)
      PROVE  ObjsTyped' /\ ObjectsFit'
  <2>1. mode[h].acct \in Accounts /\ state[o] = "none"
    BY <1>3 DEF PlayLoad, PlayFailed, PlayRefused, Load, Construct, In, NetTyped, ModeFits
  <2>2. \A p \in Objs : /\ state'[p] = "none" => state[p] = "none" /\ p # o
                        /\ state'[p] = "active" => p = o \/ state[p] = "active"
                        /\ owner'[p] = IF p = o THEN mode[h].acct ELSE owner[p]
    BY <1>3, <2>1 DEF PlayLoad, PlayFailed, PlayRefused, Load, Construct, ObjsTyped
  <2>3. CASE PlayLoad(h, c, o)
    BY <2>1, <2>2, <2>3 DEF PlayLoad, Load, Construct, ObjsTyped, ObjectsFit
  <2>4. CASE PlayFailed(h, c, o)
    BY <2>1, <2>2, <2>4 DEF PlayFailed, Load, Construct, ObjsTyped, ObjectsFit
  <2>5. CASE PlayRefused(h, c, o)
    BY <2>1, <2>2, <2>5 DEF PlayRefused, Load, Construct, links, ObjsTyped, ObjectsFit
  <2> QED BY <1>3, <2>3, <2>4, <2>5
<1>4. ASSUME NEW h \in Handlers, Quit(h) PROVE ObjsTyped' /\ ObjectsFit'
  <2>1. mode[h].arg \in Objs /\ state[mode[h].arg] = "active"
    BY <1>4 DEF Quit, In, NetTyped, ModeFits, PlayIsExclusive
  <2> QED BY <1>4, <2>1, LeaveTyped DEF Quit, EndSession
<1>5. ASSUME NEW h \in Handlers, NEW o \in Objs, Boot(h, o)
      PROVE  ObjsTyped' /\ ObjectsFit'
  BY <1>5, SessionAssumption DEF Boot, Drop, objs, Active, ObjsTyped, ObjectsFit
<1>6. ASSUME NEW h \in Handlers, NEW o \in Objs, CreateFinal(h, o)
      PROVE  ObjsTyped' /\ ObjectsFit'
  <2>1. mode[h].acct \in Accounts /\ mode[h].arg \in Chars
    BY <1>6 DEF CreateFinal, In, NetTyped, ModeFits
  <2>2. CASE Construct(o, mode[h].arg, mode[h].acct, "float")
    BY <1>6, <2>1, <2>2 DEF CreateFinal, Construct, links, ObjsTyped, ObjectsFit
  <2>3. CASE UNCHANGED objs
    BY <1>6, <2>3 DEF CreateFinal, objs, links, ObjsTyped, ObjectsFit
  <2> QED BY <1>6, <2>2, <2>3 DEF CreateFinal, CreateCharacter
<1>7. ASSUME NEW h \in Handlers, DeleteConfirm(h) PROVE ObjsTyped' /\ ObjectsFit'
  <2>1. \/ UNCHANGED <<state, count, links>>
        \/ \E o \in First(mode[h].arg) : conn[o] # Null /\ Leaves(o) /\ Drop(o)
    BY <1>7 DEF DeleteConfirm
  <2>2. CASE UNCHANGED <<state, count, links>>
    BY <1>7, <2>2 DEF DeleteConfirm, links, ObjsTyped, ObjectsFit
  <2>3. ASSUME NEW o, conn[o] # Null, Leaves(o), Drop(o) PROVE ObjsTyped' /\ ObjectsFit'
    BY <1>7, <2>3, LeaveTyped DEF DeleteConfirm, ObjectsFit
  <2> QED BY <2>1, <2>2, <2>3
<1>8. ASSUME NEW o \in Objs, NEW changed \in BOOLEAN, Heartbeat(o, changed)
      PROVE  ObjsTyped' /\ ObjectsFit'
  <2>1. CASE timeout[o] = 1
    BY <1>8, <2>1, LeaveTyped DEF Heartbeat, EndSession, ObjectsFit
  <2>2. CASE timeout[o] # 1
    <3>1. timeout' = IF timeout[o] > 0 THEN [timeout EXCEPT ![o] = @ - 1] ELSE timeout
      BY <1>8, <2>2 DEF Heartbeat
    <3>2. timeout' \in [Objs -> 0 .. TimeoutTicks] /\ (timeout[o] = 0 => timeout' = timeout)
      BY <3>1, SessionAssumption DEF ObjsTyped
    <3> QED BY <1>8, <2>2, <3>1, <3>2 DEF Heartbeat, ObjsTyped, ObjectsFit
  <2> QED BY <2>1, <2>2
<1>9. ASSUME NEW reload \in BOOLEAN, Collect(reload) PROVE ObjsTyped' /\ ObjectsFit'
  <2>1. \A o \in Objs :
          /\ state'[o] = IF o \in Active THEN state[o] ELSE "none"
          /\ conn'[o] = IF o \in Active THEN conn[o] ELSE Null
          /\ timeout'[o] = IF o \in Active THEN timeout[o] ELSE 0
          /\ owner'[o] = IF o \in Active THEN owner[o] ELSE Null
    BY <1>9 DEF Collect
  <2>2. 0 \in 0 .. TimeoutTicks
    BY SessionAssumption
  <2>3. ObjsTyped'
    BY <1>9, <2>2 DEF Collect, ObjsTyped
  <2> QED BY <2>1, <2>3 DEF ObjectsFit, Active
<1>10. CASE UNCHANGED <<state, name, owner, links, count>>
  BY <1>10 DEF links, ObjsTyped, ObjectsFit
<1> QED BY <1>1, <1>2, <1>3, <1>4, <1>5, <1>6, <1>7, <1>8, <1>9, <1>10
        DEF Next, ComeAndGo, Dialogue, MainLoop, PollReady, NoTick, TickEnd,
            Tick, Broken, vars, objs, Accept, Hangup, Leave, LoginName,
            LoginAccepted, LoginRefused, LoginDisabled, Overhear, CreateBegin,
            CreateName, DeleteSelect, BackToMenu

-----------------------------------------------------------------------------
(* A dialogue step: connection h says something, or comes, or closes, and  *)
(* is not in play afterwards; no object changes.                           *)
Talk(h) ==
    /\ UNCHANGED <<state, name, owner, conn, timeout, count>>
    /\ \A g \in Handlers \ {h} : hs'[g] = hs[g] /\ mode'[g] = mode[g]
    /\ mode'[h].at # "play" /\ hs'[h] # "none"
    /\ hs'[h] = "closing" \/ hs[h] = "none" \/ (hs[h] = "up" /\ mode[h].at # "play")

LEMMA TalkSteps ==
    ASSUME NetTyped, NEW h \in Handlers,
           \/ Hangup(h) \/ Accept(h) \/ LoginRefused(h) \/ LoginDisabled(h)
           \/ LoginAccepted(h) \/ Leave(h) \/ CreateBegin(h) \/ BackToMenu(h)
           \/ \E a \in Accounts \cup {Null} : LoginName(h, a)
           \/ \E c \in Chars : CreateName(h, c) \/ DeleteSelect(h, c)
    PROVE  Talk(h)
<1> USE DEF NetTyped, Talk, In, Mode, NoMode, Menu, objs, links
<1>1. CASE Hangup(h) \/ Leave(h)
  BY <1>1 DEF Hangup, Leave, Close
<1>2. CASE Accept(h)
  BY <1>2 DEF Accept
<1>3. CASE LoginRefused(h)
  BY <1>3 DEF LoginRefused, Close, ModeType
<1>4. CASE LoginDisabled(h) \/ LoginAccepted(h) \/ CreateBegin(h) \/ BackToMenu(h)
  BY <1>4 DEF LoginDisabled, LoginAccepted, CreateBegin, BackToMenu, ModeType
<1>5. ASSUME NEW a \in Accounts \cup {Null}, LoginName(h, a) PROVE Talk(h)
  BY <1>5 DEF LoginName, ModeType
<1>6. ASSUME NEW c \in Chars, CreateName(h, c) \/ DeleteSelect(h, c) PROVE Talk(h)
  BY <1>6 DEF CreateName, DeleteSelect
<1> QED BY <1>1, <1>2, <1>3, <1>4, <1>5, <1>6

(* Player o leaves its connection: whatever handlers close with it, the    *)
(* connection's is among them.                                             *)
Cut(o, H) ==
    /\ conn' = [conn EXCEPT ![o] = Null]
    /\ conn[o] \in H
    /\ hs' = [h \in Handlers |-> IF h \in H THEN "closing" ELSE hs[h]]
    /\ \A h \in Handlers : \/ mode'[h].at # "play" /\ (mode[h].at # "play" \/ h \in H)
                           \/ h \notin H /\ mode'[h] = mode[h]

(* What a player drives answers to that player alone.                      *)
Driven == PlayIsExclusive /\ ConnInPlay

LEMMA CutDriven ==
    ASSUME NetTyped, ObjsTyped, Driven, NEW o, NEW H, Cut(o, H),
           \A p \in Objs : p # o /\ state[p] = "active" => state'[p] = "active"
    PROVE  Driven'
<1>1. ASSUME NEW h \in Handlers, mode'[h].at = "play"
      PROVE  hs'[h] = "up" /\ state'[mode'[h].arg] = "active" /\ conn'[mode'[h].arg] = h
  <2>1. h \notin H /\ mode'[h] = mode[h]
    BY <1>1 DEF Cut
  <2>2. /\ hs[h] = "up" /\ state[mode[h].arg] = "active"
        /\ conn[mode[h].arg] = h /\ mode[h].arg \in Objs
    BY <1>1, <2>1 DEF Driven, PlayIsExclusive, NetTyped, ModeFits
  <2>3. mode[h].arg # o
    BY <2>1, <2>2 DEF Cut
  <2> QED BY <2>1, <2>2, <2>3 DEF Cut, ObjsTyped
<1>2. ASSUME NEW p \in Objs, conn'[p] \in Handlers
      PROVE  /\ hs'[conn'[p]] # "none"
             /\ hs'[conn'[p]] = "up" => mode'[conn'[p]].at = "play"
  <2>1. conn'[p] = conn[p]
    BY <1>2, SessionAssumption DEF Cut, ObjsTyped
  <2>2. hs[conn[p]] # "none" /\ (hs[conn[p]] = "up" => mode[conn[p]].at = "play")
    BY <1>2, <2>1 DEF Driven, ConnInPlay
  <2> QED BY <1>2, <2>1, <2>2 DEF Cut
<1> QED BY <1>1, <1>2 DEF Driven, PlayIsExclusive, ConnInPlay

(* No step lets two connections drive one player, or one that is not in    *)
(* the world.                                                              *)
LEMMA DrivenStep ==
    NetTyped /\ ObjsTyped /\ ObjectsFit /\ Driven /\ TimerOnlyLinkDead /\ [Next]_vars
        => Driven'
<1> SUFFICES ASSUME NetTyped, ObjsTyped, ObjectsFit, Driven, TimerOnlyLinkDead, [Next]_vars
             PROVE  Driven'
  OBVIOUS
<1> USE DEF Driven, PlayIsExclusive, ConnInPlay
<1>1. ASSUME NEW h \in Handlers, mode[h].at = "play"
      PROVE  /\ mode[h].arg \in Objs /\ hs[h] = "up"
             /\ state[mode[h].arg] = "active" /\ conn[mode[h].arg] = h
  BY <1>1 DEF NetTyped, ModeFits
<1>2. ASSUME NEW h \in Handlers, Talk(h) PROVE Driven'
  <2>1. ASSUME NEW o \in Objs, conn[o] = h PROVE hs'[h] = "closing"
    BY <1>2, <2>1 DEF Talk, NetTyped
  <2> QED BY <1>1, <1>2, <2>1 DEF Talk
<1>3. ASSUME NEW h \in Handlers, Reap(h) PROVE Driven'
  BY <1>1, <1>3, SessionAssumption DEF Reap, NetTyped, ObjsTyped, objs
<1>4. ASSUME NEW h \in Handlers, NEW c \in Chars, PlayActive(h, c) PROVE Driven'
  <2>1. PICK o \in Active :
          /\ conn' = [conn EXCEPT ![o] = h]
          /\ hs' = [g \in Handlers |-> IF g = conn[o] THEN "closing" ELSE hs[g]]
          /\ mode' = [g \in Handlers |->
                        IF g = h THEN Mode("play", mode[h].acct, o)
                        ELSE IF g = conn[o] THEN NoMode ELSE mode[g]]
    BY <1>4 DEF PlayActive, Get
  <2>2. hs[h] = "up" /\ mode[h].at = "menu" /\ conn[o] # h /\ o \in Objs /\ state[o] = "active"
    BY <1>4 DEF PlayActive, In, Active
  <2>3. mode'[h].at = "play" /\ mode'[h].arg = o /\ hs'[h] = "up" /\ conn'[o] = h
    BY <2>1, <2>2 DEF Mode, ObjsTyped
  <2>4. ASSUME NEW g \in Handlers \ {h}, mode'[g].at = "play"
        PROVE  g # conn[o] /\ mode'[g] = mode[g] /\ mode[g].arg # o
    BY <1>1, <2>1, <2>4 DEF NoMode
  <2>5. ASSUME NEW p \in Objs \ {o}, conn[p] \in Handlers, hs'[conn[p]] = "up"
        PROVE  conn[p] # h /\ mode'[conn[p]].at = "play"
    BY <2>1, <2>2, <2>5 DEF NoMode
  <2>6. state' = state
    BY <1>4 DEF PlayActive, objs
  <2> QED BY <1>1, <2>1, <2>2, <2>3, <2>4, <2>5, <2>6 DEF ObjsTyped
<1>5. ASSUME NEW h \in Handlers, NEW c \in Chars, NEW o \in Objs, Load(h, c, o, "active"),
             conn' = [conn EXCEPT ![o] = h], UNCHANGED hs,
             mode' = [mode EXCEPT ![h] = Mode("play", mode[h].acct, o)]
      PROVE  Driven'
  <2>1. hs[h] = "up" /\ state[o] = "none" /\ state' = [state EXCEPT ![o] = "active"]
    BY <1>5 DEF Load, Construct, In
  <2>2. mode'[h].at = "play" /\ mode'[h].arg = o
    BY <1>5 DEF NetTyped, Mode
  <2> QED BY <1>1, <1>5, <2>1, <2>2 DEF NetTyped, ObjsTyped
<1>6. ASSUME NEW h \in Handlers, NEW c \in Chars, NEW o \in Objs, PlayFailed(h, c, o)
      PROVE  Driven'
  BY <1>1, <1>6 DEF PlayFailed, Load, Construct, Close, NoMode, NetTyped, ObjsTyped
<1>7. ASSUME NEW h \in Handlers, NEW c \in Chars, NEW o \in Objs, PlayRefused(h, c, o)
      PROVE  Driven'
  BY <1>1, <1>7 DEF PlayRefused, Load, Construct, net, links, ObjsTyped
<1>8. ASSUME NEW h \in Handlers, Quit(h) PROVE Driven'
  <2>1. Cut(mode[h].arg, {conn[mode[h].arg]})
    BY <1>8 DEF Quit, EndSession, Drop, Close, Cut, NoMode
  <2>2. \A p \in Objs : p # mode[h].arg => state'[p] = state[p]
    BY <1>8 DEF Quit, EndSession, Leaves, ObjsTyped
  <2> QED BY <2>1, <2>2, CutDriven
<1>9. ASSUME NEW h \in Handlers, NEW o \in Objs, Boot(h, o) PROVE Driven'
  <2>1. Cut(o, {conn[o]})
    BY <1>9 DEF Boot, Drop, Close, Cut, NoMode
  <2> QED BY <1>9, <2>1, CutDriven DEF Boot, objs
<1>10. ASSUME NEW h \in Handlers, NEW o \in Objs, CreateFinal(h, o) PROVE Driven'
  <2>1. /\ \A p \in Objs : state[p] = "active" => state'[p] = "active"
        /\ hs[h] = "up" /\ mode[h].at = "create"
    BY <1>10 DEF CreateFinal, CreateCharacter, Construct, objs, In, ObjsTyped
  <2> QED BY <1>1, <1>10, <2>1 DEF CreateFinal, Menu, Mode, links, NetTyped
<1>11. ASSUME NEW h \in Handlers, DeleteConfirm(h) PROVE Driven'
  <2> DEFINE on == {o \in First(mode[h].arg) : conn[o] # Null}
             closed == {conn[o] : o \in on}
  <2>1. /\ hs' = [g \in Handlers |-> IF g \in closed THEN "closing" ELSE hs[g]]
        /\ mode' = [g \in Handlers |-> IF g = h THEN Menu(mode[h].acct)
                                       ELSE IF g \in closed THEN NoMode ELSE mode[g]]
        /\ hs[h] = "up" /\ mode[h].at = "delete"
        /\ \/ on = {} /\ UNCHANGED <<state, links>>
           \/ \E o \in on : Leaves(o) /\ Drop(o)
    BY <1>11 DEF DeleteConfirm, In
  <2>2. CASE on = {} /\ UNCHANGED <<state, links>>
    BY <1>1, <2>1, <2>2 DEF Menu, Mode, links
  <2>3. ASSUME NEW o \in on, Leaves(o), Drop(o) PROVE Driven'
    <3>1. Cut(o, closed)
      BY <2>1, <2>3 DEF Drop, Cut, Menu, Mode, NoMode
    <3>2. \A p \in Objs : p # o => state'[p] = state[p]
      BY <2>3 DEF Leaves, ObjsTyped
    <3> QED BY <3>1, <3>2, CutDriven
  <2> QED BY <2>1, <2>2, <2>3
<1>12. ASSUME NEW o \in Objs, NEW changed \in BOOLEAN, Heartbeat(o, changed) PROVE Driven'
  <2>1. CASE timeout[o] = 1
    <3>1. Cut(o, {conn[o]})
      BY <1>12, <2>1 DEF Heartbeat, EndSession, Drop, Close, Cut, NoMode
    <3>2. \A p \in Objs : p # o => state'[p] = state[p]
      BY <1>12, <2>1 DEF Heartbeat, EndSession, Leaves, ObjsTyped
    <3> QED BY <3>1, <3>2, CutDriven
  <2>2. CASE timeout[o] # 1
    BY <1>12, <2>2 DEF Heartbeat, net
  <2> QED BY <2>1, <2>2
<1>13. ASSUME NEW reload \in BOOLEAN, Collect(reload) PROVE Driven'
  <2>1. \A o \in Objs :
          /\ state'[o] = IF o \in Active THEN state[o] ELSE "none"
          /\ conn'[o] = IF o \in Active THEN conn[o] ELSE Null
    BY <1>13 DEF Collect
  <2>2. UNCHANGED <<hs, mode>>
    BY <1>13 DEF Collect, net
  <2> QED BY <1>1, <2>1, <2>2, SessionAssumption DEF Active
<1>14. CASE UNCHANGED <<net, state, conn>>
  BY <1>14 DEF net
<1> QED BY <1>2, <1>3, <1>4, <1>5, <1>6, <1>7, <1>8, <1>9, <1>10, <1>11,
           <1>12, <1>13, <1>14, TalkSteps
        DEF Next, ComeAndGo, Dialogue, MainLoop, PollReady, NoTick, TickEnd,
            Tick, Broken, vars, objs, links, PlayLoad, Overhear

-----------------------------------------------------------------------------
(* Only what is in the world counts: the names, owners and timers of the   *)
(* active Players, and the counters of the accounts.                       *)
Counted == OncePerName /\ ActiveCounted /\ TimerOnlyLinkDead

Mine(a) == {o \in Active : owner[o] = a}

LEMMA MineFinite == \A a \in Accounts : IsFiniteSet(Mine(a))
  BY SessionAssumption, FS_Subset DEF Mine, Active

(* A step that changes no active Player, and makes none active, keeps what *)
(* is counted.                                                             *)
LEMMA SameCounted ==
    ASSUME Counted, Active' = Active, UNCHANGED count,
           \A o \in Active : /\ name'[o] = name[o] /\ owner'[o] = owner[o]
                             /\ timeout'[o] > 0 <=> conn'[o] = Null
    PROVE  Counted'
<1>1. \A a \in Accounts : {o \in Active' : owner'[o] = a} = {o \in Active : owner[o] = a}
  OBVIOUS
<1> QED BY <1>1 DEF Counted, OncePerName, ActiveCounted, TimerOnlyLinkDead

(* A Player that leaves is counted no more.                                *)
LEMMA LeaveCounted ==
    ASSUME ObjsTyped, ObjectsFit, Counted, NEW o, Leaves(o), Drop(o), UNCHANGED <<name, owner>>
    PROVE  Counted'
<1>1. CASE o \notin Active
  <2>1. Active' = Active /\ count' = count
    BY <1>1 DEF Leaves, Active, ObjsTyped
  <2>2. \A p \in Active : conn'[p] = conn[p] /\ timeout'[p] = timeout[p]
    BY <1>1 DEF Drop, Active, ObjsTyped
  <2> QED BY <2>1, <2>2, SameCounted DEF Counted, TimerOnlyLinkDead
<1>2. CASE o \in Active
  <2>1. Active' = Active \ {o} /\ o \in Objs /\ owner[o] \in Accounts
    BY <1>2 DEF Leaves, Active, ObjsTyped, ObjectsFit
  <2>2. \A p \in Active' : conn'[p] = conn[p] /\ timeout'[p] = timeout[p]
    BY <2>1 DEF Drop, Active, ObjsTyped
  <2>3. ASSUME NEW a \in Accounts
        PROVE  count'[a] = Cardinality(Mine(a)') /\ count'[a] <= MaxActive
    <3>1. count[a] = Cardinality(Mine(a)) /\ count[a] <= MaxActive /\ IsFiniteSet(Mine(a))
      BY MineFinite DEF Counted, ActiveCounted, Mine
    <3>2. CASE owner[o] = a
      <4>1. Mine(a)' = Mine(a) \ {o} /\ o \in Mine(a)
        BY <1>2, <2>1, <3>2 DEF Mine
      <4>2. Cardinality(Mine(a)') = Cardinality(Mine(a)) - 1
        BY <3>1, <4>1, FS_RemoveElement
      <4>3. count'[a] = count[a] - 1
        BY <1>2, <3>2 DEF Leaves, ObjsTyped
      <4> QED BY <3>1, <4>2, <4>3, SessionAssumption DEF ObjsTyped
    <3>3. CASE owner[o] # a
      <4>1. Mine(a)' = Mine(a)
        BY <2>1, <3>3 DEF Mine
      <4>2. count'[a] = count[a]
        BY <1>2, <2>1, <3>3 DEF Leaves, ObjsTyped
      <4> QED BY <3>1, <4>1, <4>2
    <3> QED BY <3>2, <3>3
  <2> QED BY <2>1, <2>2, <2>3
          DEF Counted, OncePerName, ActiveCounted, TimerOnlyLinkDead, Mine
<1> QED BY <1>1, <1>2

(* No step makes a second active Player of a name, miscounts the players   *)
(* of an account or runs a timer for a player who is connected.            *)
LEMMA CountedStep ==
    NetTyped /\ ObjsTyped /\ ObjectsFit /\ Driven /\ Counted /\ [Next]_vars => Counted'
<1> SUFFICES ASSUME NetTyped, ObjsTyped, ObjectsFit, Driven, Counted, [Next]_vars
             PROVE  Counted'
  OBVIOUS
<1>1. \A o \in Active : timeout[o] > 0 <=> conn[o] = Null
  BY DEF Counted, TimerOnlyLinkDead
<1>2. ASSUME NEW h \in Handlers, Reap(h) PROVE Counted'
  <2>1. Active' = Active
    BY <1>2 DEF Reap, objs, Active
  <2>2. \A o \in Active : timeout'[o] = timeout[o] /\ (conn'[o] = Null <=> conn[o] = Null)
    BY <1>2, SessionAssumption DEF Reap, Active
  <2> QED BY <1>1, <1>2, <2>1, <2>2, SameCounted DEF Reap, objs
<1>3. ASSUME NEW h \in Handlers, NEW c \in Chars, PlayActive(h, c) PROVE Counted'
  <2>1. PICK o \in Active : conn' = [conn EXCEPT ![o] = h] /\ timeout' = [timeout EXCEPT ![o] = 0]
    BY <1>3 DEF PlayActive, Get
  <2>2. Active' = Active
    BY <1>3 DEF PlayActive, objs, Active
  <2>3. \A p \in Active : timeout'[p] > 0 <=> conn'[p] = Null
    BY <1>1, <2>1, SessionAssumption DEF Active, ObjsTyped
  <2> QED BY <1>3, <2>2, <2>3, SameCounted DEF PlayActive, objs
<1>4. ASSUME NEW h \in Handlers, NEW c \in Chars, NEW o \in Objs, PlayLoad(h, c, o)
      PROVE  Counted'
  <2> DEFINE b == mode[h].acct
  <2>1. /\ b \in Accounts /\ state[o] = "none" /\ o \notin Active
        /\ Active' = Active \cup {o}
        /\ \A p \in Objs : /\ name'[p] = IF p = o THEN c ELSE name[p]
                           /\ owner'[p] = IF p = o THEN b ELSE owner[p]
    BY <1>4 DEF PlayLoad, Load, Construct, Active, In, NetTyped, ModeFits, ObjsTyped
  <2>2. \A p \in Active : name[p] # c
    BY <1>4 DEF PlayLoad, Load, Get
  <2>3. OncePerName'
    BY <2>1, <2>2 DEF Counted, OncePerName, Active
  <2>4. TimerOnlyLinkDead'
    <3>1. timeout'[o] = 0 /\ conn'[o] = h /\ h # Null
      BY <1>4, <2>1, SessionAssumption DEF PlayLoad, ObjectsFit, ObjsTyped
    <3> QED BY <1>1, <1>4, <2>1, <3>1 DEF PlayLoad, TimerOnlyLinkDead, Active, ObjsTyped
  <2>5. ASSUME NEW a \in Accounts
        PROVE  count'[a] = Cardinality(Mine(a)') /\ count'[a] <= MaxActive
    <3>1. count[a] = Cardinality(Mine(a)) /\ count[a] <= MaxActive /\ IsFiniteSet(Mine(a))
      BY MineFinite DEF Counted, ActiveCounted, Mine
    <3>2. CASE a = b
      <4>1. Mine(a)' = Mine(a) \cup {o} /\ o \notin Mine(a)
        BY <2>1, <3>2 DEF Mine, Active
      <4>2. Cardinality(Mine(a)') = Cardinality(Mine(a)) + 1
        BY <3>1, <4>1, FS_AddElement
      <4>3. count'[a] = count[a] + 1 /\ count[a] < MaxActive
        BY <1>4, <3>2 DEF PlayLoad, RoomFor, ObjsTyped
      <4> QED BY <3>1, <4>2, <4>3, SessionAssumption DEF ObjsTyped
    <3>3. CASE a # b
      <4>1. Mine(a)' = Mine(a)
        BY <2>1, <3>3 DEF Mine, Active
      <4>2. count'[a] = count[a]
        BY <1>4, <2>1, <3>3 DEF PlayLoad, ObjsTyped
      <4> QED BY <3>1, <4>1, <4>2
    <3> QED BY <3>2, <3>3
  <2> QED BY <2>3, <2>4, <2>5 DEF Counted, ActiveCounted, Mine
<1>5. ASSUME NEW o \in Objs, NEW c, NEW a, Construct(o, c, a, "float"), UNCHANGED <<timeout, count>>,
             \A p \in Active : conn'[p] = conn[p]
      PROVE  Counted'
  <2>1. Active' = Active /\ o \notin Active
    BY <1>5 DEF Construct, Active, ObjsTyped
  <2>2. \A p \in Active : name'[p] = name[p] /\ owner'[p] = owner[p]
    BY <1>5, <2>1 DEF Construct, ObjsTyped, Active
  <2> QED BY <1>1, <1>5, <2>1, <2>2, SameCounted
<1>6. ASSUME NEW h \in Handlers, NEW c \in Chars, NEW o \in Objs,
             PlayFailed(h, c, o) \/ PlayRefused(h, c, o)
      PROVE  Counted'
  <2>1. state[o] = "none"
    BY <1>6 DEF PlayFailed, PlayRefused, Load, Construct
  <2>2. \A p \in Active : conn'[p] = conn[p]
    BY <1>6, <2>1 DEF PlayFailed, PlayRefused, links, Active, ObjsTyped
  <2> QED BY <1>5, <1>6, <2>2 DEF PlayFailed, PlayRefused, Load, links
<1>7. ASSUME NEW h \in Handlers, Quit(h) PROVE Counted'
  BY <1>7, LeaveCounted DEF Quit, EndSession
<1>8. ASSUME NEW h \in Handlers, NEW o \in Objs, Boot(h, o) PROVE Counted'
  <2>1. Active' = Active
    BY <1>8 DEF Boot, objs, Active
  <2>2. \A p \in Active : timeout'[p] > 0 <=> conn'[p] = Null
    BY <1>1, <1>8, SessionAssumption DEF Boot, Drop, Active, ObjsTyped
  <2> QED BY <1>8, <2>1, <2>2, SameCounted DEF Boot, objs
<1>9. ASSUME NEW h \in Handlers, NEW o \in Objs, CreateFinal(h, o) PROVE Counted'
  <2>1. CASE Construct(o, mode[h].arg, mode[h].acct, "float")
    BY <1>5, <1>9, <2>1 DEF CreateFinal, links
  <2>2. CASE UNCHANGED objs
    BY <1>1, <1>9, <2>2, SameCounted DEF CreateFinal, objs, links, Active
  <2> QED BY <1>9, <2>1, <2>2 DEF CreateFinal, CreateCharacter
<1>10. ASSUME NEW h \in Handlers, DeleteConfirm(h) PROVE Counted'
  <2>1. \/ UNCHANGED <<state, count, links>>
        \/ \E o \in First(mode[h].arg) : Leaves(o) /\ Drop(o)
    BY <1>10 DEF DeleteConfirm
  <2>2. CASE UNCHANGED <<state, count, links>>
    BY <1>1, <1>10, <2>2, SameCounted DEF DeleteConfirm, links, Active
  <2>3. ASSUME NEW o, Leaves(o), Drop(o) PROVE Counted'
    BY <1>10, <2>3, LeaveCounted DEF DeleteConfirm
  <2> QED BY <2>1, <2>2, <2>3
<1>11. ASSUME NEW o \in Objs, NEW changed \in BOOLEAN, Heartbeat(o, changed) PROVE Counted'
  <2>1. CASE timeout[o] = 1
    BY <1>11, <2>1, LeaveCounted DEF Heartbeat, EndSession
  <2>2. CASE timeout[o] # 1
    <3>1. timeout' = IF timeout[o] > 0 THEN [timeout EXCEPT ![o] = @ - 1] ELSE timeout
      BY <1>11, <2>2 DEF Heartbeat
    <3>2. \A p \in Objs : timeout'[p] > 0 <=> timeout[p] > 0
      BY <2>2, <3>1 DEF ObjsTyped
    <3> QED BY <1>1, <1>11, <2>2, <3>2, SameCounted DEF Heartbeat, Active
  <2> QED BY <2>1, <2>2
<1>12. ASSUME NEW reload \in BOOLEAN, Collect(reload) PROVE Counted'
  <2>1. \A o \in Objs :
          /\ state'[o] = IF o \in Active THEN state[o] ELSE "none"
          /\ name'[o] = IF o \in Active THEN name[o] ELSE Null
          /\ owner'[o] = IF o \in Active THEN owner[o] ELSE Null
          /\ conn'[o] = IF o \in Active THEN conn[o] ELSE Null
          /\ timeout'[o] = IF o \in Active THEN timeout[o] ELSE 0
    BY <1>12 DEF Collect
  <2>2. Active' = Active /\ count' = count
    BY <1>12, <2>1 DEF Active, Collect
  <2> QED BY <1>1, <2>1, <2>2, SameCounted DEF Active
<1>13. CASE UNCHANGED <<state, name, owner, conn, timeout, count>>
  BY <1>1, <1>13, SameCounted DEF Active
<1> QED BY <1>2, <1>3, <1>4, <1>6, <1>7, <1>8, <1>9, <1>10, <1>11, <1>12, <1>13, TalkSteps
        DEF Next, ComeAndGo, Dialogue, MainLoop, PollReady, NoTick, TickEnd,
            Tick, Broken, vars, objs, links, Overhear, Talk

-----------------------------------------------------------------------------
(* The connections in the dialogue that ends in a new character of a.      *)
Creating(a) ==
    {h \in Handlers : mode[h].at \in {"name", "create"} /\ mode[h].acct = a}

ListedTyped == listed \in [Accounts -> SUBSET Chars]

LEMMA BoundedFinite ==
    ASSUME ListedTyped, NEW a \in Accounts
    PROVE  /\ IsFiniteSet(listed[a]) /\ Cardinality(listed[a]) \in Nat
           /\ IsFiniteSet(Creating(a)) /\ Cardinality(Creating(a)) \in Nat
           /\ Cardinality(Handlers) \in Nat
           /\ Cardinality(Creating(a)) <= Cardinality(Handlers)
<1>1. IsFiniteSet(Chars) /\ IsFiniteSet(Handlers)
  BY SessionAssumption
<1>2. listed[a] \subseteq Chars /\ Creating(a) \subseteq Handlers
  BY DEF ListedTyped, Creating
<1> QED BY <1>1, <1>2, FS_Subset, FS_CardinalityType

(* Where neither a list nor the dialogues about it grow, it stays bounded. *)
LEMMA NoGrowth ==
    ASSUME ListedTyped, ListedTyped', CharactersBounded,
           \A a \in Accounts : listed'[a] \subseteq listed[a],
           \A h \in Handlers : \/ mode'[h].at \notin {"name", "create"}
                               \/ /\ mode[h].at \in {"name", "create"}
                                  /\ mode'[h].acct = mode[h].acct
    PROVE  CharactersBounded'
<1> SUFFICES ASSUME NEW a \in Accounts
             PROVE  Cardinality(listed'[a]) + Cardinality(Creating(a)')
                      < MaxCharacters + Cardinality(Handlers)
  BY DEF CharactersBounded, Creating
<1>1. Creating(a)' \subseteq Creating(a) /\ listed'[a] \subseteq listed[a]
  BY DEF Creating
<1>2. /\ Cardinality(Creating(a)') \in Nat /\ Cardinality(Creating(a)') <= Cardinality(Creating(a))
      /\ Cardinality(listed'[a]) \in Nat /\ Cardinality(listed'[a]) <= Cardinality(listed[a])
  BY <1>1, BoundedFinite, FS_Subset, FS_CardinalityType
<1>3. Cardinality(listed[a]) + Cardinality(Creating(a)) < MaxCharacters + Cardinality(Handlers)
  BY DEF CharactersBounded, Creating
<1> QED BY <1>2, <1>3, BoundedFinite, SessionAssumption

(* Every step keeps the lists of characters bounded.                       *)
LEMMA BoundedStep ==
    NetTyped /\ ListedTyped /\ CharactersBounded /\ [Next]_vars
        => ListedTyped' /\ CharactersBounded'
<1> SUFFICES ASSUME NetTyped, ListedTyped, CharactersBounded, [Next]_vars
             PROVE  ListedTyped' /\ CharactersBounded'
  OBVIOUS
<1> USE DEF In
<1>1. \A h \in Handlers :
        /\ mode[h] \in ModeType
        /\ mode[h].at \in {"menu", "name", "create", "delete", "play"} => mode[h].acct \in Accounts
        /\ mode[h].at = "create" => mode[h].arg \in Chars
  BY DEF NetTyped, ModeFits
<1>2. ASSUME UNCHANGED listed,
             \A h \in Handlers : mode'[h] = mode[h] \/ mode'[h].at \notin {"name", "create"}
      PROVE  ListedTyped' /\ CharactersBounded'
  BY <1>2, NoGrowth DEF ListedTyped
<1>3. ASSUME NEW h \in Handlers,
             \/ Hangup(h) \/ Leave(h) \/ Accept(h) \/ Reap(h) \/ LoginRefused(h)
             \/ LoginDisabled(h) \/ LoginAccepted(h) \/ BackToMenu(h) \/ Quit(h)
             \/ \E a \in Accounts \cup {Null} : LoginName(h, a)
             \/ \E c \in Chars : DeleteSelect(h, c) \/ PlayActive(h, c)
             \/ \E o \in Objs : Boot(h, o) \/ Overhear(h, o)
      PROVE  ListedTyped' /\ CharactersBounded'
  <2> USE DEF disk, net, NetTyped, Mode, Menu, NoMode, Close, ModeType
  <2>1. UNCHANGED listed
    BY <1>3 DEF Hangup, Leave, Accept, Reap, LoginRefused, LoginDisabled,
                LoginAccepted, BackToMenu, Quit, LoginName, DeleteSelect,
                PlayActive, Boot, Overhear
  <2>2. CASE Hangup(h) \/ Leave(h) \/ Accept(h) \/ Reap(h)
    BY <1>2, <2>1, <2>2 DEF Hangup, Leave, Accept, Reap
  <2>3. CASE LoginRefused(h) \/ LoginDisabled(h) \/ LoginAccepted(h)
    BY <1>2, <2>1, <2>3 DEF LoginRefused, LoginDisabled, LoginAccepted
  <2>4. CASE BackToMenu(h) \/ Quit(h)
    BY <1>2, <2>1, <2>4 DEF BackToMenu, Quit
  <2>5. ASSUME NEW a \in Accounts \cup {Null}, LoginName(h, a)
        PROVE  \A g \in Handlers : mode'[g] = mode[g] \/ mode'[g].at \notin {"name", "create"}
    BY <2>5 DEF LoginName
  <2>6. ASSUME NEW c \in Chars, DeleteSelect(h, c) \/ PlayActive(h, c)
        PROVE  \A g \in Handlers : mode'[g] = mode[g] \/ mode'[g].at \notin {"name", "create"}
    BY <2>6 DEF DeleteSelect, PlayActive, Get
  <2>7. ASSUME NEW o \in Objs, Boot(h, o) \/ Overhear(h, o)
        PROVE  \A g \in Handlers : mode'[g] = mode[g] \/ mode'[g].at \notin {"name", "create"}
    BY <2>7 DEF Boot, Overhear
  <2> QED BY <1>2, <1>3, <2>1, <2>2, <2>3, <2>4, <2>5, <2>6, <2>7
<1>4. ASSUME NEW h \in Handlers, NEW c \in Chars, NEW o \in Objs,
             PlayLoad(h, c, o) \/ PlayFailed(h, c, o) \/ PlayRefused(h, c, o)
      PROVE  ListedTyped' /\ CharactersBounded'
  <2>1. UNCHANGED listed
    BY <1>4 DEF PlayLoad, PlayFailed, PlayRefused, disk
  <2>2. \A g \in Handlers : mode'[g] = mode[g] \/ mode'[g].at \notin {"name", "create"}
    BY <1>4 DEF PlayLoad, PlayFailed, PlayRefused, Close, NoMode, Mode, net, NetTyped
  <2> QED BY <1>2, <2>1, <2>2
<1>5. ASSUME NEW h \in Handlers, CreateBegin(h) PROVE ListedTyped' /\ CharactersBounded'
  <2> DEFINE b == mode[h].acct
  <2>1. /\ b \in Accounts /\ Cardinality(listed[b]) < MaxCharacters
        /\ listed' = listed /\ mode' = [mode EXCEPT ![h] = Mode("name", b, Null)]
    BY <1>1, <1>5 DEF CreateBegin, disk
  <2>2. ListedTyped'
    BY <2>1 DEF ListedTyped
  <2>3. ASSUME NEW a \in Accounts
        PROVE  Cardinality(listed'[a]) + Cardinality(Creating(a)')
                 < MaxCharacters + Cardinality(Handlers)
    <3>1. CASE a = b
      <4>1. Cardinality(Creating(a)') \in Nat /\ Cardinality(Creating(a)') <= Cardinality(Handlers)
        <5>1. Creating(a)' \subseteq Handlers
          BY DEF Creating
        <5> QED BY <5>1, SessionAssumption, FS_Subset, FS_CardinalityType
      <4> QED BY <2>1, <3>1, <4>1, BoundedFinite, SessionAssumption
    <3>2. CASE a # b
      <4>1. Creating(a)' = Creating(a)
        BY <2>1, <3>2, <1>5 DEF Creating, Mode, NetTyped, CreateBegin
      <4> QED BY <2>1, <4>1 DEF CharactersBounded, Creating
    <3> QED BY <3>1, <3>2
  <2> QED BY <2>2, <2>3 DEF CharactersBounded, Creating
<1>6. ASSUME NEW h \in Handlers, NEW c \in Chars, CreateName(h, c)
      PROVE  ListedTyped' /\ CharactersBounded'
  <2>1. /\ listed' = listed /\ mode[h].at = "name"
        /\ mode' = [mode EXCEPT ![h] = Mode("create", mode[h].acct, c)]
    BY <1>6 DEF CreateName, disk
  <2>2. \A g \in Handlers : \/ mode'[g].at \notin {"name", "create"}
                            \/ /\ mode[g].at \in {"name", "create"}
                               /\ mode'[g].acct = mode[g].acct
    BY <2>1 DEF NetTyped, Mode
  <2> QED BY <2>1, <2>2, NoGrowth DEF ListedTyped
<1>7. ASSUME NEW h \in Handlers, NEW o \in Objs, CreateFinal(h, o)
      PROVE  ListedTyped' /\ CharactersBounded'
  <2> DEFINE b == mode[h].acct
             c == mode[h].arg
  <2>1. /\ b \in Accounts /\ c \in Chars /\ h \in Creating(b)
        /\ mode' = [mode EXCEPT ![h] = Menu(b)]
        /\ listed' = listed \/ listed' = [listed EXCEPT ![b] = @ \cup {c}]
    BY <1>1, <1>7 DEF CreateFinal, CreateCharacter, Creating, disk
  <2>2. ListedTyped'
    BY <2>1 DEF ListedTyped
  <2>3. ASSUME NEW a \in Accounts
        PROVE  Cardinality(listed'[a]) + Cardinality(Creating(a)')
                 < MaxCharacters + Cardinality(Handlers)
    <3>1. Cardinality(listed[a]) + Cardinality(Creating(a)) < MaxCharacters + Cardinality(Handlers)
      BY DEF CharactersBounded, Creating
    <3>2. CASE a = b
      <4>1. Creating(a)' = Creating(a) \ {h}
        BY <2>1, <3>2 DEF Creating, Menu, Mode, NetTyped
      <4>2. Cardinality(Creating(a)') = Cardinality(Creating(a)) - 1
        BY <2>1, <3>2, <4>1, BoundedFinite, FS_RemoveElement
      <4>3. Cardinality(listed'[a]) \in {Cardinality(listed[a]), Cardinality(listed[a]) + 1}
        <5>1. listed'[a] = listed[a] \/ listed'[a] = listed[a] \cup {c}
          BY <2>1, <3>2 DEF ListedTyped
        <5> QED BY <5>1, BoundedFinite, FS_AddElement
      <4> QED BY <3>1, <4>2, <4>3, BoundedFinite, SessionAssumption
    <3>3. CASE a # b
      <4>1. Creating(a)' = Creating(a) /\ listed'[a] = listed[a]
        BY <2>1, <3>3 DEF Creating, Menu, Mode, NetTyped, ListedTyped
      <4> QED BY <3>1, <4>1
    <3> QED BY <3>2, <3>3
  <2> QED BY <2>2, <2>3 DEF CharactersBounded, Creating
<1>8. ASSUME NEW h \in Handlers, DeleteConfirm(h) PROVE ListedTyped' /\ CharactersBounded'
  <2>1. \A g \in Handlers : mode'[g] = mode[g] \/ mode'[g].at \notin {"name", "create"}
    BY <1>8 DEF DeleteConfirm, Menu, Mode, NoMode
  <2>2. ListedTyped' /\ \A a \in Accounts : listed'[a] \subseteq listed[a]
    BY <1>8 DEF DeleteConfirm, Destroyed, ListedTyped
  <2> QED BY <2>1, <2>2, NoGrowth
<1>9. ASSUME NEW o \in Objs, NEW changed \in BOOLEAN, Heartbeat(o, changed)
      PROVE  ListedTyped' /\ CharactersBounded'
  BY <1>2, <1>9 DEF Heartbeat, Close, NoMode, net
<1>10. CASE UNCHANGED <<mode, listed>>
  BY <1>2, <1>10
<1> QED BY <1>3, <1>4, <1>5, <1>6, <1>7, <1>8, <1>9, <1>10
        DEF Next, ComeAndGo, Dialogue, MainLoop, PollReady, NoTick, TickEnd,
            Tick, Collect, Broken, vars, net, disk

-----------------------------------------------------------------------------
(* A server that has just started satisfies both invariants.               *)
LEMMA InitOneLife == Init => IInv
<1> SUFFICES ASSUME Init PROVE IInv
  OBVIOUS
<1>1. ModeFits(NoMode) /\ NoMode.at = "none"
  BY DEF ModeFits, ModeType, NoMode, Ats
<1>2. NetTyped
  BY <1>1 DEF Init, NetTyped, ModeFits
<1>3. ObjsTyped /\ ObjectsFit /\ Active = {}
  BY SessionAssumption DEF Init, ObjsTyped, ObjectsFit, Active
<1>4. PlayIsExclusive /\ ConnInPlay
  BY <1>1, SessionAssumption DEF Init, PlayIsExclusive, ConnInPlay
<1>5. \A a \in Accounts : {o \in Active : owner[o] = a} = {}
  BY <1>3
<1>6. ActiveCounted
  <2>1. ASSUME NEW a \in Accounts
        PROVE  count[a] = Cardinality({o \in Active : owner[o] = a}) /\ count[a] <= MaxActive
    <3>1. Cardinality({o \in Active : owner[o] = a}) = 0
      BY <1>5, FS_EmptySet
    <3> QED BY <3>1, SessionAssumption DEF Init
  <2> QED BY <2>1 DEF ActiveCounted
<1> QED BY <1>2, <1>3, <1>4, <1>6 DEF IInv, OneLife, OncePerName, TimerOnlyLinkDead

LEMMA InitBounded == Init => ListedTyped /\ CharactersBounded
<1> SUFFICES ASSUME Init PROVE ListedTyped /\ CharactersBounded
  OBVIOUS
<1>1. ListedTyped /\ \A a \in Accounts : Cardinality(listed[a]) <= MaxCharacters
  BY DEF Init, ListedTyped
<1>2. ASSUME NEW a \in Accounts PROVE Creating(a) = {}
  BY DEF Init, Creating, NoMode
<1>3. Cardinality(Handlers) # 0
  BY SessionAssumption, FS_EmptySet
<1>4. ASSUME NEW a \in Accounts
      PROVE  Cardinality(listed[a]) + Cardinality(Creating(a)) < MaxCharacters + Cardinality(Handlers)
  BY <1>1, <1>2, <1>3, BoundedFinite, FS_EmptySet, SessionAssumption
<1> QED BY <1>1, <1>4 DEF CharactersBounded, Creating

(* IInv holds in every reachable state.                                    *)
THEOREM Invariance == Spec => []IInv
<1>1. IInv /\ [Next]_vars => IInv'
  BY NetStep, ObjsStep, DrivenStep, CountedStep DEF IInv, OneLife, Driven, Counted
<1> QED BY <1>1, InitOneLife, PTL DEF Spec

(* However connections, logins, deletions, boots and timeouts interleave,  *)
(* one Player of a name is in the world, one connection drives it, its     *)
(* account counts it once and its link-dead timer runs only without one.   *)
THEOREM OneLifeCorrect == Spec => []OneLife
<1>1. IInv => OneLife
  BY DEF IInv
<1> QED BY <1>1, Invariance, PTL

(* An account's list overshoots the limit on characters by less than the   *)
(* number of connections, creations still under way included.              *)
THEOREM BoundedCorrect == Spec => []CharactersBounded
<1> DEFINE Inv == NetTyped /\ ListedTyped /\ CharactersBounded
<1>1. Init => Inv
  BY InitOneLife, InitBounded DEF IInv
<1>2. Inv /\ [Next]_vars => Inv'
  BY NetStep, BoundedStep
<1> QED BY <1>1, <1>2, PTL DEF Spec
=============================================================================
