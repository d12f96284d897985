------------------------------ MODULE Command ------------------------------
(***************************************************************************)
(* The command interpreter: Player::processCommand, _MCommand::call and    *)
(* CommandFormat::trymatch (src/mud/command.cc).  A line is a sequence of  *)
(* [word, gap], the gap being how many blanks follow the word; a format is *)
(* a command, what it takes to call it, and a sequence of nodes            *)
(* [type, arg, opt, literal].  Formats are tried in the order of the       *)
(* table, which nothing sorts.                                             *)
(***************************************************************************)
EXTENDS Integers, SequencesExt

CONSTANTS Formats,    \* the table: [command, gm, player, nodes]
          Args,       \* argument indices
          Words,
          Short(_),   \* the literals a word is a beginning of (phraseMatch)
          MaxWords,   \* bound on a line
          MaxLines    \* bound on the lines entered

Drop(s, n) == SubSeq(s, n + 1, Len(s))
Lines == UNION {[1 .. k -> [word : Words, gap : {1, 2}]] : k \in 1 .. MaxWords}

VARIABLES words,         \* of the line being executed, <<>> when there is none
          who,           \* "gm", "player" or "npc": whose command it is
          tried,         \* formats tried
          argv,
          best_score, best_cmds,
          outcome,       \* "none", "called", "refused", "usage", "unknown"
          last_command,
          lines          \* how many there have been

vars == <<words, who, tried, argv, best_score, best_cmds, outcome, last_command, lines>>

Empty == [a \in Args |-> <<>>]

-----------------------------------------------------------------------------
(* argv[arg] = text, where an argument has an index.                       *)
Store(av, n, text) == IF n.arg \in Args THEN [av EXCEPT ![n.arg] = text] ELSE av

Text(ws) == [i \in DOMAIN ws |-> ws[i].word]

(* The blanks that followed the first k words, all of them zeroed by call. *)
RECURSIVE Gaps(_, _)
Gaps(ws, k) == IF k = 0 THEN 0 ELSE ws[k].gap + Gaps(ws, k - 1)

(* Faulty: one blank too many is put back.                                 *)
MutRepair(ws, cnt) ==
    LET put == cnt
        k == CHOOSE k \in 1 .. Len(ws) :
                /\ Gaps(ws, k - 1) <= put
                /\ k = Len(ws) \/ Gaps(ws, k) > put
    IN  Text(SubSeq(ws, 1, k))

(* repair: one blank is put back for every word after the first, each at   *)
(* the end of what the text has become.  The text ends where a zeroed      *)
(* blank is left.                                                          *)
Repair(ws, cnt) ==
    LET put == IF cnt = 0 THEN 0 ELSE cnt - 1
        k == CHOOSE k \in 1 .. Len(ws) :
                /\ Gaps(ws, k - 1) <= put
                /\ k = Len(ws) \/ Gaps(ws, k) > put
    IN  Text(SubSeq(ws, 1, k))

(* trymatch: [r, argv], where r is -1 for a match, else how well it went.  *)
RECURSIVE TryMatch(_, _, _)
RECURSIVE TryPhrase(_, _, _, _)

(* The shortest phrase after which the rest of the nodes match.            *)
TryPhrase(ns, ws, cnt, av) ==
    LET t == TryMatch(Tail(ns), Drop(ws, cnt), av)
    IN  CASE t.r = -1      -> [r |-> -1, argv |-> Store(t.argv, Head(ns), Repair(ws, cnt))]
          [] t.r >= 0 /\ cnt = Len(ws) -> [r |-> cnt + t.r, argv |-> t.argv]
          [] OTHER         -> TryPhrase(ns, ws, cnt + 1, t.argv)

(* One word, taken by a word or a literal node.                            *)
TryWord(ns, ws, av) ==
    LET n == Head(ns)
        text == IF n.type = "literal" THEN <<n.literal>> ELSE <<Head(ws).word>>
        t == TryMatch(Tail(ns), Tail(ws), Store(av, n, text))
        cleared == Store(t.argv, n, <<>>)
    IN  CASE t.r = -1 -> t
          [] t.r >= 0 /\ n.opt -> TryMatch(Tail(ns), ws, cleared)
          [] OTHER    -> [r |-> 1 + t.r, argv |-> cleared]

TryMatch(ns, ws, av) ==
    CASE ns = <<>> -> [r |-> IF ws = <<>> THEN -1 ELSE 0, argv |-> av]
      [] ns # <<>> /\ ws = <<>> ->
            IF Head(ns).opt THEN TryMatch(Tail(ns), ws, av) ELSE [r |-> 0, argv |-> av]
      [] OTHER ->
            CASE Head(ns).type = "phrase" -> TryPhrase(ns, ws, IF Head(ns).opt THEN 0 ELSE 1, av)
              [] Head(ns).type = "literal" /\ Head(ns).literal \notin Short(Head(ws).word) ->
                    [r |-> 0, argv |-> av]
              [] OTHER -> TryWord(ns, ws, av)

-----------------------------------------------------------------------------
Init ==
    /\ words = <<>> /\ who = "player" /\ tried = 0 /\ argv = Empty
    /\ best_score = -1 /\ best_cmds = {} /\ outcome = "none"
    /\ last_command = <<>> /\ lines = 0

(* processCommand: "#" stands for the last line.                           *)
Enter(w, line) ==
    /\ words = <<>> /\ lines' = lines + 1
    /\ words' = line /\ who' = w
    /\ tried' = 0 /\ argv' = Empty /\ best_score' = -1 /\ best_cmds' = {} /\ outcome' = "none"
    /\ UNCHANGED last_command

EnterLine ==
    /\ lines < MaxLines
    /\ \E w \in {"gm", "player", "npc"}, line \in {l \in Lines : l[Len(l)].gap = 1} : Enter(w, line)

Repeat == lines = MaxLines /\ last_command # <<>> /\ who # "npc" /\ Enter(who, last_command)

(* One format of the table.                                                *)
TryFormat ==
    LET f == Formats[tried + 1]
        t == TryMatch(f.nodes, words, argv)
    IN  /\ words # <<>> /\ outcome = "none" /\ tried < Len(Formats)
        /\ tried' = tried + 1
        /\ IF f.gm /\ who # "gm" THEN UNCHANGED <<argv, outcome, best_score, best_cmds>>
           ELSE IF t.r = -1
           THEN /\ argv' = t.argv
                /\ outcome' = IF f.player /\ who = "npc" THEN "refused" ELSE "called"
                /\ UNCHANGED <<best_score, best_cmds>>
           ELSE /\ argv' = Empty
                /\ UNCHANGED outcome
                /\ IF t.r # 0 /\ t.r > best_score
                   THEN best_score' = t.r /\ best_cmds' = {f.command}
                   ELSE /\ best_cmds' = IF t.r = best_score THEN best_cmds \cup {f.command} ELSE best_cmds
                        /\ UNCHANGED best_score
        /\ UNCHANGED <<words, who, last_command, lines>>

(* No format matched: usage to a player who came near, or a shrug.         *)
GiveUp ==
    /\ words # <<>> /\ outcome = "none" /\ tried = Len(Formats)
    /\ outcome' = IF best_cmds # {} /\ who # "npc" THEN "usage" ELSE "unknown"
    /\ UNCHANGED <<words, who, tried, argv, best_score, best_cmds, last_command, lines>>

Done ==
    /\ outcome # "none" /\ words # <<>>
    /\ words' = <<>> /\ last_command' = IF who = "npc" THEN last_command ELSE words
    /\ UNCHANGED <<who, tried, argv, best_score, best_cmds, outcome, lines>>

Next == EnterLine \/ Repeat \/ TryFormat \/ GiveUp \/ Done

Spec == Init /\ [][Next]_vars

-----------------------------------------------------------------------------
(* What a format says: every way to divide the words among its nodes, as   *)
(* the arguments it gives.                                                 *)
RECURSIVE Divisions(_, _)
Divisions(ns, ws) ==
    IF ns = <<>> THEN IF ws = <<>> THEN {Empty} ELSE {}
    ELSE LET n == Head(ns)
             without == IF n.opt THEN Divisions(Tail(ns), ws) ELSE {}
             with(k, text) == {Store(av, n, text) : av \in Divisions(Tail(ns), Drop(ws, k))}
         IN  without \cup
             CASE n.type = "phrase" -> UNION {with(k, Text(SubSeq(ws, 1, k))) : k \in 1 .. Len(ws)}
               [] n.type = "word" -> IF ws = <<>> THEN {} ELSE with(1, <<Head(ws).word>>)
               [] OTHER -> IF ws # <<>> /\ n.literal \in Short(Head(ws).word)
                           THEN with(1, <<n.literal>>) ELSE {}

Single == \A i \in 1 .. Len(words) - 1 : words[i].gap = 1
Plain(f) == \A i \in DOMAIN f.nodes : ~(f.nodes[i].type = "literal" /\ f.nodes[i].opt)
Fits(i) == (Formats[i].gm => who = "gm") /\ Divisions(Formats[i].nodes, words) # {}

(* What a command is called with is a way to divide the line among the     *)
(* nodes of its format, with nothing left from formats tried before; where *)
(* words are more than a blank apart, a phrase may lose its end.  Nobody   *)
(* calls a command he has no access to, and no line is turned down that    *)
(* fits a format without optional literals (command.cc:155-233, 392-478).  *)
ArgsRight ==
    words # <<>> =>
        /\ outcome = "called" =>
             /\ Fits(tried)
             /\ \E d \in Divisions(Formats[tried].nodes, words) : \A a \in Args :
                    IF Single THEN argv[a] = d[a] ELSE IsPrefix(argv[a], d[a])
        /\ outcome \in {"usage", "unknown"} =>
             \A i \in DOMAIN Formats : Plain(Formats[i]) => ~Fits(i)

============================================================================
