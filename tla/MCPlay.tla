------------------------------- MODULE MCPlay -------------------------------
(***************************************************************************)
(* What a player does and sees, and what a builder and a script do, one    *)
(* part in each behaviour: commands, the search for what they name, names, *)
(* macro texts, the creation of a character, the online editor, hooks and  *)
(* scripts, ZMP; and of the Lua they run on tables, calls and coroutines,  *)
(* patterns.                                                               *)
(***************************************************************************)
EXTENDS Integers, Sequences, SequencesExt, Scripts, Creation, Builder

CONSTANTS k1, k2, v1,          \* model values: strings and a value of Lua's;
          NoValue, Off, Failed \* nil; no value at all; an error

VARIABLES which,
    words, who, tried, commandArgv, best_score, best_cmds, outcome,
    last_command, lines,
    creatures, objects, tables, held, worn, portals, index, mine, findFound,
    text, article, given, sure, asked, chunks, word, matches, namesAnswer,
    source, script, macroCache, shown, printed,
    zmp, zmpColor, packet, zmpArgv, sent, typed,
    hash, table, content, cursor, trail, steady,
    native, ci, size, nC, baseC, status, errfunc,
    task, subject, pattern, init, luamatchAt, luamatchFound, out, done

(* A table of commands: words and phrases, a literal that may be left out, *)
(* one for administrators, and three that begin alike.                     *)
Node(t, i, o, l) == [type |-> t, arg |-> i, opt |-> o, literal |-> l]
Literal(l)       == Node("literal", 9, FALSE, l)
Format(c, gm, p, ns) == [command |-> c, gm |-> gm, player |-> p, nodes |-> ns]
CommandTable ==
    << Format("give", FALSE, FALSE, <<Literal("give"), Node("word", 0, FALSE, ""),
                                      Node("literal", 9, TRUE, "to"), Node("phrase", 1, FALSE, "")>>),
       Format("put", FALSE, FALSE, <<Literal("put"), Node("phrase", 0, FALSE, ""),
                                     Node("literal", 2, FALSE, "to"), Node("phrase", 1, FALSE, "")>>),
       Format("boot", TRUE, TRUE, <<Literal("put"), Node("word", 0, FALSE, ""), Node("word", 1, TRUE, "")>>),
       Format("man", FALSE, TRUE, <<Literal("put"), Node("phrase", 0, TRUE, "")>>) >>
Begun(x) == IF x = "p" THEN {"put"} ELSE {x}

\* Names over an alphabet with a vowel, a capital and a blank, and what
\* players type for them.
Spelt(cs, n) == UNION {[1 .. k -> cs] : k \in 0 .. n}
EntityNames ==
    Spelt({"a", "n", " ", "A"}, 4)
    \cup { art \o s : art \in {<<"t", "h", "e", " ">>, <<"T", "h", "e", " ">>, <<"s", "o", "m", "e", " ">>},
                   s \in Spelt({"a", "s", " "}, 2) }
Typed == Spelt({"a", "n", " "}, 4) \cup {<<"a", " ", "a", " ", "a">>}

\* Pieces of macro texts, with and without an error: plain text with all
\* kinds of characters, ifs, calls.
MacroPieces ==
    { <<"'", "a">>, <<"\\", "high">>, <<"{", "$", "}">>, <<"{", "if", "$", "eq", "1", "}">>, <<"{", "else", "}">>,
      <<"{", "elif", "not", "$", ".", "a", "}">>, <<"{", "endif", "}">>,
      <<"{", "a", "(", "$", ",", "^", "1", ")", "}">>, <<"{", "(", "a", "}">> }

RaceColors == [r \in Races |-> [p \in Parts |-> {<<r, 1>>, <<r, 2>>}]]

\* Zones: a pair of doors, a crossing with a one-way door, doors that lead
\* back to their own room.
Door(d, t, o) == [dir |-> d, target |-> t, oneway |-> o]
RoomOf(i, ds) == [id |-> i, doors |-> ds]
TwoRooms == <<RoomOf("a", {Door("north", "b", FALSE)}), RoomOf("b", {Door("south", "a", FALSE)})>>
Zones ==
    { TwoRooms,
      <<RoomOf("a", {Door("north", "b", FALSE), Door("south", "a", FALSE)}),
        RoomOf("b", {Door("east", "c", FALSE), Door("north", "a", TRUE)})>>,
      <<RoomOf("a", {}), RoomOf("b", {Door("south", "b", FALSE), Door("west", "a", FALSE)}),
        RoomOf("c", {Door("south", "b", FALSE)})>> }

\* ZMP packets: known and unknown commands, one to four arguments, with and
\* without the NUL at the end.
N == <<"NUL">>
ZmpNames == {<<"zmp", ".", "check">>, <<"zmp", ".", "support">>, <<"zmp", ".", "ping">>,
             <<"zmp", ".">>, <<"color", ".", "define">>, <<>>}
ZmpPackets ==
    { x \o N : x \in ZmpNames } \cup { x \o N \o y \o N : x, y \in ZmpNames }
    \cup { x \o N \o y \o N \o <<"zmp">> \o N : x, y \in ZmpNames }
    \cup { x \o N \o y \o N \o N \o c \o N : x, y \in ZmpNames, c \in {<<"zmp">>, <<>>} }
    \cup ZmpNames
    \cup { <<"^A">> \o N, <<"zmp", ".", "input">> \o N \o <<"zmp">> \o N, <<"zmp", ".", "input">> \o N }

\* Hash functions: what is one slot apart, what collides.
TableHashes == {h \in [{1, 2, k1, k2} -> {0, 1, 3}] : h[k1] = 0 /\ h[k2] = 3 /\ \A i \in 1 .. 2 : h[i] < 2}

\* Patterns with every operator: up to four pieces whose parentheses match,
\* and %1 only once the first capture is closed.
Pieces ==
    { <<"a">>, <<"b", "*">>, <<".", "-">>, <<"[", "a", "-", "b", "]", "+">>, <<"[", "^", "a", "]">>,
      <<"a", "?">>, <<"(">>, <<")">>, <<"(", ")">>, <<"%", "1">>, <<"%", "b", "a", "b">>,
      <<"%", "f", "[", "%", "l", "]">>, <<"%", "L", "*">> }
RECURSIVE Closed(_, _, _)
Closed(ps, open, ever) ==
    IF ps = <<>> THEN open = <<>>
    ELSE CASE Head(ps) = <<"(">>      -> Closed(Tail(ps), open \o <<ever + 1>>, ever + 1)
           [] Head(ps) = <<"(", ")">> -> Closed(Tail(ps), open, ever + 1)
           [] Head(ps) = <<")">>      -> open # <<>> /\ Closed(Tail(ps), Front(open), ever)
           [] Head(ps) = <<"%", "1">> -> ever > 0 /\ 1 \notin ToSet(open) /\ Closed(Tail(ps), open, ever)
           [] OTHER                   -> Closed(Tail(ps), open, ever)
LuaPatterns ==
    { p \in { FlattenSeq(ps) : ps \in {q \in UNION {[1 .. n -> Pieces] : n \in 0 .. 4} : Closed(q, <<>>, 0)} } :
         Len(p) < 9 }
    \cup { <<"^", "(", "a", "*", ")">>, <<"(", "b", "-", ")", "$">>, <<"^", "b">>, <<"a", "$">> }
LuaSubjects == { <<>>, <<"a", "b">>, <<"1", "a">>, <<"a", "b", "a", "b">> }

Cmd == INSTANCE Command WITH Formats <- CommandTable, Args <- {0, 1, 2},
        Words <- {"give", "p", "to", "x"}, Short <- Begun, MaxWords <- 4,
        MaxLines <- 1, argv <- commandArgv
commandVars == <<words, who, tried, commandArgv, best_score, best_cmds,
                 outcome, last_command, lines>>
CmdIdle ==
    /\ words = "-" /\ who = "-" /\ tried = "-" /\ commandArgv = "-"
    /\ best_score = "-" /\ best_cmds = "-" /\ outcome = "-"
    /\ last_command = "-" /\ lines = "-"

Fnd == INSTANCE Find WITH MaxList <- 2, MaxIndex <- 5, found <- findFound
findVars == <<creatures, objects, tables, held, worn, portals, index, mine,
              findFound>>
FndIdle ==
    /\ creatures = "-" /\ objects = "-" /\ tables = "-" /\ held = "-"
    /\ worn = "-" /\ portals = "-" /\ index = "-" /\ mine = "-"
    /\ findFound = "-"

Nam == INSTANCE Names WITH FullNames <- EntityNames, Phrases <- Typed,
        Lower <- [A |-> "a", T |-> "t"], MaxChunks <- 2, answer <- namesAnswer
namesVars == <<text, article, given, sure, asked, chunks, word, matches, namesAnswer>>
NamIdle ==
    /\ text = "-" /\ article = "-" /\ given = "-" /\ sure = "-"
    /\ asked = "-" /\ chunks = "-" /\ word = "-" /\ matches = "-" /\ namesAnswer = "-"

Mac == INSTANCE Macro WITH Chunks <- MacroPieces, MaxChunks <- 4,
        cache <- macroCache
macroVars == <<source, script, macroCache, shown, printed>>
MacIdle ==
    /\ source = "-" /\ script = "-" /\ macroCache = "-" /\ shown = "-"
    /\ printed = "-"

Zm == INSTANCE Zmp WITH Packets <- ZmpPackets, Control <- {"^A"}, MaxArgs <- 3,
        Colors <- 2, color <- zmpColor, argv <- zmpArgv
zmpVars == <<zmp, zmpColor, packet, zmpArgv, sent, typed>>
ZmIdle ==
    /\ zmp = "-" /\ zmpColor = "-" /\ packet = "-" /\ zmpArgv = "-"
    /\ sent = "-" /\ typed = "-"

Tab == INSTANCE LuaTable WITH Ints <- 1 .. 2, Strings <- {k1, k2},
        Values <- {v1}, Nil <- NoValue, Hashes <- TableHashes,
        NewSizes <- {<<0, 0>>, <<1, 2>>}, MaxArray <- 2
luatableVars == <<hash, table, content, cursor, trail, steady>>
TabIdle ==
    /\ hash = "-" /\ table = "-" /\ content = "-" /\ cursor = "-"
    /\ trail = "-" /\ steady = "-"

Cll == INSTANCE LuaCalls WITH Threads <- {"main", "t1"}, M <- "main",
        MaxCCalls <- 3, MaxErrCalls <- 5, MaxCalls <- 3, BasicSize <- 2
luacallsVars == <<native, ci, size, nC, baseC, status, errfunc>>
CllIdle ==
    /\ native = "-" /\ ci = "-" /\ size = "-" /\ nC = "-" /\ baseC = "-"
    /\ status = "-" /\ errfunc = "-"

Mat == INSTANCE LuaMatch WITH Subjects <- LuaSubjects, Patterns <- LuaPatterns,
        Replacement <- <<"%", "1", "x", "%", "0">>,
        Class <- [l |-> {"a", "b"}], Upper <- [L |-> "l"],
        Code <- [c \in {"NUL", "1", "a", "b"} |-> CASE c = "a" -> 3 [] c = "b" -> 4 [] c = "1" -> 1 [] OTHER -> 0],
        MaxCaptures <- 4, at <- luamatchAt, found <- luamatchFound
luamatchVars == <<task, subject, pattern, init, luamatchAt, luamatchFound, out,
                  done>>
MatIdle ==
    /\ task = "-" /\ subject = "-" /\ pattern = "-" /\ init = "-"
    /\ luamatchAt = "-" /\ luamatchFound = "-" /\ out = "-" /\ done = "-"

vars == <<which, commandVars, findVars, namesVars, macroVars, creationVars,
          builderVars, scriptsVars, zmpVars, luatableVars, luacallsVars,
          luamatchVars>>

Init ==
    /\ which \in {"command", "find", "names", "macro", "creation", "builder",
               "scripts", "zmp", "luatable", "luacalls", "luamatch"}
    /\ IF which = "command" THEN Cmd!Init ELSE CmdIdle
    /\ IF which = "find" THEN Fnd!Init ELSE FndIdle
    /\ IF which = "names" THEN Nam!Init ELSE NamIdle
    /\ IF which = "macro" THEN Mac!Init ELSE MacIdle
    /\ CreationInit /\ (which # "creation" => race = Unset)
    /\ BuilderInit /\ (which # "builder" => file = TwoRooms)
    /\ ScriptsInit
    /\ IF which = "zmp" THEN Zm!Init ELSE ZmIdle
    /\ IF which = "luatable" THEN Tab!Init ELSE TabIdle
    /\ IF which = "luacalls" THEN Cll!Init ELSE CllIdle
    /\ IF which = "luamatch" THEN Mat!Init ELSE MatIdle

Next ==
    /\ UNCHANGED which
    /\ IF which = "command" THEN Cmd!Next ELSE UNCHANGED commandVars
    /\ IF which = "find" THEN Fnd!Next ELSE UNCHANGED findVars
    /\ IF which = "names" THEN Nam!Next ELSE UNCHANGED namesVars
    /\ IF which = "macro" THEN Mac!Next ELSE UNCHANGED macroVars
    /\ IF which = "creation" THEN CreationNext ELSE UNCHANGED creationVars
    /\ IF which = "builder" THEN BuilderNext ELSE UNCHANGED builderVars
    /\ IF which = "scripts" THEN ScriptsNext ELSE UNCHANGED scriptsVars
    /\ IF which = "zmp" THEN Zm!Next ELSE UNCHANGED zmpVars
    /\ IF which = "luatable" THEN Tab!Next ELSE UNCHANGED luatableVars
    /\ IF which = "luacalls" THEN Cll!Next ELSE UNCHANGED luacallsVars
    /\ IF which = "luamatch" THEN Mat!Next ELSE UNCHANGED luamatchVars

Spec == Init /\ [][Next]_vars

(* Command: the arguments are those of the line.                           *)
ArgsRight ==
    which = "command" => Cmd!ArgsRight
(* Find and Names: the n-th thing that a phrase names is found; a phrase   *)
(* names what has its words, and names are kept as they were given.        *)
FindsTheNth ==
    /\ which = "find" => Fnd!FindsTheNth
    /\ which = "names" => Nam!MatchesRight /\ Nam!NameKept
(* Macro: plain text is shown as it is written, where the macro in it does *)
(* not fail, but for characters beyond ASCII.                              *)
TextKept ==
    which = "macro" => Mac!TextKept
(* Zmp: packets are understood as they were sent.                          *)
ZmpRight ==
    which = "zmp" => Zm!ZmpRight
(* LuaTable: a table holds what was put in it, and next visits it all.     *)
TableRight ==
    which = "luatable" => Tab!MapRight /\ Tab!NextRight
(* LuaCalls: the two stacks of calls agree, errors and yields or not.      *)
StacksAgree ==
    which = "luacalls" => Cll!StacksAgree
(* LuaMatch: a match is the first one in the order of preference.          *)
MatchRight ==
    which = "luamatch" => Mat!MatchRight
=============================================================================
