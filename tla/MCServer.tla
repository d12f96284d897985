------------------------------ MODULE MCServer ------------------------------
(***************************************************************************)
(* The server process and what it keeps in files, one part in each         *)
(* behaviour: what comes from and goes to a telnet client, the main loop,  *)
(* the PID file, accounts, files of objects, what is saved and loaded,     *)
(* settings, the deny list, time and weather, the calendar, blueprints.    *)
(* The definitions of Accounts, MainLoop, Blueprints, Persist and Clock    *)
(* are used as they are, those of the others through their instances.      *)
(***************************************************************************)
EXTENDS Accounts, MainLoop, Blueprints, Persist, Clock

VARIABLES which,
    packets, stream, st, sb, line, handled, zmp,
    text, out, chunk, cur_col, margin, need_prompt, need_newline, soft_break,
    divided,
    objectsFile, indent, written, objectsReading, objectsPos, objectsNodes,
    step, argv, lines, given, content, value, log,
    denyFile, denylist,
    table, calendarFile, calendarPos, state, cword, cent, entries, calendar

(* Of the managers that require others (npcbp.cc, objectbp.cc, pmanager.cc,*)
(* zone.cc), a chain and a join.                                           *)
Requires == [Zone |-> {"Entity", "NpcBP", "ObjectBP"}, NpcBP |-> {"ObjectBP", "Event"},
             ObjectBP |-> {"Event"}, Event |-> {}, Entity |-> {}]

\* Strings with all that a file of objects must escape or ends a block with.
ObjTexts == {<<>>, <<"x", "\\">>, <<"\"", " ", "#", "n">>, <<"\n", "%", "end">>,
             <<"x", "\n">>, <<"NUL", "\t", "}">>, <<"\\", "n">>}

\* What a thing saves, where it is not saved and read the same way.
Saved == {"dead", "coins", "tag", "location", "desc", "name", "timeout", "maxactive",
          "disabled", "closed", "door", "skill", "event", "zonelock"}

\* A setting of each kind, with and without an option or a name in the file.
Known(n, o, f, k, d) == [name |-> n, option |-> o, file |-> f, kind |-> k, def |-> d]
Known4 == << Known("log_file", "-l", "log_file", "string", "none"),
             Known("config_file", "-C", "none", "string", "none"),
             Known("daemon", "-d", "daemon", "bool", "false"),
             Known("port", "-P", "port", "int", "4545") >>
ConfLine(k, g, v) == [key |-> k, gap |-> g, value |-> v]
ConfLines == { ConfLine("none", 0, "none"), ConfLine("log_file", 0, "yes"), ConfLine("daemon", 1, "yes"),
               ConfLine("daemon", 0, "7x"), ConfLine("port", 1, "7x"), ConfLine("port", 2, "yes"),
               ConfLine("colour", 1, "yes") }
ToInt(w)  == IF w = "7x" THEN "7" ELSE "0"
ToBool(w) == IF w = "yes" THEN "true" ELSE "none"

\* Three calendars, with leap months and without; two kinds of weather.
Month(d, l) == [days |-> d, leap |-> l]
ThreeYears == {<<Month(2, 0), Month(2, 2), Month(1, 0)>>, <<Month(0, 0), Month(3, 0)>>, <<Month(1, 3), Month(2, 0)>>}
Turn(t, c) == [to |-> t, chance |-> c]
TwoSkies == { << <<Turn(2, 1)>>, <<Turn(1, 2), Turn(2, 1)>> >>, << <<>> >> }

\* Lines of a calendar's file, right, incomplete and unknown.
CalendarLines ==
    {<<>>, <<<<"day">>>>, <<<<"month">>, <<"y">>, <<"n">>, <<"n">>>>}
    \cup { <<<<"weekday">>, c>> : c \in {<<>>, <<"x">>, <<"x", "blank", "y">>} }
    \cup { <<<<"month">>, c, <<"n">>>> : c \in {<<>>, <<"x">>, <<"x", "blank", "y">>} }
    \cup { <<<<"daytime">>, <<t>>, c>> : t \in {"day", "x"}, c \in {<<"x">>, <<"x", "blank", "y">>} }
CalendarFiles == UNION {[1 .. n -> CalendarLines] : n \in 0 .. 3}

\* What arrives at once: any byte, and the cuts that matter.
InputPackets == {<<b>> : b \in {"a", "n", "d", "0", "IAC", "WILL", "SB", "SE"}}
    \cup {<<"a", "a">>, <<"a", "n">>, <<"a", "n", "a">>, <<"IAC", "SB", "a">>, <<"a", "0", "IAC">>}

Input == INSTANCE TelnetInput WITH SbMax <- 2, InputMax <- 5,
        Packets <- InputPackets, MaxPackets <- 4
inputVars == <<packets, stream, st, sb, line, handled, zmp>>
InputIdle ==
    /\ packets = "-" /\ stream = "-" /\ st = "-" /\ sb = "-" /\ line = "-"
    /\ handled = "-" /\ zmp = "-"

Output == INSTANCE TelnetOutput WITH Width <- 8, Margin <- {0, 2},
        ChunkSize <- 4, MaxText <- 6
outputVars == <<text, out, chunk, cur_col, margin, need_prompt, need_newline,
                soft_break, divided>>
OutputIdle ==
    /\ text = "-" /\ out = "-" /\ chunk = "-" /\ cur_col = "-" /\ margin = "-"
    /\ need_prompt = "-" /\ need_newline = "-" /\ soft_break = "-"
    /\ divided = "-"

(* Where the main loop and the PID file are not followed they stay as they *)
(* begin, with the managers in one order.                                  *)
ServerManagers == DOMAIN Requires
MainIdle == MainInit /\ pending = <<"Zone", "NpcBP", "ObjectBP", "Event", "Entity">>

AccIdle == Init /\ file = [a \in Ids |-> NoFile]

Obj == INSTANCE FileObj WITH Texts <- ObjTexts, MaxNodes <- 3,
        file <- objectsFile, reading <- objectsReading, pos <- objectsPos,
        nodes <- objectsNodes
objectsVars == <<objectsFile, indent, written, objectsReading, objectsPos,
                 objectsNodes>>
ObjIdle ==
    /\ objectsFile = "-" /\ indent = "-" /\ written = "-"
    /\ objectsReading = "-" /\ objectsPos = "-" /\ objectsNodes = "-"

PerIdle == PersistInit /\ thing = <<Bare("Room")>>

Set == INSTANCE Settings WITH Table <- Known4,
        Words <- {"-l", "-C", "-d", "-P", "yes", "7x"}, Lines <- ConfLines,
        IntOf <- ToInt, BoolOf <- ToBool, None <- "none", MaxWords <- 4,
        MaxLines <- 2, ConfigFile <- 2, LogFile <- 1
settingsVars == <<step, argv, lines, given, content, value, log>>
SetIdle ==
    /\ step = "-" /\ argv = "-" /\ lines = "-" /\ given = "-" /\ content = "-"
    /\ value = "-" /\ log = "-"

Deny == INSTANCE DenyList WITH Bytes <- 2, Bits <- 2, Masks <- -1 .. 5,
        MaxLines <- 2, file <- denyFile
denyVars == <<denyFile, denylist>>
DenyIdle ==
    /\ denyFile = "-" /\ denylist = "-"

TimeIdle == ClockInit /\ months = <<Month(0, 0), Month(3, 0)>> /\ region = << <<>> >>

Cal == INSTANCE Calendar WITH Tables <- CalendarFiles, Counts <- [n |-> 4],
        file <- calendarFile, pos <- calendarPos
calendarVars == <<table, calendarFile, calendarPos, state, cword, cent,
                  entries, calendar>>
CalIdle ==
    /\ table = "-" /\ calendarFile = "-" /\ calendarPos = "-" /\ state = "-"
    /\ cword = "-" /\ cent = "-" /\ entries = "-" /\ calendar = "-"

allVars == <<which, inputVars, outputVars, mainVars, pidVars, vars,
             objectsVars, persistVars, settingsVars, denyVars, clockVars,
             calendarVars, blueprintsVars>>

ServerInit ==
    /\ which \in {"input", "output", "main", "pid", "accounts", "objects",
               "persist", "settings", "deny", "clock", "calendar", "blueprints"}
    /\ IF which = "input" THEN Input!Init ELSE InputIdle
    /\ IF which = "output" THEN Output!Init ELSE OutputIdle
    /\ IF which = "main" THEN MainInit ELSE MainIdle
    /\ PidInit
    /\ IF which = "accounts" THEN Init ELSE AccIdle
    /\ IF which = "objects" THEN Obj!Init ELSE ObjIdle
    /\ IF which = "persist" THEN PersistInit ELSE PerIdle
    /\ IF which = "settings" THEN Set!Init ELSE SetIdle
    /\ IF which = "deny" THEN Deny!Init ELSE DenyIdle
    /\ IF which = "clock" THEN ClockInit ELSE TimeIdle
    /\ IF which = "calendar" THEN Cal!Init ELSE CalIdle
    /\ BlueprintsInit

ServerNext ==
    /\ UNCHANGED which
    /\ IF which = "input" THEN Input!Next ELSE UNCHANGED inputVars
    /\ IF which = "output" THEN Output!Next ELSE UNCHANGED outputVars
    /\ IF which = "main" THEN MainNext ELSE UNCHANGED mainVars
    /\ IF which = "pid" THEN PidNext ELSE UNCHANGED pidVars
    /\ IF which = "accounts" THEN Next ELSE UNCHANGED vars
    /\ IF which = "objects" THEN Obj!Next ELSE UNCHANGED objectsVars
    /\ IF which = "persist" THEN PersistNext ELSE UNCHANGED persistVars
    /\ IF which = "settings" THEN Set!Next ELSE UNCHANGED settingsVars
    /\ IF which = "deny" THEN Deny!Next ELSE UNCHANGED denyVars
    /\ IF which = "clock" THEN ClockNext ELSE UNCHANGED clockVars
    /\ IF which = "calendar" THEN Cal!Next ELSE UNCHANGED calendarVars
    /\ IF which = "blueprints" THEN BlueprintsNext ELSE UNCHANGED blueprintsVars

ServerSpec == ServerInit /\ [][ServerNext]_allVars

(* TelnetInput: the lines handled are the lines of the text, however the   *)
(* stream is cut.                                                          *)
LinesExact ==
    which = "input" => Input!LinesExact
(* TelnetOutput: cur_col is the column of the client, lines stay on the    *)
(* screen, and no word is lost or broken.                                  *)
WrapRight ==
    which = "output" => Output!WrapRight /\ Output!WordsWhole
(* FileObj: what is written is read.                                       *)
RoundTrip ==
    which = "objects" => Obj!RoundTrip
(* Settings: a setting is what the last word on it says, and a server that *)
(* does not run has a reason.                                              *)
SettingsRight ==
    which = "settings" => Set!SettingsRight
(* DenyList: who is denied is who a line of the file names.                *)
DeniedRight ==
    which = "deny" => Deny!DeniedRight
(* Calendar: months and weekdays are those of the file, and it is refused  *)
(* where it has none, or a line that is no entry, and only there.          *)
CalendarRight ==
    which = "calendar" => Cal!CalendarRight
=============================================================================
