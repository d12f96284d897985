------------------------------ MODULE Settings ------------------------------
(***************************************************************************)
(* The settings (src/mud/settings.cc) and the log (src/common/log.cc): the *)
(* defaults, the words of the command line, the lines of the settings file *)
(* it may name, the opening of the log, and its opening anew after a       *)
(* hangup, when the file may have been moved away.                         *)
(***************************************************************************)
EXTENDS Integers, Sequences, SequencesExt

CONSTANTS Table,     \* settings[]: a sequence of [name, option, file, kind, def];
                     \* option and file are None for a setting without
          Words,     \* words of a command line
          Lines,     \* lines of a file: [key, gap, value], gap blanks before "="
          IntOf(_),  \* what strtol makes of a word
          BoolOf(_), \* what the word stands for, or None
          None,
          MaxWords, MaxLines,
          ConfigFile, LogFile   \* the indices of these settings

VARIABLES step,      \* where main is: "argv", or "faulty" once a word was wrong, ...
          argv, lines,  \* what is left to read of them
          given,     \* the command line, whole
          content,   \* the settings file, whole, once it is read
          value,     \* the settings
          log        \* where messages go: stderr, the file with the log's name,
                     \* or a file that had that name

vars == <<step, argv, lines, given, content, value, log>>

Rows == DOMAIN Table

Files == UNION {[1 .. n -> Lines] : n \in 0 .. MaxLines}

(* initialize; the command line is whatever it is.                         *)
Init ==
    /\ step = "argv"
    /\ given \in UNION {[1 .. n -> Words] : n \in 0 .. MaxWords} /\ argv = given
    /\ content = <<>> /\ lines = <<>>
    /\ value = [i \in Rows |-> Table[i].def]
    /\ log = "stderr"

Convert(i, w, old) ==
    CASE Table[i].kind = "string" -> w
      [] Table[i].kind = "int" -> IntOf(w)
      [] OTHER -> IF BoolOf(w) = None THEN old ELSE BoolOf(w)

(* parseArgv, one word.  The rows are tried to the last one: a word taken  *)
(* as an argument is compared with the rows that follow.  A boolean option *)
(* that is the last word reads on past the words, and crashes; others have *)
(* a test for that.  The state of the loop is the words left, the values,  *)
(* whether a row was found, the error.                                     *)
Row(s, i) ==
    IF s.err \in {"missing", "crash"} \/ Table[i].option = None \/ s.words[1] # Table[i].option THEN s
    ELSE IF Len(s.words) = 1 THEN [s EXCEPT !.err = IF Table[i].kind = "bool" THEN "crash" ELSE "missing"]
    ELSE [words |-> Tail(s.words), found |-> TRUE,
          value |-> [s.value EXCEPT ![i] = Convert(i, s.words[2], @)],
          err |-> IF Table[i].kind = "bool" /\ BoolOf(s.words[2]) = None THEN "value" ELSE s.err]

Scanned == FoldLeft(Row, [words |-> argv, value |-> value, found |-> FALSE, err |-> ""],
                    [i \in Rows |-> i])

ParseArgv ==
    /\ step \in {"argv", "faulty"} /\ argv # <<>>
    /\ value' = Scanned.value /\ argv' = Tail(Scanned.words)
    /\ step' = CASE Scanned.err = "crash" -> "crashed"
                 [] Scanned.err = "missing" -> "refused"
                 [] Scanned.err = "value" \/ ~Scanned.found -> "faulty"
                 [] OTHER -> step
    /\ UNCHANGED <<lines, given, content, log>>

(* main: it stops if a word was wrong, or reads the file that is set.      *)
ArgvDone ==
    /\ step \in {"argv", "faulty"} /\ argv = <<>>
    /\ step' = IF step = "faulty" THEN "refused" ELSE IF value[ConfigFile] = None THEN "log" ELSE "file"
    /\ IF step' = "file" THEN content' \in Files /\ lines' = content' ELSE UNCHANGED <<lines, content>>
    /\ UNCHANGED <<argv, given, value, log>>

(* loadFile, one line: a comment or a blank line has no value.  Of the     *)
(* blanks between the key and "=" one is trimmed.                          *)
Malformed(line) == line.key = None \/ line.value = None
Names(line, i) == ~Malformed(line) /\ line.gap <= 1 /\ Table[i].file # None /\ Table[i].file = line.key

(* Faulty: a word that is no truth value brings the default back.          *)
MutLoadLine ==
    /\ step = "file" /\ lines # <<>> /\ lines' = Tail(lines)
    /\ value' = [i \in Rows |->
                    IF ~Names(lines[1], i) THEN value[i]
                    ELSE Convert(i, lines[1].value, Table[i].def)]
    /\ UNCHANGED <<step, argv, given, content, log>>

LoadLine ==
    /\ step = "file" /\ lines # <<>> /\ lines' = Tail(lines)
    /\ value' = [i \in Rows |->
                    IF Names(lines[1], i) THEN Convert(i, lines[1].value, value[i]) ELSE value[i]]
    /\ UNCHANGED <<step, argv, given, content, log>>

(* The file ends, or could not be opened.                                  *)
LoadDone ==
    /\ step = "file"
    /\ \/ lines = <<>> /\ step' = "log"
       \/ lines = content /\ step' = "refused"
    /\ UNCHANGED <<argv, lines, given, content, value, log>>

-----------------------------------------------------------------------------
(* _MLog::initialize                                                       *)
OpenLog ==
    /\ step = "log"
    /\ \/ step' = "running" /\ log' = IF value[LogFile] = None THEN "stderr" ELSE "named"
       \/ step' = "refused" /\ value[LogFile] # None /\ UNCHANGED log
    /\ UNCHANGED <<argv, lines, given, content, value>>

(* Somebody moves the file away: messages go on into it.                   *)
Rotate ==
    /\ step = "running" /\ log = "named" /\ log' = "moved"
    /\ UNCHANGED <<step, argv, lines, given, content, value>>

(* _MLog::reset: the old file stays open if the new one cannot be opened.  *)
Reset(opens) ==
    /\ step = "running" /\ log # "stderr"
    /\ log' = IF opens THEN "named" ELSE log
    /\ UNCHANGED <<step, argv, lines, given, content, value>>

Next ==
    \/ ParseArgv \/ ArgvDone \/ LoadLine \/ LoadDone
    \/ OpenLog \/ Rotate \/ \E opens \in BOOLEAN : Reset(opens)

-----------------------------------------------------------------------------
(* What the command line and the file say of row i.                        *)
Good(i, w) == Table[i].kind = "bool" => BoolOf(w) # None
ByArgv(i) == {k \in DOMAIN given : k < Len(given) /\ given[k] = Table[i].option /\ Good(i, given[k + 1])}
ByFile(i) == {k \in DOMAIN content : Names(content[k], i) /\ Good(i, content[k].value)}

IsOption(w) == \E i \in Rows : Table[i].option # None /\ Table[i].option = w
(* Options with good arguments, and no word but these.                     *)
WellFormed ==
    \A k \in DOMAIN given :
        IF IsOption(given[k]) THEN \E i \in Rows : k \in ByArgv(i) ELSE k > 1 /\ IsOption(given[k - 1])
EndsInBool == given # <<>> /\ \E i \in Rows : Table[i].option = Last(given) /\ Table[i].kind = "bool"

(* If no option has an option as its argument: the server runs only after  *)
(* a command line of options with good arguments, and then with what the   *)
(* last line of the file that says something about a setting says, else    *)
(* with the last word of the command line, else with the default           *)
(* (settings.cc:84-98, 128-176, 178-278); after such a line it is refused  *)
(* only where a file is opened; and it crashes on a command line that ends *)
(* in a boolean option, whatever was wrong before, and on no other (157).  *)
SettingsRight ==
    (\A k \in 1 .. Len(given) - 1 : IsOption(given[k]) => ~IsOption(given[k + 1])) =>
        /\ step = "running" =>
              /\ WellFormed
              /\ \A i \in Rows :
                    LET file == value[ConfigFile] # None /\ ByFile(i) # {} IN
                    value[i] = IF file THEN Convert(i, content[Max(ByFile(i))].value, None)
                               ELSE IF ByArgv(i) # {} THEN Convert(i, given[Max(ByArgv(i)) + 1], None)
                               ELSE Table[i].def
        /\ step = "refused" /\ WellFormed => value[ConfigFile] # None \/ value[LogFile] # None
        /\ argv = <<>> => (step = "crashed" <=> EndsInBool)
=============================================================================
