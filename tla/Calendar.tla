------------------------------ MODULE Calendar ------------------------------
(***************************************************************************)
(* Tables in text files and the calendar read from one: File::TabReader    *)
(* (src/mud/filetab.cc) takes the file apart character by character, in    *)
(* four states; GameCalendar::load (src/mud/calendar.cc) makes months,     *)
(* weekdays and the texts of the day of its entries.  A letter stands for  *)
(* a word; "blank", "tab", "eol", "quote" and "hash" for these characters. *)
(***************************************************************************)
EXTENDS Integers, Sequences, SequencesExt

CONSTANTS Tables,    \* what people write: lines of columns, each a sequence
                     \* of letters and blanks
          Counts     \* the letters that are numbers -> the number

VARIABLES table,               \* what was meant
          file, pos,           \* its text; where the reader is in it
          state, cword, cent,  \* the reader: state, word, line so far
          entries,             \* the lines read
          calendar             \* what load makes of them, or None

vars == <<table, file, pos, state, cword, cent, entries, calendar>>

None == [failed |-> FALSE]
Failed == [failed |-> TRUE]

\* How a table is written: columns with a blank quoted, a comment or a
\* blank after each line; the last line may have no end.
Column(c) == IF "blank" \in ToSet(c) \/ c = <<>> THEN <<"quote">> \o c \o <<"quote">> ELSE c
Line(l) == FlattenSeq([i \in DOMAIN l |-> Column(l[i]) \o (IF i < Len(l) THEN <<"blank">> ELSE <<>>)])
Text(t, comment) == FlattenSeq([i \in DOMAIN t |-> Line(t[i]) \o comment \o <<"eol">>])

Init ==
    /\ table \in Tables
    /\ \E comment \in {<<>>, <<"blank">>, <<"hash", "quote", "d">>, <<"tab", "blank", "hash">>}, cut \in BOOLEAN :
          file = IF cut /\ table # <<>> THEN Front(Text(table, comment)) ELSE Text(table, comment)
    /\ pos = 1 /\ state = "WS" /\ cword = <<>> /\ cent = <<>> /\ entries = <<>> /\ calendar = None

-----------------------------------------------------------------------------
(* One turn of the loop of TabReader::load for the character c.            *)
Space == {"blank", "eol"}
EndLine(line) == /\ entries' = (IF line = <<>> THEN entries ELSE Append(entries, line))
                 /\ cent' = <<>> /\ cword' = <<>> /\ state' = "WS"

InSpace(c) ==
    \/ c = "eol" /\ EndLine(cent)
    \/ /\ c # "eol"
       /\ state' = (CASE c = "quote" -> "QUOTE" [] c = "hash" -> "COMMENT" [] c = "blank" -> "WS" [] OTHER -> "WORD")
       /\ cword' = (IF state' = "WORD" THEN <<c>> ELSE cword)
       /\ UNCHANGED <<cent, entries>>

(* Faulty: a comment right after a word swallows the word.                 *)
MutWordDone(c) == c \in Space

(* Whether c ends a word.                                                  *)
WordDone(c) == c \in Space \cup {"hash"}

InWord(c) ==
    LET line == IF WordDone(c) THEN Append(cent, cword) ELSE cent
    IN  \/ c = "eol" /\ EndLine(line)
        \/ /\ c # "eol"
           /\ state' = (CASE c = "hash" -> "COMMENT" [] c = "quote" -> "QUOTE" [] c = "blank" -> "WS" [] OTHER -> "WORD")
           /\ cword' = (IF WordDone(c) THEN <<>> ELSE IF state' = "WORD" THEN Append(cword, c) ELSE cword)
           /\ cent' = line
           /\ UNCHANGED entries

InQuote(c) ==
    \/ c = "eol" /\ EndLine(Append(cent, cword))
    \/ /\ c # "eol"
       /\ IF c = "quote" THEN state' = "WORD" /\ UNCHANGED cword ELSE cword' = Append(cword, c) /\ UNCHANGED state
       /\ UNCHANGED <<cent, entries>>

InComment(c) ==
    \/ c = "eol" /\ EndLine(cent)
    \/ c # "eol" /\ UNCHANGED <<state, cword, cent, entries>>

(* Characters that are not printed, tabs among them, are passed over.      *)
Get ==
    /\ pos <= Len(file) /\ pos' = pos + 1
    /\ LET c == file[pos]
       IN  IF c = "tab" THEN UNCHANGED <<state, cword, cent, entries>>
           ELSE CASE state = "WS" -> InSpace(c)
                  [] state = "WORD" -> InWord(c)
                  [] state = "QUOTE" -> InQuote(c)
                  [] state = "COMMENT" -> InComment(c)
    /\ UNCHANGED <<table, file, calendar>>

(* The end of the file; a line that ends in a blank there is lost.         *)
Unterminated ==
    LET line == IF state \in {"WORD", "QUOTE"} THEN Append(cent, cword) ELSE cent
    IN  IF state = "WS" \/ line = <<>> THEN entries ELSE Append(entries, line)

-----------------------------------------------------------------------------
Field(e, i) == IF i \in DOMAIN e THEN e[i] ELSE <<>>
Number(w) == IF Len(w) = 1 /\ w[1] \in DOMAIN Counts THEN Counts[w[1]] ELSE 0
Times == { <<"day">>, <<"night">>, <<"sunrise">>, <<"sunset">> }

(* GameCalendar::load: what one entry adds.  The text of the day it keeps  *)
(* is the name of the time (column 1), not the text (column 2).            *)
Empty == [failed |-> FALSE, months |-> <<>>, weekdays |-> <<>>, texts |-> [t \in Times |-> <<>>]]
AddEntry(cal, e) ==
    CASE cal.failed -> cal
      [] Field(e, 1) = <<"daytime">> ->
            IF Field(e, 3) = <<>> \/ Field(e, 2) \notin Times THEN Failed
            ELSE [cal EXCEPT !.texts[Field(e, 2)] = Append(@, Field(e, 2))]
      [] Field(e, 1) = <<"weekday">> ->
            IF Field(e, 2) = <<>> THEN Failed ELSE [cal EXCEPT !.weekdays = Append(@, Field(e, 2))]
      [] Field(e, 1) = <<"month">> ->
            IF Field(e, 2) = <<>> THEN Failed
            ELSE [cal EXCEPT !.months = Append(@, [name |-> Field(e, 2), days |-> Number(Field(e, 3)),
                                                   leap |-> Number(Field(e, 4))])]
      [] OTHER -> Failed
Loaded(es) ==
    LET cal == FoldLeft(AddEntry, Empty, es)
    IN  IF cal.failed THEN cal ELSE IF cal.months = <<>> \/ cal.weekdays = <<>> THEN Failed ELSE cal

Load ==
    /\ pos = Len(file) + 1 /\ pos' = pos + 1
    /\ entries' = Unterminated
    /\ calendar' = Loaded(entries')
    /\ UNCHANGED <<table, file, state, cword, cent>>

Next == Get \/ Load

-----------------------------------------------------------------------------
(* The lines of the table that count: one that ends in a blank where the   *)
(* file ends does not.                                                     *)
Lines == SelectSeq(IF file # <<>> /\ Last(file) = "blank" THEN Front(table) ELSE table, LAMBDA e : e # <<>>)
Meant(type) == SelectSeq(Lines, LAMBDA e : e[1] = <<type>>)
(* What makes an entry one.                                                *)
Complete(e) ==
    \/ e[1] \in {<<"month">>, <<"weekday">>} /\ Field(e, 2) # <<>>
    \/ e[1] = <<"daytime">> /\ Field(e, 2) \in Times /\ Field(e, 3) # <<>>

(* The entries are the lines of the table, whatever is quoted or followed  *)
(* by a comment, but for a last line that ends in a blank; the table is    *)
(* refused where it lacks months or weekdays or holds a line that is no    *)
(* entry, and only there; and the months and weekdays are its own, in its  *)
(* order (filetab.cc:28-118, calendar.cc:30-103): a date is an index into  *)
(* these lists.                                                            *)
CalendarRight ==
    pos = Len(file) + 2 =>
        /\ entries = Lines
        /\ calendar.failed <=> \/ Meant("month") = <<>> \/ Meant("weekday") = <<>>
                               \/ \E i \in DOMAIN Lines : ~Complete(Lines[i])
        /\ ~calendar.failed =>
              /\ [i \in DOMAIN calendar.months |-> calendar.months[i].name]
                    = [i \in DOMAIN Meant("month") |-> Meant("month")[i][2]]
              /\ \A i \in DOMAIN calendar.months :
                    calendar.months[i].days = Number(Field(Meant("month")[i], 3))
              /\ calendar.weekdays = [i \in DOMAIN Meant("weekday") |-> Meant("weekday")[i][2]]
=============================================================================
