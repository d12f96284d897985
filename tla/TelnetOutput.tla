---------------------------- MODULE TelnetOutput ----------------------------
(***************************************************************************)
(* What becomes of the text the game writes to a telnet client: streamPut, *)
(* the chunk buffer that keeps words whole, word wrap, indentation and the *)
(* prompt of src/net/telnet.cc.                                            *)
(*                                                                         *)
(* The handler never sees the client's screen: cur_col is its own idea of  *)
(* the column, and everything about wrapping rests on it.                  *)
(***************************************************************************)
EXTENDS Naturals, Sequences, SequencesExt

CONSTANTS Width,      \* the client's columns, more than two
          Margin,     \* the indentations the game asks for
          ChunkSize,  \* TELNET_CHUNK_BUFFER_SIZE
          MaxText     \* bound: characters and control codes written

VARIABLES text,         \* history: what was written, "c" " " or newline
          out,          \* history: what the client has received
          chunk,        \* the characters of the word under construction
          cur_col,      \* TelnetHandler::cur_col
          margin,       \* TelnetHandler::margin
          need_prompt, need_newline, soft_break,  \* io_flags
          divided       \* a tab at column 0 has divided by zero

vars == <<text, out, chunk, cur_col, margin, need_prompt, need_newline, soft_break, divided>>

-----------------------------------------------------------------------------
(* The part of the handler that the output functions pass along.           *)
Now == [out |-> out, chunk |-> chunk, cur_col |-> cur_col, soft_break |-> soft_break]

Blanks(n) == [i \in 1..n |-> " "]

(* OUTPUT_INDENT, for a margin of m columns.                               *)
Indent(s, m) ==
    IF s.cur_col < m
    THEN [s EXCEPT !.out = @ \o Blanks(m - s.cur_col), !.cur_col = m]
    ELSE s

NewLine(s) == [s EXCEPT !.out = Append(@, "n"), !.cur_col = 0]

(* Faulty: the column is not counted on when a chunk is written.           *)
MutEndChunkColumn(s, m) ==
    LET wrap == IF Len(s.chunk) + s.cur_col >= Width - 2 THEN Indent(NewLine(s), m) ELSE s
    IN [wrap EXCEPT !.out = @ \o wrap.chunk, !.chunk = <<>>, !.soft_break = FALSE]

(* endChunk: the word goes to a new line if it does not fit on this one.   *)
EndChunk(s, m) ==
    LET wrap == IF Len(s.chunk) + s.cur_col >= Width - 2 THEN Indent(NewLine(s), m) ELSE s
    IN [wrap EXCEPT !.out = @ \o wrap.chunk, !.cur_col = @ + Len(wrap.chunk),
                    !.chunk = <<>>, !.soft_break = FALSE]

(* addToChunk of one character: a full chunk is written at once.           *)
AddToChunk(s, m) ==
    LET t == [Indent(s, m) EXCEPT !.chunk = Append(@, "c")]
    IN IF Len(t.chunk) = ChunkSize THEN EndChunk(t, m) ELSE t

(* streamPut's cases of a space and of a newline.  endChunk has cleared    *)
(* soft_break by the time it is looked at.                                 *)
PutSpace(s, m) ==
    LET e == EndChunk(s, m)
    IN IF e.soft_break THEN e
       ELSE IF e.cur_col + 1 >= Width - 2
            THEN [NewLine(e) EXCEPT !.soft_break = TRUE]
            ELSE LET i == Indent(e, m)
                 IN [i EXCEPT !.out = Append(@, " "), !.cur_col = @ + 1]

PutNewline(s, m) ==
    LET e == EndChunk(s, m)
    IN [(IF e.soft_break THEN e ELSE NewLine(e)) EXCEPT !.soft_break = FALSE]

(* The newline owed after a prompt.                                        *)
Owed == IF need_newline THEN [NewLine(Now) EXCEPT !.soft_break = FALSE] ELSE Now

Becomes(s) ==
    /\ out' = s.out /\ chunk' = s.chunk /\ cur_col' = s.cur_col /\ soft_break' = s.soft_break

-----------------------------------------------------------------------------
Init ==
    /\ text = <<>> /\ out = <<>> /\ chunk = <<>> /\ cur_col = 0 /\ margin = 0
    /\ need_prompt = FALSE /\ need_newline = FALSE /\ soft_break = FALSE
    /\ divided = FALSE

(* streamPut of one character.                                             *)
StreamPut(c) ==
    /\ Len(text) < MaxText /\ ~divided
    /\ text' = Append(text, c)
    /\ Becomes(CASE c = "c" -> AddToChunk(Owed, margin)
                 [] c = " " -> PutSpace(Owed, margin)
                 [] c = "n" -> PutNewline(Owed, margin))
    /\ need_newline' = FALSE /\ need_prompt' = TRUE
    /\ UNCHANGED <<margin, divided>>

(* streamPut of a tab: 4 % cur_col blanks, which at column 0 is a division *)
(* by zero and the end of the server, and at column 1, 2 or 4 no blank.    *)
StreamTab ==
    /\ Len(text) < MaxText /\ ~divided
    /\ LET s == Indent(EndChunk(Owed, margin), margin)
       IN \/ /\ s.cur_col = 0
             /\ divided' = TRUE
             /\ UNCHANGED <<text, out, chunk, cur_col, soft_break, need_newline, need_prompt>>
          \/ /\ s.cur_col > 0
             /\ Becomes([s EXCEPT !.out = @ \o Blanks(4 % s.cur_col),
                                  !.cur_col = @ + (4 % s.cur_col)])
             /\ text' = Append(text, "tab")
             /\ need_newline' = FALSE /\ need_prompt' = TRUE
             /\ UNCHANGED divided
    /\ UNCHANGED margin

(* streamPut of a colour or an ANSI code: the word so far is written, the  *)
(* code itself takes no column.                                            *)
StreamCode ==
    /\ Len(text) < MaxText /\ ~divided
    /\ text' = Append(text, "code")
    /\ Becomes(Indent(EndChunk(Owed, margin), margin))
    /\ need_newline' = FALSE /\ need_prompt' = TRUE
    /\ UNCHANGED <<margin, divided>>

(* setIndent, by the code that StreamIndent writes.                        *)
SetIndent(m) ==
    /\ Len(text) < MaxText /\ ~divided /\ m # margin
    /\ text' = Append(text, "code")
    /\ Becomes(EndChunk(Indent(EndChunk(Owed, margin), margin), margin))
    /\ margin' = m
    /\ need_newline' = FALSE /\ need_prompt' = TRUE
    /\ UNCHANGED divided

(* sockFlush: the chunk and, when something was written, the prompt ">".   *)
SockFlush ==
    /\ need_prompt /\ ~divided
    /\ LET p == EndChunk(AddToChunk(EndChunk(Owed, margin), margin), margin)
       IN /\ out' = Append(p.out, " ") /\ chunk' = <<>> /\ cur_col' = 0
          /\ soft_break' = p.soft_break
    /\ text' = Append(text, "prompt")
    /\ need_prompt' = FALSE /\ need_newline' = TRUE
    /\ UNCHANGED <<margin, divided>>

(* The client types a line: its own echo ends the prompt's line.           *)
Typed ==
    /\ need_newline /\ Len(text) < MaxText /\ ~divided
    /\ out' = Append(out, "n")
    /\ need_newline' = FALSE /\ need_prompt' = TRUE
    /\ UNCHANGED <<text, chunk, cur_col, margin, soft_break, divided>>

Next ==
    \/ \E c \in {"c", " ", "n"} : StreamPut(c)
    \/ StreamTab
    \/ StreamCode
    \/ \E m \in Margin : SetIndent(m)
    \/ SockFlush
    \/ Typed

Spec == Init /\ [][Next]_vars

-----------------------------------------------------------------------------
(* What is behind the last newline of a sequence of characters.            *)
LastLine(s) ==
    LET ns == {i \in DOMAIN s : s[i] = "n"}
        from == IF ns = {} THEN 1 ELSE 1 + CHOOSE i \in ns : \A j \in ns : j <= i
    IN SubSeq(s, from, Len(s))

(* The handler's column is the client's, whenever no newline is owed: over *)
(* wraps, indentation, prompts and typed lines (telnet.cc cur_col).        *)
ColumnKnown == ~need_newline => cur_col = Len(LastLine(out))

(* A line on the screen never reaches the last two columns, unless it is   *)
(* one chunk behind the margin that does not fit on any line, or has a tab,*)
(* before which nothing is measured.                                       *)
LineFits ==
    LET l == LastLine(out)
    IN \/ Len(l) < Width - 2
       \/ \E i \in DOMAIN text : text[i] = "tab"
       \/ need_newline /\ Len(l) <= Width - 2
       \/ \E i \in 0..Len(l) : /\ \A j \in 1..i : l[j] = " "
                               /\ \A j \in (i + 1)..Len(l) : l[j] # " " \/ j = Len(l)

(* Wrapping is right: the column is known and the lines fit.               *)
WrapRight == ColumnKnown /\ LineFits

(* The lengths of the words of a sequence of characters, the last of which *)
(* is not over yet.                                                        *)
WordLengths(s) ==
    FoldLeft(LAMBDA ws, c : IF c = "c" THEN [ws EXCEPT ![Len(ws)] = @ + 1]
                            ELSE IF Last(ws) = 0 THEN ws ELSE Append(ws, 0),
             <<0>>, s)

(* Nothing written is lost and no word shorter than a chunk is broken:     *)
(* what the client received and what is still in the chunk has the words   *)
(* of the text, in order, as long as no code, tab or prompt cuts in.       *)
WordsWhole ==
    ((\A i \in DOMAIN text : text[i] \in {"c", " ", "n"})
       /\ (\A i \in DOMAIN WordLengths(text) : WordLengths(text)[i] < ChunkSize))
    => WordLengths(out \o chunk) = WordLengths(text)
=============================================================================
