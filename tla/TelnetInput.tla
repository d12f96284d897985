----------------------------- MODULE TelnetInput -----------------------------
(***************************************************************************)
(* What becomes of the bytes a telnet client sends: telnet_recv and        *)
(* _process of lib/libtelnet/libtelnet.c, the input line of                *)
(* TelnetHandler::telnetEvent and processInput (src/net/telnet.cc), and    *)
(* the ZMP commands of src/net/zmp.cc.                                     *)
(*                                                                         *)
(* The stream arrives in packets cut anywhere; the parser keeps its state  *)
(* and the line under construction between them.  A byte is one of a few   *)
(* kinds; a ZMP frame is a subnegotiation that holds a whole command line. *)
(***************************************************************************)
EXTENDS Naturals, Sequences, SequencesExt

CONSTANTS SbMax,      \* bytes the subnegotiation buffer can hold
          InputMax,   \* bytes the input line can hold
          Packets,    \* the packets the client may send, sequences of Bytes
          MaxPackets  \* bound: how many of them it sends


VARIABLES packets,  \* how many packets were read
          stream,   \* history: every byte received
          st,       \* telnet_t::state
          sb,       \* telnet_t::buffer, behind its sb_telopt
          line,     \* TelnetHandler::input
          handled,  \* history: the lines given to processCommand
          zmp       \* history: the lines given to it by zmp.input

vars == <<packets, stream, st, sb, line, handled, zmp>>

-----------------------------------------------------------------------------
(* One byte of text in telnetEvent: a printable byte or the newline is     *)
(* added to the line, after the line was thrown away if it is full; the    *)
(* erase character takes the last byte back; everything else is dropped.   *)
(* A newline sends the line to processCommand at once, so that the buffer  *)
(* holds no newline afterwards.                                            *)
DataByte(m, c) ==
    LET kept == IF Len(m.line) + 2 >= InputMax THEN <<>> ELSE m.line
    IN CASE c = "n" -> [m EXCEPT !.handled = Append(@, kept), !.line = <<>>]
         [] c = "a" -> [m EXCEPT !.line = Append(kept, c)]
         [] c = "d" -> [m EXCEPT !.line = IF @ = <<>> THEN @ ELSE Front(@)]
         [] OTHER   -> m

(* EV_DATA: the pending bytes of the packet are passed on.                 *)
EventData(m) == [FoldLeft(DataByte, m, m.data) EXCEPT !.data = <<>>]

(* EV_SUBNEGOTIATION of a ZMP frame: _subnegotiate and processZmp.  A      *)
(* frame of at least two bytes that starts printable and ends with NUL     *)
(* holds a command; zmp.input gives its argument to processCommand, past   *)
(* the input line.                                                         *)
ProcessZmp(m) ==
    LET frame == Tail(m.sb)
    IN IF Head(m.sb) = "a" /\ Len(frame) >= 2 /\ Head(frame) = "a" /\ Last(frame) = "0"
       THEN [m EXCEPT !.zmp = Append(@, Front(frame))]
       ELSE m

(* _buffer_byte, and what _process does when there is no room: the rest of *)
(* the subnegotiation becomes text.                                        *)
BufferByte(m, c) ==
    IF Len(m.sb) <= SbMax THEN [m EXCEPT !.sb = Append(@, c), !.st = "SB_DATA"]
                         ELSE [m EXCEPT !.st = "DATA"]

(* The IAC state.                                                          *)
IacByte(m, c) ==
    CASE c = "SB"   -> [m EXCEPT !.st = "SB"]
      [] c = "WILL" -> [m EXCEPT !.st = "WILL"]
      [] c = "IAC"  -> EventData([m EXCEPT !.data = <<c>>, !.st = "DATA"])
      [] OTHER      -> [m EXCEPT !.st = "DATA"]

(* _process for one byte.  In SB_DATA_IAC a byte that is neither SE nor    *)
(* IAC ends the subnegotiation and is then taken as a command.             *)
ProcessByte(m, c) ==
    CASE m.st = "DATA"        -> IF c = "IAC" THEN [EventData(m) EXCEPT !.st = "IAC"]
                                              ELSE [m EXCEPT !.data = Append(@, c)]
      [] m.st = "IAC"         -> IacByte(m, c)
      [] m.st = "WILL"        -> [m EXCEPT !.st = "DATA"]
      [] m.st = "SB"          -> [m EXCEPT !.sb = <<c>>, !.st = "SB_DATA"]
      [] m.st = "SB_DATA"     -> IF c = "IAC" THEN [m EXCEPT !.st = "SB_DATA_IAC"]
                                              ELSE BufferByte(m, c)
      [] m.st = "SB_DATA_IAC" -> CASE c = "SE"  -> ProcessZmp([m EXCEPT !.st = "DATA"])
                                   [] c = "IAC" -> BufferByte(m, c)
                                   [] OTHER     -> IacByte(ProcessZmp(m), c)

(* Faulty: text at the end of a packet waits for the next command.         *)
MutProcessHolds(m, packet) ==
    LET e == FoldLeft(ProcessByte, m, packet)
    IN IF e.st = "DATA" /\ Last(packet) = "n" THEN EventData(e) ELSE [e EXCEPT !.data = <<>>]

(* _process of a packet: text left over at its end is passed on.           *)
Process(m, packet) ==
    LET e == FoldLeft(ProcessByte, m, packet)
    IN IF e.st = "DATA" THEN EventData(e) ELSE e

-----------------------------------------------------------------------------
State == [st |-> st, sb |-> sb, line |-> line, handled |-> handled, zmp |-> zmp, data |-> <<>>]

Init ==
    /\ packets = 0 /\ stream = <<>> /\ st = "DATA" /\ sb = <<>> /\ line = <<>>
    /\ handled = <<>> /\ zmp = <<>>

(* sockInput: the handler reads one packet.                                *)
SockInput(packet) ==
    /\ packets < MaxPackets /\ packets' = packets + 1
    /\ stream' = stream \o packet
    /\ LET m == Process(State, packet)
       IN /\ st' = m.st /\ sb' = m.sb /\ line' = m.line
          /\ handled' = m.handled /\ zmp' = m.zmp

Next == \E p \in Packets : SockInput(p)
Spec == Init /\ [][Next]_vars

-----------------------------------------------------------------------------
(* The reference: the text a stream carries by the grammar of telnet, as a *)
(* whole.  Text is every byte outside commands, with IAC IAC for IAC; a    *)
(* subnegotiation ends at the first IAC that is not doubled, or where its  *)
(* buffer overflows.                                                       *)
RECURSIVE Text(_)
RECURSIVE AfterSb(_, _)
AfterCommand(s) ==    \* s starts behind an IAC
    CASE s = <<>>         -> <<>>
      [] Head(s) = "WILL" -> IF Len(s) < 2 THEN <<>> ELSE Text(SubSeq(s, 3, Len(s)))
      [] Head(s) = "SB"   -> IF Len(s) < 2 THEN <<>> ELSE AfterSb(SubSeq(s, 3, Len(s)), 0)
      [] Head(s) = "IAC"  -> <<"IAC">> \o Text(Tail(s))
      [] OTHER            -> Text(Tail(s))
AfterSb(s, n) ==      \* n bytes of the subnegotiation are in the buffer
    CASE s = <<>> -> <<>>
      [] Head(s) # "IAC" -> IF n < SbMax THEN AfterSb(Tail(s), n + 1) ELSE Text(Tail(s))
      [] Head(s) = "IAC" /\ Len(s) = 1 -> <<>>
      [] Head(s) = "IAC" /\ Len(s) > 1 ->
           CASE s[2] = "IAC" -> IF n < SbMax THEN AfterSb(SubSeq(s, 3, Len(s)), n + 1)
                                             ELSE Text(SubSeq(s, 3, Len(s)))
             [] s[2] = "SE"  -> Text(SubSeq(s, 3, Len(s)))
             [] OTHER        -> AfterCommand(Tail(s))
Text(s) ==
    CASE s = <<>>        -> <<>>
      [] Head(s) = "IAC" -> AfterCommand(Tail(s))
      [] OTHER           -> <<Head(s)>> \o Text(Tail(s))

(* The complete lines of a text and the rest of it, erasures applied, and  *)
(* whether the line under construction always had room.                    *)
RECURSIVE LinesOf(_, _, _, _)
LinesOf(t, done, cur, fits) ==
    CASE t = <<>>       -> [lines |-> done, rest |-> cur, fits |-> fits]
      [] t # <<>> /\ Head(t) = "n" ->
           LinesOf(Tail(t), Append(done, cur), <<>>, fits /\ Len(cur) + 2 < InputMax)
      [] t # <<>> /\ Head(t) = "a" ->
           LinesOf(Tail(t), done, Append(cur, "a"), fits /\ Len(cur) + 2 < InputMax)
      [] t # <<>> /\ Head(t) \notin {"a", "n"} ->
           LinesOf(Tail(t), done, IF Head(t) = "d" /\ cur # <<>> THEN Front(cur) ELSE cur, fits)

(* However the stream is cut into packets, and whatever commands are mixed *)
(* into it, the lines that reach processCommand are the lines of its text, *)
(* each once and in order (telnet.cc telnetEvent, processInput), as long   *)
(* as no line outgrows the buffer.                                         *)
LinesExact ==
    LET l == LinesOf(Text(stream), <<>>, <<>>, TRUE)
    IN l.fits => handled = l.lines /\ line = l.rest
=============================================================================
