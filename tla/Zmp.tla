-------------------------------- MODULE Zmp --------------------------------
(***************************************************************************)
(* The out-of-band protocol of src/net/zmp.cc: packets of strings that the *)
(* client sends in a telnet subnegotiation, their parsing, the commands    *)
(* the server has, what it answers, and the colours it defines for a       *)
(* client that says it can.  A string is a sequence of pieces: words and   *)
(* dots.                                                                   *)
(***************************************************************************)
EXTENDS Integers, Sequences, SequencesExt

CONSTANTS Packets,   \* what clients send: sequences of pieces and NULs
          Control,   \* the pieces that do not begin with a printable character
          MaxArgs,   \* argv_size
          Colors     \* NUM_CTYPES - 1

VARIABLES zmp,       \* io_flags.zmp
          color,     \* io_flags.zmp_color
          packet,    \* what the client sent last
          argv,      \* what the handler was given of it, <<>> if none was
          sent,      \* what the server sent in return
          typed      \* what it was told to take as typed

vars == <<zmp, color, packet, argv, sent, typed>>

NUL == "NUL"
Dot == "."
Ping == <<"zmp", Dot, "ping">>
Check == <<"zmp", Dot, "check">>
Support == <<"zmp", Dot, "support">>
Input == <<"zmp", Dot, "input">>
ColorDefine == <<"color", Dot, "define">>

(* SZMPManager::initialize.  None of the names ends in a dot: none is wild.*)
Commands == <<Ping, Check, Support, Input>>

Init ==
    /\ zmp = FALSE /\ color = FALSE /\ packet = <<>> /\ argv = <<>> /\ sent = <<>> /\ typed = <<>>

(* lookup and match.                                                       *)
Lookup(name) == \E i \in DOMAIN Commands : Commands[i] = name

Match(pattern) ==
    /\ pattern # <<>>
    /\ IF pattern[Len(pattern)] = Dot
       THEN \E i \in DOMAIN Commands : IsPrefix(pattern, Commands[i])
       ELSE \E i \in DOMAIN Commands : Commands[i] = pattern

(* checkZmpChunk                                                           *)
CheckZmpChunk(data) == Len(data) >= 2 /\ data[1] \notin Control \cup {NUL} /\ data[Len(data)] = NUL

(* std::string(data + from - 1): up to the next NUL.                       *)
NextNul(data, from) == CHOOSE i \in from .. Len(data) :
                          data[i] = NUL /\ \A j \in from .. i - 1 : data[j] # NUL
StringAt(data, from) == SubSeq(data, from, NextNul(data, from) - 1)

(* Faulty: one argument more than there is room for.                       *)
RECURSIVE MutParse(_, _, _)
MutParse(data, from, args) ==
    IF Len(args) > MaxArgs \/ NextNul(data, from) = Len(data) THEN args
    ELSE LET next == NextNul(data, from) + 1
         IN  MutParse(data, next, Append(args, StringAt(data, next)))

(* The loop of processZmp.                                                 *)
RECURSIVE Parse(_, _, _)
Parse(data, from, args) ==
    IF Len(args) >= MaxArgs \/ NextNul(data, from) = Len(data) THEN args
    ELSE LET next == NextNul(data, from) + 1
         IN  Parse(data, next, Append(args, StringAt(data, next)))

(* The client agrees to ZMP: the server names itself and asks.             *)
Enable ==
    /\ zmp' = TRUE /\ packet' = <<>> /\ argv' = <<>>
    /\ sent' = <<<< <<"zmp", Dot, "ident">> >>, <<Check, <<"net.sourcemud", Dot>> >>, <<Check, ColorDefine>> >>
    /\ UNCHANGED <<color, typed>>

(* zmpSupport, of color.define: every colour is defined, each time.        *)
ZmpSupport(pkg) ==
    IF pkg # ColorDefine THEN UNCHANGED <<color, sent>>
    ELSE color' = TRUE /\ sent' = [i \in 1 .. Colors |-> <<ColorDefine, <<i>> >>]

(* The handlers, of what they are given.                                   *)
Handle(args) ==
    \/ /\ args[1] = Ping
       /\ sent' = << << <<"zmp", Dot, "time">> >> >>
       /\ UNCHANGED <<color, typed>>
    \/ /\ args[1] = Check /\ Len(args) = 2
       /\ sent' = << <<IF Match(args[2]) THEN Support ELSE <<"zmp", Dot, "no-support">>, args[2]>> >>
       /\ UNCHANGED <<color, typed>>
    \/ args[1] = Support /\ Len(args) = 2 /\ ZmpSupport(args[2]) /\ UNCHANGED typed
    \/ args[1] = Input /\ Len(args) = 2 /\ typed' = args[2] /\ UNCHANGED <<color, sent>>
    \/ args[1] # Ping /\ Len(args) # 2 /\ UNCHANGED <<color, sent, typed>>

(* processZmp                                                              *)
ProcessZmp(data) ==
    /\ zmp /\ packet' = data
    /\ IF CheckZmpChunk(data) /\ Lookup(StringAt(data, 1))
       THEN argv' = Parse(data, 1, <<StringAt(data, 1)>>) /\ Handle(argv')
       ELSE argv' = <<>> /\ UNCHANGED <<color, sent, typed>>
    /\ UNCHANGED zmp

Next ==
    \/ Enable
    \/ \E data \in Packets : ProcessZmp(data)

-----------------------------------------------------------------------------
(* The k-th string of a packet is what is between its NULs k - 1 and k.    *)
Nuls(data) == {i \in DOMAIN data : data[i] = NUL}
Kth(data, k) == CHOOSE i \in Nuls(data) : Cardinality({j \in Nuls(data) : j <= i}) = k
String(data, k) == SubSeq(data, IF k = 1 THEN 1 ELSE Kth(data, k - 1) + 1, Kth(data, k) - 1)
Strings(data) == Cardinality(Nuls(data))

(* A handler is given the strings of the packet, empty ones too, no more   *)
(* of them than there is room for, whatever the packet (zmp.cc:194-236);   *)
(* and what it then says about a command is what it would do with it: a    *)
(* check is answered yes if and only if there is such a command, or one in *)
(* such a package (166-191, 323-339).                                      *)
ZmpRight ==
    argv # <<>> =>
        /\ Len(argv) = IF Strings(packet) > MaxArgs THEN MaxArgs ELSE Strings(packet)
        /\ \A k \in DOMAIN argv : argv[k] = String(packet, k)
        /\ argv[1] = Check /\ Len(argv) = 2 =>
              (sent[1][1] = Support <=>
                  \E i \in DOMAIN Commands : \/ Commands[i] = argv[2]
                                             \/ \E m \in 1 .. Len(Commands[i]) :
                                                   /\ SubSeq(Commands[i], 1, m) = argv[2]
                                                   /\ Commands[i][m] = Dot)
=============================================================================
