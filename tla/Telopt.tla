------------------------------- MODULE Telopt -------------------------------
(***************************************************************************)
(* Telnet option negotiation between TelnetHandler (src/net/telnet.cc) and *)
(* a client, through the RFC 1143 queue of lib/libtelnet/libtelnet.c.      *)
(*                                                                         *)
(* Each end keeps a state for every option it may use itself (us) and for  *)
(* every option of the other end (him).  Requests and answers cross on two *)
(* first-in first-out byte streams; what matters is who believes what once *)
(* nothing is under way.  The client is external: it follows RFC 1143,     *)
(* answers every request and may ask for a change of its own.              *)
(***************************************************************************)
EXTENDS Naturals, Sequences

CONSTANTS Opts,        \* the options followed, of the table telopts
          PeerAccepts, \* those of them the client agrees to
          MaxToggles,  \* bound: how often the game changes its mind on echo
          MaxAsks      \* bound: how often the client asks for a change

ASSUME BoundsAssumption == MaxToggles \in Nat /\ MaxAsks \in Nat

VARIABLES
    us, him,     \* telnet_rfc1143_t of the server, per option
    pus, phim,   \* the same of the client
    toPeer,      \* messages on their way to the client
    toServer,    \* messages on their way to the server
    flags,       \* TelnetHandler::io_flags
    z,           \* telnet_t::z: output is compressed from here on
    inflating,   \* the client has seen the compression marker
    toggles, asks,
    reasked      \* history: the options asked for again while their refusal
                 \* was still unanswered

server == <<us, him, flags, z, reasked>>
peer   == <<pus, phim, inflating>>
vars   == <<server, peer, toPeer, toServer, toggles, asks>>

Q == {"NO", "YES", "WANTNO", "WANTYES", "WANTNO_OP", "WANTYES_OP"}
(* The table telopts of telnet.cc: what the server will do itself and what *)
(* it lets the client do.  NAWS is asked for but is not in the table.      *)
TeloptsUs  == {"ECHO", "EOR", "COMPRESS2", "ZMP"}
TeloptsHim == {"TTYPE", "NEW_ENVIRON"}

-----------------------------------------------------------------------------
(* One side of _negotiate: the next state, the answer and the event of an  *)
(* option in state q when the other end says yes (WILL or DO) or no (WONT  *)
(* or DONT).  "on" and "off" stand for the event of the side in question,  *)
(* "other" for the event the code raises in place of sending the request   *)
(* the queue remembers, "wrong" for WONT where DONT is meant.              *)
Step(q, answer, event) == [q |-> q, answer |-> answer, event |-> event]

(* Faulty: every yes is answered, the answer to one's own request too.     *)
MutAnswerAlways(q, supported) ==
    CASE q = "NO" /\ supported  -> Step("YES", "yes", "on")
      [] q = "NO" /\ ~supported -> Step("NO", "no", "none")
      [] q = "WANTNO"           -> Step("NO", "none", "off")
      [] q = "WANTNO_OP"        -> Step("YES", "none", "on")
      [] q = "WANTYES"          -> Step("YES", "yes", "on")
      [] q = "WANTYES_OP"       -> Step("WANTNO", "no", "on")
      [] q = "YES"              -> Step("YES", "yes", "none")

(* Faulty: a supported option is switched on without an answer.            *)
MutAcceptSilently(q, supported) ==
    CASE q = "NO" /\ supported  -> Step("YES", "none", "on")
      [] q = "NO" /\ ~supported -> Step("NO", "no", "none")
      [] q = "WANTNO"           -> Step("NO", "none", "off")
      [] q = "WANTNO_OP"        -> Step("YES", "none", "on")
      [] q = "WANTYES"          -> Step("YES", "none", "on")
      [] q = "WANTYES_OP"       -> Step("WANTNO", "no", "on")
      [] q = "YES"              -> Step("YES", "none", "none")

ReceivesYes(q, supported) ==
    CASE q = "NO" /\ supported  -> Step("YES", "yes", "on")
      [] q = "NO" /\ ~supported -> Step("NO", "no", "none")
      [] q = "WANTNO"           -> Step("NO", "none", "off")
      [] q = "WANTNO_OP"        -> Step("YES", "none", "on")
      [] q = "WANTYES"          -> Step("YES", "none", "on")
      [] q = "WANTYES_OP"       -> Step("WANTNO", "no", "on")
      [] q = "YES"              -> Step("YES", "none", "none")

ReceivesNo(q) ==
    CASE q = "YES"                       -> Step("NO", "no", "off")
      [] q = "WANTNO"                    -> Step("NO", "none", "wrong")
      [] q = "WANTNO_OP"                 -> Step("WANTYES", "none", "other")
      [] q \in {"WANTYES", "WANTYES_OP"} -> Step("NO", "none", "none")
      [] q = "NO"                        -> Step("NO", "none", "none")

(* One side of telnet_negotiate: what asking for yes or no does to an      *)
(* option in state q, and what is sent.                                    *)
AskYes(q) ==
    CASE q = "NO"         -> Step("WANTYES", "yes", "none")
      [] q = "WANTNO"     -> Step("WANTNO_OP", "none", "none")
      [] q = "WANTYES_OP" -> Step("WANTYES", "none", "none")
      [] OTHER            -> Step(q, "none", "none")

AskNo(q) ==
    CASE q = "YES"       -> Step("WANTNO", "no", "none")
      [] q = "WANTYES"   -> Step("WANTYES_OP", "none", "none")
      [] q = "WANTNO_OP" -> Step("WANTNO", "none", "none")
      [] OTHER           -> Step(q, "none", "none")

(* _send_negotiate: a message about one's own option says WILL or WONT,    *)
(* one about the other's DO or DONT.  _send compresses once z is set.      *)
OwnWord   == [yes |-> "WILL", no |-> "WONT"]
TheirWord == [yes |-> "DO", no |-> "DONT"]

Message(cmd, o) == [cmd |-> cmd, opt |-> o, z |-> FALSE]
Said(word, o, answer) ==
    IF answer = "none" THEN <<>> ELSE <<Message(word[answer], o)>>
Send(ms) == [i \in DOMAIN ms |-> [ms[i] EXCEPT !.z = z]]

-----------------------------------------------------------------------------
(* telnet_begin_compress2 after the messages m.  A second call fails in    *)
(* _init_zlib and sends nothing.                                           *)
BeginCompress2(m) ==
    IF z THEN /\ UNCHANGED z /\ toPeer' = toPeer \o Send(m)
         ELSE /\ z' = TRUE
              /\ toPeer' = toPeer \o Send(m) \o <<Message("MARK", "COMPRESS2")>>

(* telnetEvent for EV_DO: the server's own option o was agreed to.  m is   *)
(* what _negotiate has sent before it raised the event.                    *)
EventDo(o, m) ==
    /\ flags' = CASE o = "ECHO" -> [flags EXCEPT !.do_echo = @ \/ flags.want_echo]
                  [] o = "EOR"  -> [flags EXCEPT !.do_eor = TRUE]
                  [] o = "ZMP"  -> [flags EXCEPT !.zmp = TRUE]
                  [] OTHER      -> flags
    /\ CASE o = "COMPRESS2" -> BeginCompress2(m)
         [] o = "ZMP" ->     \* zmp.ident and two zmp.check
              toPeer' = toPeer \o Send(m \o [i \in 1..3 |-> Message("SB", o)]) /\ UNCHANGED z
         [] OTHER -> toPeer' = toPeer \o Send(m) /\ UNCHANGED z

(* EV_DONT: only echo and the end-of-record mark are taken back.           *)
EventDont(o, m) ==
    /\ flags' = CASE o = "ECHO" -> [flags EXCEPT !.do_echo = @ /\ flags.force_echo]
                  [] o = "EOR"  -> [flags EXCEPT !.do_eor = FALSE]
                  [] OTHER      -> flags
    /\ toPeer' = toPeer \o Send(m) /\ UNCHANGED z

(* EV_WILL: the terminal type and the environment are asked for.           *)
EventWill(o, m) ==
    /\ toPeer' = toPeer \o Send(m \o IF o \in {"TTYPE", "NEW_ENVIRON"}
                                     THEN <<Message("SB", o)>> ELSE <<>>)
    /\ UNCHANGED <<flags, z>>

NoEvent(m) == toPeer' = toPeer \o Send(m) /\ UNCHANGED <<flags, z>>

(* _negotiate of a WILL or WONT, and of a DO or DONT.                      *)
NegotiateHim(o, s) ==
    LET m == Said(TheirWord, o, s.answer)
    IN /\ him' = [him EXCEPT ![o] = s.q]
       /\ CASE s.event = "on"    -> EventWill(o, m)
            [] s.event = "other" -> EventDo(o, m)
            [] OTHER             -> NoEvent(m)
       /\ UNCHANGED us

NegotiateUs(o, s) ==
    LET m == Said(OwnWord, o, s.answer)
    IN /\ us' = [us EXCEPT ![o] = s.q]
       /\ CASE s.event = "on"    -> EventDo(o, m)
            [] s.event = "off"   -> EventDont(o, m)
            [] s.event = "other" -> EventWill(o, m)
            [] OTHER             -> NoEvent(m)
       /\ UNCHANGED him

(* The server reads a negotiation or, from the client's environment, that  *)
(* it runs on WIN32, for which echo is forced.                             *)
ServerReceives ==
    /\ toServer # <<>>
    /\ LET m == Head(toServer)
           o == m.opt
       IN CASE m.cmd = "WILL" -> NegotiateHim(o, ReceivesYes(him[o], o \in TeloptsHim))
            [] m.cmd = "WONT" -> NegotiateHim(o, ReceivesNo(him[o]))
            [] m.cmd = "DO"   -> NegotiateUs(o, ReceivesYes(us[o], o \in TeloptsUs))
            [] m.cmd = "DONT" -> NegotiateUs(o, ReceivesNo(us[o]))
            [] m.cmd = "WIN32" ->
                 /\ flags' = [flags EXCEPT !.force_echo = TRUE, !.do_echo = @ \/ flags.want_echo]
                 /\ UNCHANGED <<us, him, z, toPeer>>
    /\ toServer' = Tail(toServer)
    /\ UNCHANGED <<peer, toggles, asks, reasked>>

-----------------------------------------------------------------------------
(* The client (external).                                                  *)
PeerTakes(m, o) ==
    /\ inflating' = (inflating \/ m.cmd = "MARK")
    /\ CASE m.cmd \in {"WILL", "WONT"} ->
              LET s == IF m.cmd = "WILL" THEN ReceivesYes(phim[o], o \in PeerAccepts)
                                         ELSE ReceivesNo(phim[o])
              IN /\ phim' = [phim EXCEPT ![o] = s.q] /\ UNCHANGED pus
                 /\ toServer' = toServer \o Said(TheirWord, o, s.answer)
         [] m.cmd \in {"DO", "DONT"} ->
              LET s == IF m.cmd = "DO" THEN ReceivesYes(pus[o], o \in PeerAccepts)
                                       ELSE ReceivesNo(pus[o])
              IN /\ pus' = [pus EXCEPT ![o] = s.q] /\ UNCHANGED phim
                 /\ toServer' = toServer \o Said(OwnWord, o, s.answer)
         [] m.cmd = "SB" /\ o = "NEW_ENVIRON" ->
              /\ \/ UNCHANGED toServer
                 \/ toServer' = Append(toServer, Message("WIN32", o))
              /\ UNCHANGED <<pus, phim>>
         [] OTHER -> UNCHANGED <<pus, phim, toServer>>

PeerReceives ==
    /\ toPeer # <<>>
    /\ PeerTakes(Head(toPeer), Head(toPeer).opt)
    /\ toPeer' = Tail(toPeer)
    /\ UNCHANGED <<server, toggles, asks>>

(* The client asks for one of the server's options, or to be rid of it.    *)
PeerAsks(o) ==
    /\ asks < MaxAsks /\ asks' = asks + 1
    /\ \/ phim[o] = "YES"
       \/ phim[o] = "NO" /\ o \in PeerAccepts
    /\ LET s == IF phim[o] = "YES" THEN AskNo(phim[o]) ELSE AskYes(phim[o])
       IN /\ phim' = [phim EXCEPT ![o] = s.q]
          /\ toServer' = toServer \o Said(TheirWord, o, s.answer)
    /\ UNCHANGED <<server, pus, inflating, toPeer, toggles>>

-----------------------------------------------------------------------------
(* telnet_negotiate for one of the server's own options.                   *)
Negotiate(o, s) ==
    /\ us' = [us EXCEPT ![o] = s.q]
    /\ toPeer' = toPeer \o Send(Said(OwnWord, o, s.answer))
    /\ reasked' = IF s.q = "WANTNO_OP" THEN reasked \cup {o} ELSE reasked
    /\ UNCHANGED <<him, z>>

(* toggleEcho: the login and menu dialogues hide what is typed by claiming *)
(* that the server echoes.                                                 *)
ToggleEcho(v) ==
    /\ "ECHO" \in Opts
    /\ toggles < MaxToggles /\ toggles' = toggles + 1
    /\ flags' = [flags EXCEPT !.want_echo = v]
    /\ Negotiate("ECHO", IF v THEN AskNo(us["ECHO"]) ELSE AskYes(us["ECHO"]))
    /\ UNCHANGED <<peer, toServer, asks>>

(* The telnet commands "!echo on" and "!echo off".                         *)
EchoCommand(on) ==
    /\ "ECHO" \in Opts
    /\ toggles < MaxToggles /\ toggles' = toggles + 1
    /\ IF on
       THEN /\ flags' = [flags EXCEPT !.force_echo = TRUE, !.do_echo = @ \/ flags.want_echo]
            /\ UNCHANGED <<us, him, z, reasked, toPeer>>
       ELSE /\ flags' = [flags EXCEPT !.force_echo = FALSE]
            /\ IF flags.want_echo
               THEN Negotiate("ECHO", AskNo(us["ECHO"]))
               ELSE UNCHANGED <<us, him, z, reasked, toPeer>>
    /\ UNCHANGED <<peer, toServer, asks>>

(* The constructor: everything the server offers or wants is negotiated in *)
(* this order before the client can say anything.                          *)
Opening(cmd, o) == IF o \in Opts THEN <<Message(cmd, o)>> ELSE <<>>

Init ==
    /\ us  = [o \in Opts |-> IF o \in {"COMPRESS2", "EOR", "ZMP"} THEN "WANTYES" ELSE "NO"]
    /\ him = [o \in Opts |-> IF o \in {"NEW_ENVIRON", "TTYPE", "NAWS"} THEN "WANTYES" ELSE "NO"]
    /\ toPeer = Opening("WILL", "COMPRESS2") \o Opening("WILL", "EOR") \o Opening("WILL", "ZMP")
                \o Opening("DO", "NEW_ENVIRON") \o Opening("DO", "TTYPE") \o Opening("DO", "NAWS")
    /\ toServer = <<>>
    /\ pus = [o \in Opts |-> "NO"] /\ phim = [o \in Opts |-> "NO"]
    /\ flags = [want_echo |-> TRUE, do_echo |-> FALSE, force_echo |-> FALSE,
                do_eor |-> FALSE, zmp |-> FALSE]
    /\ z = FALSE /\ inflating = FALSE
    /\ toggles = 0 /\ asks = 0 /\ reasked = {}

Next ==
    \/ ServerReceives
    \/ PeerReceives
    \/ \E o \in Opts : PeerAsks(o)
    \/ \E v \in BOOLEAN : ToggleEcho(v) \/ EchoCommand(v)

(* The poll loop reads every connection that has bytes, and the network    *)
(* delivers what is sent; nobody has to ask for anything.                  *)
Spec == Init /\ [][Next]_vars /\ WF_vars(ServerReceives) /\ WF_vars(PeerReceives)

-----------------------------------------------------------------------------
Quiet == toPeer = <<>> /\ toServer = <<>>

(* Types, and the flags the constructor starts from.                       *)
TypeOK ==
    /\ us \in [Opts -> Q] /\ him \in [Opts -> Q]
    /\ pus \in [Opts -> Q] /\ phim \in [Opts -> Q]
    /\ flags \in [{"want_echo", "do_echo", "force_echo", "do_eor", "zmp"} -> BOOLEAN]
    /\ z \in BOOLEAN /\ inflating \in BOOLEAN
    /\ toggles \in 0..MaxToggles /\ asks \in 0..MaxAsks
    /\ reasked \in SUBSET Opts

(* RFC 1143 is there so that both ends agree once nothing is under way: no *)
(* option is left waiting, and an option is on at one end exactly when it  *)
(* is on at the other.  It holds for every option whose refusal was never  *)
(* taken back before it was answered (libtelnet.c _negotiate).             *)
Agreement ==
    Quiet => \A o \in Opts \ reasked :
        /\ us[o] \in {"NO", "YES"} /\ him[o] \in {"NO", "YES"}
        /\ us[o] = phim[o] /\ him[o] = pus[o]

(* The client inflates exactly what the server deflated: the marker is the *)
(* last message sent plain, whatever the order of DO, DONT and renewed DO. *)
StreamReadable ==
    LET marks == {i \in DOMAIN toPeer : toPeer[i].cmd = "MARK"}
        before(i) == {j \in marks : j < i}
    IN \A i \in DOMAIN toPeer : toPeer[i].z <=> (inflating \/ before(i) # {})

(* Both, in whatever order requests and answers cross.                     *)
QuietAgreement == Agreement /\ StreamReadable
=============================================================================
