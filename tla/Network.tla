------------------------------ MODULE Network ------------------------------
(***************************************************************************)
(* Connections: _MNetwork::poll and its socket lists (src/net/manager.cc), *)
(* SocketConnection (src/net/socket.cc), the connection table IPConnList   *)
(* (src/net/iplist.cc), the two listeners of src/mud/main.cc and the ends  *)
(* of TelnetHandler and HTTPHandler connections (src/net/telnet.cc,        *)
(* src/net/http.cc).                                                       *)
(*                                                                         *)
(* A handler lives on `add' until the next poll, then on `sockets' until   *)
(* the prepare loop deletes it.  disconnect() only marks it: the socket    *)
(* stays open until its output is sent or the peer hangs up, and both may  *)
(* still happen to a handler that is already marked.                       *)
(***************************************************************************)
EXTENDS Integers, FiniteSets

CONSTANTS Conns,        \* connection handlers
          Hosts,        \* peer addresses
          Local,        \* the loopback ones among them
          Denied,       \* the ones the deny list blocks
          MaxPerHost,   \* setting max_per_host
          MaxClients,   \* setting max_clients
          TotalBound    \* bound of the model: how far below 0 total_conns may
                        \* fall before no more connections are tried

ASSUME NetworkAssumption ==
    /\ IsFiniteSet(Conns)
    /\ Local \subseteq Hosts /\ Denied \subseteq Hosts
    /\ MaxPerHost \in Nat /\ MaxClients \in Nat /\ TotalBound \in Nat
    /\ Hosts # {}

VARIABLES
    phase,       \* where the main loop is
    todo,        \* handlers the current loop of poll has still to visit
    cwrite,      \* handlers select reported writable
    add,         \* PollData::add
    sockets,     \* PollData::sockets
    open,        \* handlers whose sock is not -1
    disconnect,  \* handlers whose SocketConnection::disconnect is set
    output,      \* handlers with bytes in SocketConnection::output
    addr,        \* the handler's peer
    kind,        \* "telnet" or "http"
    conns,       \* IPConnList::connections, 0 where a host has no entry
    total_conns, \* IPConnList::total_conns
    twice        \* history: some handler ran disconnect() a second time

table == <<conns, total_conns, twice>>
who   == <<addr, kind>>
place == <<add, sockets>>
networkVars ==
    <<phase, todo, cwrite, place, open, disconnect, output, who, table>>

AnyHost  == CHOOSE h \in Hosts : TRUE   \* of a handler that does not exist
Kinds    == {"telnet", "http"}
Handlers == add \cup sockets
Live(h)  == {c \in Handlers \ disconnect : addr[c] = h}

-----------------------------------------------------------------------------
(* Faulty: a host one past its limit is still let in.                      *)
MutAddOneMore(h) ==
    IF h \notin Local /\ total_conns >= MaxClients THEN -1
    ELSE IF h \notin Local /\ conns[h] > 0 /\ conns[h] > MaxPerHost THEN -2
    ELSE 0

(* IPConnList::add's result: -1 at the total limit, -2 at the host limit.  *)
AddResult(h) ==
    IF h \notin Local /\ total_conns >= MaxClients THEN -1
    ELSE IF h \notin Local /\ conns[h] > 0 /\ conns[h] >= MaxPerHost THEN -2
    ELSE 0

(* IPConnList::remove.  A host without an entry is ignored.                *)
ConnsRemove(h) ==
    /\ conns' = IF conns[h] > 0 THEN [conns EXCEPT ![h] = @ - 1] ELSE conns
    /\ total_conns' = IF conns[h] > 0 THEN total_conns - 1 ELSE total_conns

(* TelnetHandler::disconnect and HTTPHandler::disconnect, given what the   *)
(* caller makes of the sets of marked handlers and of pending output.  The *)
(* telnet one flushes its last chunk into the output buffer.               *)
Disconnect(c) ==
    /\ ConnsRemove(addr[c])
    /\ disconnect' = disconnect \cup {c}
    /\ twice' = (twice \/ c \in disconnect)
    /\ \/ output' = output
       \/ kind[c] = "telnet" /\ output' = output \cup {c}

-----------------------------------------------------------------------------
NetworkInit ==
    /\ phase = "game" /\ todo = {} /\ cwrite = {}
    /\ add = {} /\ sockets = {} /\ open = {} /\ disconnect = {} /\ output = {}
    /\ addr = [c \in Conns |-> AnyHost] /\ kind = [c \in Conns |-> "http"]
    /\ conns = [h \in Hosts |-> 0] /\ total_conns = 0 /\ twice = FALSE

(* poll: the new handlers join the others, the prepare loop starts.        *)
PollBegin ==
    /\ phase = "game"
    /\ phase' = "prepare"
    /\ sockets' = sockets \cup add /\ add' = {}
    /\ todo' = sockets \cup add
    /\ UNCHANGED <<cwrite, open, disconnect, output, who, table>>

(* The prepare loop's `delete *i' and erase.                               *)
Delete(c) ==
    /\ sockets' = sockets \ {c}
    /\ open' = open \ {c}

(* sockFlush of a handler that goes on; telnet may write a prompt.         *)
Flush(c) ==
    /\ phase = "prepare" /\ c \in todo /\ c \notin disconnect
    /\ todo' = todo \ {c}
    /\ \/ output' = output
       \/ kind[c] = "telnet" /\ output' = output \cup {c}
    /\ UNCHANGED <<phase, cwrite, place, open, disconnect, who, table>>

(* sockFlush of a handler that ends: a telnet peer was idle too long and   *)
(* is told so, or an HTTP request is answered, failed or timed out.  If    *)
(* all of its output is sent the handler goes at once.                     *)
FlushDisconnect(c) ==
    /\ phase = "prepare" /\ c \in todo /\ c \notin disconnect
    /\ todo' = todo \ {c}
    /\ ConnsRemove(addr[c])
    /\ UNCHANGED twice
    /\ \/ /\ disconnect' = disconnect \cup {c} /\ output' = output \cup {c}
          /\ UNCHANGED <<place, open>>
       \/ /\ kind[c] = "http" /\ c \notin output
          /\ Delete(c)
          /\ UNCHANGED <<disconnect, output, add>>
    /\ UNCHANGED <<phase, cwrite, who>>

(* Faulty: a handler is closed only once its output is sent, hung up or    *)
(* not.                                                                    *)
MutReapWaits(c) ==
    /\ phase = "prepare" /\ c \in todo /\ c \in disconnect
    /\ todo' = todo \ {c}
    /\ IF c \notin output
       THEN /\ Delete(c) /\ disconnect' = disconnect \ {c} /\ output' = output \ {c}
       ELSE UNCHANGED <<sockets, open, disconnect, output>>
    /\ UNCHANGED <<phase, cwrite, add, who, table>>

(* A marked handler is closed once its output is sent, and deleted once it *)
(* is closed, whoever closed it.                                           *)
Reap(c) ==
    /\ phase = "prepare" /\ c \in todo /\ c \in disconnect
    /\ todo' = todo \ {c}
    /\ IF c \notin output \/ c \notin open
       THEN /\ Delete(c) /\ disconnect' = disconnect \ {c} /\ output' = output \ {c}
       ELSE UNCHANGED <<sockets, open, disconnect, output>>
    /\ UNCHANGED <<phase, cwrite, add, who, table>>

(* select returns: some sockets are readable, some of those with output    *)
(* writable, or the call failed and nothing is done.                       *)
Select ==
    /\ phase = "prepare" /\ todo = {}
    /\ \/ phase' = "game" /\ UNCHANGED <<todo, cwrite>>
       \/ /\ phase' = "ready"
          /\ todo' \in SUBSET sockets
          /\ cwrite' \in SUBSET (sockets \cap output)
    /\ UNCHANGED <<place, open, disconnect, output, who, table>>

(* sockOutReady that empties the buffer; a partial send changes nothing    *)
(* here.  A handler is served for writing before reading.                  *)
OutReady(c) ==
    /\ phase = "ready" /\ c \in cwrite
    /\ cwrite' = cwrite \ {c}
    /\ output' = output \ {c} \/ output' = output
    /\ UNCHANGED <<phase, todo, place, open, disconnect, who, table>>

(* sockInReady at end of file or on an error, marked or not.               *)
Hangup(c) ==
    /\ phase = "ready" /\ c \in todo \ cwrite
    /\ todo' = todo \ {c}
    /\ open' = open \ {c}
    /\ Disconnect(c)
    /\ UNCHANGED <<phase, cwrite, place, who>>

(* sockInReady with data, ignored once the handler is marked.  The input   *)
(* may make a telnet handler end the connection (quit, three bad           *)
(* passwords, a telnet error); an HTTP handler ends in sockFlush only.     *)
Input(c) ==
    /\ phase = "ready" /\ c \in todo \ cwrite
    /\ todo' = todo \ {c}
    /\ \/ /\ UNCHANGED <<disconnect, table>>
          /\ output' = output \/ (c \notin disconnect /\ output' = output \cup {c})
       \/ c \notin disconnect /\ kind[c] = "telnet" /\ Disconnect(c)
    /\ UNCHANGED <<phase, cwrite, place, open, who>>

(* The listener accepts: not denied, within the limits, counted, and new   *)
(* handlers wait on `add'.  A telnet peer is sent the banner.  total_conns *)
(* is left as it is: IPConnList::add never increments it.                  *)
Accept(c, h, k) ==
    /\ phase = "ready" /\ c \notin Handlers
    /\ total_conns > -TotalBound
    /\ h \notin Denied /\ AddResult(h) = 0
    /\ add' = add \cup {c} /\ open' = open \cup {c}
    /\ addr' = [addr EXCEPT ![c] = h] /\ kind' = [kind EXCEPT ![c] = k]
    /\ output' = IF k = "telnet" THEN output \cup {c} ELSE output
    /\ conns' = [conns EXCEPT ![h] = @ + 1]
    /\ UNCHANGED <<phase, todo, cwrite, sockets, disconnect, total_conns, twice>>

ReadyEnd ==
    /\ phase = "ready" /\ todo = {} /\ cwrite = {}
    /\ phase' = "game"
    /\ UNCHANGED <<todo, cwrite, place, open, disconnect, output, who, table>>

(* Game code writes to a player's connection, or ends it (a GM's boot, the *)
(* same character entering again, the end of a session); it runs in the    *)
(* heartbeat and in the commands of other connections.                     *)
GameOutput(c) ==
    /\ phase \in {"game", "ready"} /\ c \in Handlers /\ kind[c] = "telnet"
    /\ output' = output \cup {c}
    /\ UNCHANGED <<phase, todo, cwrite, place, open, disconnect, who, table>>

GameDisconnect(c) ==
    /\ phase \in {"game", "ready"} /\ c \in Handlers \ disconnect /\ kind[c] = "telnet"
    /\ Disconnect(c)
    /\ UNCHANGED <<phase, todo, cwrite, place, open, who>>

(* _MNetwork::shutdown deletes every handler and leaves the table alone.   *)
Shutdown ==
    /\ phase = "game"
    /\ phase' = "stopped"
    /\ add' = {} /\ sockets' = {} /\ open' = {} /\ disconnect' = {} /\ output' = {}
    /\ UNCHANGED <<todo, cwrite, who, table>>

Stopped == phase = "stopped" /\ UNCHANGED networkVars

-----------------------------------------------------------------------------
NetworkNext ==
    \/ PollBegin \/ Select \/ ReadyEnd \/ Shutdown \/ Stopped
    \/ \E c \in Conns :
         \/ Flush(c) \/ FlushDisconnect(c) \/ Reap(c)
         \/ OutReady(c) \/ Hangup(c) \/ Input(c)
         \/ GameOutput(c) \/ GameDisconnect(c)
         \/ \E h \in Hosts, k \in Kinds : Accept(c, h, k)

NetworkSpec == NetworkInit /\ [][NetworkNext]_networkVars

(* One thread runs poll: it gets on with its loops, and the main loop      *)
(* polls again in every iteration.  Peers and game code owe nothing.       *)
PollStep ==
    \/ PollBegin \/ Select \/ ReadyEnd
    \/ \E c \in Conns : \/ Flush(c) \/ FlushDisconnect(c) \/ Reap(c)
                        \/ OutReady(c) \/ Hangup(c) \/ Input(c)

NetworkFairSpec == NetworkSpec /\ WF_networkVars(PollStep)

-----------------------------------------------------------------------------
(* Types of all variables.                                                 *)
NetworkTypeOK ==
    /\ phase \in {"game", "prepare", "ready", "stopped"}
    /\ add \in SUBSET Conns /\ sockets \in SUBSET Conns
    /\ todo \in SUBSET sockets /\ cwrite \in SUBSET sockets
    /\ open \in SUBSET Handlers /\ disconnect \in SUBSET Handlers
    /\ output \in SUBSET Handlers
    /\ addr \in [Conns -> Hosts] /\ kind \in [Conns -> Kinds]
    /\ conns \in [Hosts -> Nat] /\ total_conns \in Int
    /\ twice \in BOOLEAN

(* A handler is on one list only, and a closed handler is one that has     *)
(* already run disconnect() (socket.cc:39-50): the prepare loop, which     *)
(* deletes whatever is closed (manager.cc:102), never drops a connection   *)
(* that is still counted.                                                  *)
ClosedWasReleased ==
    /\ add \cap sockets = {}
    /\ Handlers \ open \subseteq disconnect

(* poll tests descriptors of its ready loop against the sets of select     *)
(* (manager.cc:136-142): each handler it serves still has its descriptor,  *)
(* so FD_ISSET(-1) is never evaluated for one.                             *)
ServedAreOpen == phase = "ready" => todo \cup cwrite \subseteq open

(* The table never counts a connection that has ended: a host's entry      *)
(* (iplist.cc:124-169) is at most its connections that still run, so no    *)
(* host is refused for connections it no longer has.                       *)
NoLeftovers ==
    phase # "stopped" => \A h \in Hosts : conns[h] <= Cardinality(Live(h))

(* As long as no handler runs disconnect() twice, the table is exact and   *)
(* max_per_host holds for every host but the local one.                    *)
ExactUnlessRepeated ==
    ~twice /\ phase # "stopped" =>
        \A h \in Hosts :
            /\ conns[h] = Cardinality(Live(h))
            /\ h \notin Local /\ MaxPerHost > 0 => Cardinality(Live(h)) <= MaxPerHost

(* Table, sockets and descriptors agree through every order of hang-ups,   *)
(* disconnects and polls.                                                  *)
TableAgrees == ClosedWasReleased /\ ServedAreOpen /\ NoLeftovers /\ ExactUnlessRepeated

(* A connection the peer has closed is reaped: poll's prepare loop         *)
(* (manager.cc:94-116) deletes it even while it has unsent output.         *)
HungUpIsReaped == \A c \in Conns : c \in Handlers \ open ~> c \notin Handlers
=============================================================================
