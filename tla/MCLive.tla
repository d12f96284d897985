------------------------------- MODULE MCLive -------------------------------
(***************************************************************************)
(* What must come to an end, one part in each behaviour: an HTTP request,  *)
(* the negotiation of telnet options, the session of a player who may lose *)
(* the connection (nobody creates or deletes a character), and the healing *)
(* of creatures.                                                           *)
(***************************************************************************)
EXTENDS Http, Telopt

VARIABLES which,
    phase, todo, fault, hs, mode, player_list, state, name, owner, conn,
    timeout, count, listed, files,
    hp, dead, gone, round, strength, left, blows

\* What arrives at once: any line, and the cuts that matter.
HttpPackets == {<<l>> : l \in {"get", "put", "junk", "blank", "header", "length", "huge", "beginning"}}
    \cup {<<"get", "blank">>, <<"get", "length", "blank">>, <<"header", "header">>}

Ses == INSTANCE Session WITH Handlers <- {"h1", "h2"}, Objs <- {"o1", "o2"},
        Chars <- {"c1", "c2"}, Accounts <- {"a1"}, Disabled <- {},
        MaxActive <- 2, MaxCharacters <- 2, TimeoutTicks <- 2, Null <- "null",
        Stale <- "stale"
sessionsVars == <<phase, todo, fault, hs, mode, player_list, state, name,
                  owner, conn, timeout, count, listed, files>>
SesIdle ==
    /\ phase = "-" /\ todo = "-" /\ fault = "-" /\ hs = "-" /\ mode = "-"
    /\ player_list = "-" /\ state = "-" /\ name = "-" /\ owner = "-"
    /\ conn = "-" /\ timeout = "-" /\ count = "-" /\ listed = "-"
    /\ files = "-"

Health == INSTANCE Health WITH Players <- {"p"}, Npcs <- {"n"}, MaxHP <- 3,
        Damages <- {1, 3}, Period <- 2, Base <- 5, Mod <- 2, Duration <- 2,
        MaxBlows <- 4
healthVars == <<hp, dead, gone, round, strength, left, blows>>
HealthIdle ==
    /\ hp = "-" /\ dead = "-" /\ gone = "-" /\ round = "-" /\ strength = "-"
    /\ left = "-" /\ blows = "-"

allVars == <<which, httpVars, vars, sessionsVars, healthVars>>

\* The request and the options stay as they begin where they are not followed.
LiveInit ==
    /\ which \in {"web", "options", "sessions", "health"}
    /\ HttpInit
    /\ Init
    /\ IF which = "sessions" THEN Ses!Init ELSE SesIdle
    /\ IF which = "health" THEN Health!Init ELSE HealthIdle

LiveNext ==
    /\ UNCHANGED which
    /\ IF which = "web" THEN HttpNext ELSE UNCHANGED httpVars
    /\ IF which = "options" THEN Next ELSE UNCHANGED vars
    /\ IF which = "sessions" THEN Ses!NextComeAndGo ELSE UNCHANGED sessionsVars
    /\ IF which = "health" THEN Health!Next ELSE UNCHANGED healthVars

\* A step of one part leaves the others alone.
Only(w) == which = w /\ UNCHANGED which
           /\ (w # "web" => UNCHANGED httpVars)
           /\ (w # "options" => UNCHANGED vars)
           /\ (w # "sessions" => UNCHANGED sessionsVars)
           /\ (w # "health" => UNCHANGED healthVars)

LiveSpec ==
    /\ LiveInit /\ [][LiveNext]_allVars
    /\ WF_allVars(Only("sessions") /\ fault = "none" /\ Ses!MainLoop)
    /\ SF_allVars(Only("sessions") /\ fault = "none" /\ Ses!Tick)
    /\ WF_allVars(Only("web") /\ SockRead)
    /\ WF_allVars(Only("web") /\ SockFlush)
    /\ WF_allVars(Only("web") /\ Tick)
    /\ WF_allVars(Only("options") /\ ServerReceives)
    /\ WF_allVars(Only("options") /\ PeerReceives)
    /\ WF_allVars(Only("health") /\ Health!Heartbeat)

(* Telopt: answers never chase each other: after the last request the      *)
(* streams fall silent.                                                    *)
NegotiationEnds == <>[](which = "options" => Quiet)
(* Http: whatever arrives or fails to arrive, the connection is closed.    *)
Closes == which = "web" ~> closed
(* Session: who has lost the connection comes back or leaves the world.    *)
LinkDeadLeaves ==
    \A o \in {"o1", "o2"} : (which = "sessions" /\ Ses!LinkDead(o))
        ~> (which # "sessions" \/ ~Ses!LinkDead(o) \/ fault # "none")
(* Health: who is left alone ends up whole, or is dead.                    *)
EventuallyWhole == <>[](which = "health" => Health!Whole)
=============================================================================
