------------------------------ MODULE MainLoop ------------------------------
(***************************************************************************)
(* The server process: main() of src/mud/main.cc with its signal handlers, *)
(* the managers it starts, saves and stops (common/imanager.cc), and the   *)
(* PID file that keeps a second server from starting.                      *)
(*                                                                         *)
(* Managers register themselves in static constructors, in an order nobody *)
(* fixes; each one requires what it needs before it is ready itself.       *)
(* Signals set flags between any two steps.  Time is counted in parts of   *)
(* a tick.                                                                 *)
(***************************************************************************)
EXTENDS Integers, Sequences, FiniteSets

CONSTANTS Managers,
          Needs,       \* the managers each one requires in its initialize()
          AutoSave,    \* auto_save, in ticks
          TickLength,  \* 1000 / TICKS_PER_ROUND
          MaxTime,     \* bound on the clock
          MaxSignals,  \* bound on signals
          Servers,     \* the processes that are started with one PID file
          MaxFiles     \* bound on the files that come to be under its name

ASSUME MainAssumption ==
    /\ IsFiniteSet(Managers) /\ Needs \in [Managers -> SUBSET Managers]
    /\ AutoSave \in Int /\ TickLength \in Nat \ {0}
    /\ MaxTime \in Nat /\ MaxSignals \in Nat /\ MaxFiles \in Nat
    /\ "nobody" \notin Servers

VARIABLES
    phase,      \* where main() is
    pending,    \* IManager::pending, what of it is still to be required
    calls,      \* the managers whose initialize() is running, innermost first
    managers,   \* IManager::managers, in the order they became ready
    stopping,   \* the managers a saveAll or shutdownAll has yet to visit
    up,         \* history: the managers that are ready and not shut down
    running, signaled_reload, signaled_shutdown,
    now, nexttick, game_ticks, cur_ticks, last_autosave,
    owed,       \* history: a SIGHUP since the last save began
    signals,
    pc,         \* of a process: "off", "opened", "running", "failed" or "ended"
    fd,         \* the PID file it has open, 0 for none
    path,       \* the file the name leads to, 0 for none
    made,       \* how many files were made
    lock        \* by file, the process that has locked it, or "nobody"

init  == <<pending, calls, managers>>
flags == <<running, signaled_reload, signaled_shutdown, owed, signals>>
clock == <<now, nexttick, game_ticks, cur_ticks, last_autosave>>
mainVars == <<phase, init, stopping, up, flags, clock>>
pidVars  == <<pc, fd, path, made, lock>>

InSeq(s) == {s[i] : i \in 1 .. Len(s)}
Reversed(s) == [i \in 1 .. Len(s) |-> s[Len(s) + 1 - i]]

MainInit ==
    /\ phase = "start"
    /\ pending \in {s \in [1 .. Cardinality(Managers) -> Managers] : InSeq(s) = Managers}
    /\ calls = <<>> /\ managers = <<>> /\ stopping = <<>> /\ up = {}
    /\ running = FALSE /\ signaled_reload = FALSE /\ signaled_shutdown = FALSE
    /\ now = 0 /\ nexttick = TickLength /\ game_ticks = 0 /\ cur_ticks = 0 /\ last_autosave = 0
    /\ owed = FALSE /\ signals = 0

-----------------------------------------------------------------------------
(* IManager::require: nothing for a manager that is ready, else a call of  *)
(* its initialize().                                                       *)
Require(m) ==
    IF m \in InSeq(managers) THEN UNCHANGED <<calls, managers, up>>
    ELSE calls' = <<m>> \o calls /\ UNCHANGED <<managers, up>>

(* IManager::initializeAll takes the next manager of pending.              *)
InitializeAll ==
    /\ phase = "start" /\ calls = <<>> /\ pending # <<>>
    /\ Require(Head(pending)) /\ pending' = Tail(pending)
    /\ UNCHANGED <<phase, stopping, flags, clock>>

(* The innermost initialize() requires one of its needs, and returns when  *)
(* all are ready.                                                          *)
Initializing ==
    /\ phase = "start" /\ calls # <<>>
    /\ LET m == Head(calls)  missing == Needs[m] \ InSeq(managers) IN
          \/ \E n \in missing : Require(n)
          \/ /\ missing = {}
             /\ calls' = Tail(calls)
             /\ managers' = IF m \in InSeq(managers) THEN managers ELSE Append(managers, m)
             /\ up' = up \cup {m}
    /\ UNCHANGED <<phase, pending, stopping, flags, clock>>

(* A manager whose initialize() fails ends the process at once.            *)
InitializeFails ==
    /\ phase = "start" /\ calls # <<>>
    /\ phase' = "exit" /\ up' = {}
    /\ UNCHANGED <<init, stopping, flags, clock>>

(* The world is loaded, the sockets are bound, the loop begins.            *)
BeginLoop ==
    /\ phase = "start" /\ calls = <<>> /\ pending = <<>>
    /\ phase' = "poll" /\ running' = TRUE
    /\ UNCHANGED <<init, stopping, up, signaled_reload, signaled_shutdown, owed, signals, clock>>

-----------------------------------------------------------------------------
(* MNetwork.poll: time passes, as long as until the next tick with players *)
(* in the game, longer without.                                            *)
Poll ==
    /\ phase = "poll"
    /\ \E d \in 0 .. 2 * TickLength : now + d <= MaxTime /\ now' = now + d
    /\ phase' = "tick"
    /\ UNCHANGED <<init, stopping, up, flags, nexttick, game_ticks, cur_ticks, last_autosave>>

(* Faulty: a late tick is made up for by two.                              *)
MutNextTick == IF now > nexttick + TickLength THEN nexttick ELSE nexttick + TickLength

(* When the next tick is due: a tick later, or at once where that is past. *)
NextTick == IF now > nexttick + TickLength THEN now ELSE nexttick + TickLength

(* One tick at the most in each turn of the loop: entities, weather, time. *)
Tick ==
    /\ phase = "tick"
    /\ phase' = "save"
    /\ IF now >= nexttick
       THEN game_ticks' = game_ticks + 1 /\ nexttick' = NextTick
       ELSE UNCHANGED <<game_ticks, nexttick>>
    /\ UNCHANGED <<init, stopping, up, flags, now, cur_ticks, last_autosave>>

(* After events and collect: the auto-save.  cur_ticks is 0 for ever.      *)
AutoSaves ==
    /\ phase = "save"
    /\ IF cur_ticks - last_autosave >= AutoSave
       THEN stopping' = Reversed(managers) /\ last_autosave' = cur_ticks /\ owed' = FALSE
       ELSE UNCHANGED <<stopping, last_autosave, owed>>
    /\ phase' = "reload"
    /\ UNCHANGED <<init, up, running, signaled_reload, signaled_shutdown, signals,
                   now, nexttick, game_ticks, cur_ticks>>

(* saveAll visits the managers last to first.                              *)
SaveNext ==
    /\ phase \in {"reload", "signals", "stop"} /\ stopping # <<>>
    /\ stopping' = Tail(stopping)
    /\ UNCHANGED <<phase, init, up, flags, clock>>

(* A SIGHUP: the flag is cleared first, then everything is saved.          *)
Reload ==
    /\ phase = "reload" /\ stopping = <<>>
    /\ phase' = "signals"
    /\ IF signaled_reload
       THEN stopping' = Reversed(managers) /\ signaled_reload' = FALSE /\ owed' = FALSE
       ELSE UNCHANGED <<stopping, signaled_reload, owed>>
    /\ UNCHANGED <<init, up, running, signaled_shutdown, signals, clock>>

(* A terminating signal, and the loop's condition.                         *)
CheckShutdown ==
    /\ phase = "signals" /\ stopping = <<>>
    /\ signaled_shutdown' = FALSE
    /\ running' = (running /\ ~signaled_shutdown)
    /\ IF running /\ ~signaled_shutdown
       THEN phase' = "poll" /\ UNCHANGED <<stopping, owed>>
       ELSE phase' = "stop" /\ stopping' = Reversed(managers) /\ owed' = FALSE
    /\ UNCHANGED <<init, up, signaled_reload, signals, clock>>

(* `admin shutdown', typed by a player: MUD::shutdown.                     *)
AdminShutdown ==
    /\ phase \in {"tick", "save"} /\ running
    /\ running' = FALSE
    /\ UNCHANGED <<phase, init, stopping, up, signaled_reload, signaled_shutdown, owed, signals, clock>>

(* After the last saveAll, shutdownAll, last to first, and the end.        *)
ShutdownBegins ==
    /\ phase = "stop" /\ stopping = <<>>
    /\ phase' = "down" /\ stopping' = Reversed(managers)
    /\ UNCHANGED <<init, up, flags, clock>>

ShutdownNext ==
    /\ phase = "down" /\ stopping # <<>>
    /\ up' = up \ {Head(stopping)} /\ stopping' = Tail(stopping)
    /\ UNCHANGED <<phase, init, flags, clock>>

Exit ==
    /\ phase = "down" /\ stopping = <<>>
    /\ phase' = "exit"
    /\ UNCHANGED <<init, stopping, up, flags, clock>>

(* sighupHandler, sigtermHandler and sigintHandler.                        *)
Sighup ==
    /\ phase # "exit" /\ signals < MaxSignals
    /\ signaled_reload' = TRUE /\ owed' = TRUE /\ signals' = signals + 1
    /\ UNCHANGED <<phase, init, stopping, up, running, signaled_shutdown, clock>>

Sigterm ==
    /\ phase # "exit" /\ signals < MaxSignals
    /\ signaled_shutdown' = TRUE /\ signals' = signals + 1
    /\ UNCHANGED <<phase, init, stopping, up, running, signaled_reload, owed, clock>>

Process ==
    \/ InitializeAll \/ Initializing \/ BeginLoop \/ Poll \/ Tick \/ AutoSaves \/ SaveNext
    \/ Reload \/ CheckShutdown \/ ShutdownBegins \/ ShutdownNext \/ Exit

MainNext == Process \/ InitializeFails \/ AdminShutdown \/ Sighup \/ Sigterm

MainSpec == MainInit /\ [][MainNext]_mainVars

-----------------------------------------------------------------------------
(* writePidFile and cleanup: a process opens the file, creating it where   *)
(* there is none, locks what it has opened, and removes the name from the  *)
(* directory when it ends.  A file that was opened lives on without a name. *)
PidInit ==
    /\ pc = [p \in Servers |-> "off"] /\ fd = [p \in Servers |-> 0]
    /\ path = 0 /\ made = 0 /\ lock = [f \in 1 .. MaxFiles |-> "nobody"]

(* open(path, O_WRONLY | O_CREAT)                                          *)
OpenPidFile(p) ==
    /\ pc[p] = "off"
    /\ \/ path # 0 /\ UNCHANGED <<path, made>> /\ fd' = [fd EXCEPT ![p] = path]
       \/ /\ path = 0 /\ made < MaxFiles
          /\ made' = made + 1 /\ path' = made + 1 /\ fd' = [fd EXCEPT ![p] = made + 1]
    /\ pc' = [pc EXCEPT ![p] = "opened"]
    /\ UNCHANGED lock

(* fcntl(F_SETLK); the PID is written and the server runs, or gives up.    *)
LockPidFile(p) ==
    /\ pc[p] = "opened"
    /\ IF lock[fd[p]] = "nobody"
       THEN pc' = [pc EXCEPT ![p] = "running"] /\ lock' = [lock EXCEPT ![fd[p]] = p]
       ELSE pc' = [pc EXCEPT ![p] = "failed"] /\ UNCHANGED lock
    /\ UNCHANGED <<fd, path, made>>

(* The process ends: cleanup removes the name, whatever file it leads to   *)
(* by now, and the lock goes with the process.  A crash skips cleanup.     *)
Ends(p, cleanup) ==
    /\ pc[p] = "running"
    /\ pc' = [pc EXCEPT ![p] = "ended"]
    /\ path' = IF cleanup THEN 0 ELSE path
    /\ lock' = [lock EXCEPT ![fd[p]] = "nobody"]
    /\ UNCHANGED <<fd, made>>

PidNext == \E p \in Servers : OpenPidFile(p) \/ LockPidFile(p) \/ \E c \in BOOLEAN : Ends(p, c)

PidSpec == PidInit /\ [][PidNext]_pidVars

-----------------------------------------------------------------------------
(* Whatever order the managers registered in, a manager is ready, is saved *)
(* and is shut down while everything it requires is ready: require makes   *)
(* an order in which needs come first, and stopping goes the other way.    *)
NeedsAreUp ==
    /\ \A m \in up : Needs[m] \subseteq up
    /\ \A i, j \in 1 .. Len(managers) : managers[i] = managers[j] => i = j

(* A SIGHUP is never lost: until a save has begun after the last one, the  *)
(* flag is set, or the process is on its way out.                          *)
HangupRemembered == owed => signaled_reload \/ phase \in {"stop", "down", "exit"}

(* Ticks are never ahead of the clock, however late the loop was.          *)
TicksInTime == game_ticks * TickLength <= now

Running == {p \in Servers : pc[p] = "running"}

(* Two servers run side by side only where one of them locked a file whose *)
(* name was removed between its open and its lock: of the servers whose    *)
(* file still has the name there is never more than one.                   *)
OneUnderTheName == \A p, q \in Running : fd[p] = path /\ fd[q] = path => p = q

(* One server runs under a name; managers are initialised after what they  *)
(* need, no SIGHUP is lost, ticks are never ahead of the clock.            *)
ServerRight == OneUnderTheName /\ NeedsAreUp /\ HangupRemembered /\ TicksInTime

(* sourcemud.conf.in: `Auto-save time in minutes'.  No more than the       *)
(* auto-save time of ticks passes without a save being due in this turn.   *)
AutoSaveInTime == phase = "poll" => game_ticks - last_autosave <= AutoSave
=============================================================================
