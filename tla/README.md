# Source MUD: a TLA+ model of the server

Source MUD is a single-threaded C++ game server with an embedded Lua. One
process runs a `select` loop (`src/src/mud/main.cc`): it polls the sockets, runs
at most one game tick, processes events, frees dead entities and goes round
again. Nothing is preempted, so what makes the program hard is not threads but

- *pointers that outlive what they point to*: between two turns of the loop, and
  inside one heartbeat, connections, players, objects and other entities come and
  go, while queues, modes, owners and cursors keep raw pointers to them;
- *streams cut anywhere*: telnet, HTTP, macros and files are read by state
  machines whose state must survive every cut;
- *what is kept on disk*: an old text format, read back by other code than wrote
  it, by a server that may have crashed in between.

The modules follow those three themes, and the Lua interpreter underneath.

## Inventory of the system

| Part | State | Operations | Modules |
|---|---|---|---|
| Entity store (`mud/entity.cc`) | active list, dead list, tag map, state of each entity | construct, activate, deactivate, tags, heartbeat pass, collect, shutdown | `Entity`, `Lifecycle` |
| Network (`net/manager.cc`, `socket.cc`, `iplist.cc`) | handlers waiting and polled, sockets, connection table | poll (prepare, select, ready), accept, hang-up, disconnect, flush | `Network` |
| Deny list, addresses (`iplist.cc`, `netaddr.cc`, `util.cc`) | list of networks | load, parse, compare | `DenyList` |
| Telnet (`net/telnet.cc`, `libtelnet.c`) | option states, compression, parser, input line, chunk and column | negotiate, toggle, input, output, wrap, prompt | `Telopt`, `TelnetInput`, `TelnetOutput` |
| ZMP (`net/zmp.cc`) | command table, colours | packet in, check, answer | `Zmp`, `TelnetInput` |
| HTTP (`net/http.cc`) | request state, timeout | input, header, body, execute, error, flush | `Http` |
| Sessions (`mud/login.cc`, `menu.cc`, `player.cc`, `pmanager.cc`) | mode of each handler, Player objects, connection and timer, character files | login, choose, create, delete, play, quit, link death, take-over, boot | `Session` |
| Character creation (`mud/creation.cc`, `race.cc`) | answers so far | one question after another | `Creation`, `Session` |
| Accounts (`mud/account.cc`, parts of `login.cc`, `menu.cc`, `admin.cc`) | cache, files, passphrase, limits | create, change, grant, revoke, save, load | `Accounts`, `AccountStore` |
| Creatures (`mud/creature.cc`, `char_do.cc`) | action queue, round time, coins | queue, start, update, finish, drop | `Actions` |
| Rooms, portals (`mud/room.cc`, `portal.cc`) | creatures, coins, doors | move, open, close, lock, unlock, kick | `Actions` |
| Objects, bodies (`mud/object.cc`, `body.cc`, `cmd/inventory.cc`) | owner, hands, worn, children | get, put, wear, remove, drop, swap, rot, destroy, collect | `World` |
| Health, affects, combat (`creature.cc`, `caffect.cc`, `combat.cc`) | hit points, affects, round time | heal, damage, die, affect, expire, attack | `Health` |
| Zones, builders (`mud/zone.cc`, `room.cc`, `portal.cc`, `cmd/olc.cc`) | rooms, exits, the zone file | load, create, target, destroy, save | `Builder` |
| Blueprints, NPCs (`npcbp.cc`, `objectbp.cc`, `npc.cc`) | blueprint tables | load, inherit, instantiate | `Blueprints` |
| File objects (`mud/fileobj.cc`) and what uses them | the text of a file | write, read, save, load | `FileObj`, `Persist` |
| Time, calendar, weather (`time.cc`, `calendar.cc`, `weather.cc`, `filetab.cc`) | date, sky, tables | tick, load, save | `Clock`, `Calendar` |
| Commands (`mud/command.cc`) | table of formats, last command | parse, match, choose, repeat | `Command` |
| Names and targets (`name.cc`, `strings.cc`, `command.cc`) | - | article, print, phraseMatch, find | `Names`, `Find` |
| Macros (`mud/macro.cc`) | cache of scripts | compile, run | `Macro`, `Scripts` |
| Hooks, scripting (`lua/*.cc`, `hooks.cc`) | Lua stack, registry, sink | call, print, load | `Scripts` |
| Embedded Lua (`lib/lua51`) | heap, tables, call frames | collect, set/next, call/yield/error, match | `LuaGC`, `LuaTable`, `LuaCalls`, `LuaMatch` |
| Settings, log (`settings.cc`, `log.cc`) | settings, log file | command line, file, open, reopen | `Settings` |
| Main loop, managers (`main.cc`, `imanager.cc`) | ticks, signals, order of managers, PID file | start, tick, save, reload, stop | `MainLoop` |
| Events (`mud/event.cc`) | a queue nothing fills | - | not modelled |
| Help, mail, messages, social and look commands, skills, ids, md5, base64 | tables read once | text and conversion | not modelled |

How they interact. The network's ready loop calls a telnet handler, which hands
bytes to the parser and lines to its current *mode*; the mode calls the player
manager, the accounts and Player; a player's command is matched against the
table, its target is searched for where the player is, and an action with a
pointer to that target is queued on the creature; ticks reach creatures, objects
and players through the entity store's heartbeat pass; `collect` at the end of
the turn frees what became inactive; the next poll deletes handlers that were
only marked. Descriptions and hooks call into Lua on the way. `PROJECT.json`
lists the hazards this creates, each at its line and with the properties that
would show it going wrong.

## Modules

Names follow the source. An undefined step of C++ (freed memory, a null pointer,
a failed assertion) is a `fault` or clears `up`, and the behaviour ends there.
Operators named `Mut...` are faulty variants of the definition that follows
them: each breaks the property it is listed with in `PROJECT.json`, which shows
that the property depends on that piece of code.

### Life, connections, sessions

**`Lifecycle` and `Entity`.** `Lifecycle` is what `entity.h` promises: memory is
FREE, an entity is FLOAT, then ACTIVE at most once, then DEAD, and is freed only
outside the world. `Entity` has the pointers of the code: `link_next`,
`link_prev`, the heads `all` and `dead`, the tag map as a bag, the two cursors of
a heartbeat pass and the program counter of the main loop. Game code may
construct, activate, deactivate and tag in any turn *and inside any heartbeat*: a
pass is one step per entity, with game code between the steps. `Entity`
implements `Lifecycle` (the mapping is the identity on `state`).

**`Network`.** One handler per connection, on `add` until the next poll and then
on `sockets`. Poll is modelled as its loops: prepare (flush, complete
disconnects, delete closed), select (any subset may be ready), ready (out, in).
`disconnect()` only marks a handler and releases its host's place in the
connection table; the code can run it again on a marked handler, and `twice`
remembers that it did. HTTP handlers are told from telnet handlers where their
code differs: the count, and what a flush does.

**`Session`.** Telnet handlers with their mode, Player objects with state,
connection and timer, the player list in order, accounts with their characters
and active count, the set of player files. The turn of the main loop (prepare,
ready, tick, collect) is the `phase`. A Player keeps the *handler* its connection
belongs to; `Stale` is a connection whose handler has been deleted. The
`player_start` hook is external; a start may succeed or fail. Lines of different
connections may interleave within one poll; the dialogue between a character's
name and its confirmation is one step (it is `Creation`). `NextComeAndGo` is the
part in which nobody creates or deletes a character.

**`Accounts` and `AccountStore`.** Accounts has the login, the new-account
dialogue, the change of a passphrase in the menu and the administrator's grant
and revoke, every save as the two steps it is (write the temporary file, rename
it), and a crash with restart between any two. It implements `AccountStore`,
which promises that an account keeps its passphrase until it is given another.
Names are typed in lower case or with a capital. `account.cc` files a new account
under the name as typed and looks it up in lower case, so an account made under a
capital gets a second object when it is looked up, and whichever of the two is saved
last has its way. `AccountStore` names that case (`GoBack`): of such an account, from
the look-up to the next restart, it allows a replaced passphrase to come back.

**`Creation`.** The questions about name, race, form and stats, with tokens and
random rolls, going back, and other connections that take names meanwhile.

### The world

**`Actions`.** A command finds its target where the actor is *when it is typed*,
and the queue keeps a pointer to it; actions start when they come to the front,
refused ones are dropped, `go` looks at the portal again when it finishes.
Creatures come, leave and are collected, and the address of a creature may be
used again. `cancelAction` is no action of the model: `IAction::cancel` answers 1
and nothing overrides it, so `stop` never changes the queue. Rounds of `go` are
chosen when the action is queued instead of when it starts, which no step can
tell.

**`World`.** One `owner` pointer per object, and the lists of those owners:
rooms, five equipment slots of a creature, children of a container. Queued
actions keep raw pointers and start at any later moment. `setOwner` activates,
destruction empties containers, trash and rotting objects go at their time, and a
collection frees whatever is not active. An action that starts `Fails` when it
uses freed memory or activates a dead object (the process ends, `up`), is one of
five, each with its guard (`CanGet` and the others), or is `Refused`. `Inside(o)`,
what destruction and activation reach through containers, is stated as the least
set that holds `o` and is closed under `children`, without recursion. Checks that
only refuse (weight, position, hooks) are left to nondeterminism.

**`Health`.** Heartbeats heal after the round time, damage kills, death ends or
removes, an affect raises strength for a time and takes it back.

**`Builder`.** A zone file is loaded, rooms and two-way portals are made and
destroyed, the zone is saved and loaded again; one-way portals come from the file.
A portal lives in its parent's map of exits and, if two-way and active, in its
target's.

**`Blueprints`, `Clock`, `Calendar`.** Blueprints are read node by node, with
parents by name; an NPC asks its blueprint and that one its parent. The line of a
blueprint's parents is the least set closed under `parent`, and the nearest giver of
a value the one read last, since a parent is always read before its child. `Clock` rolls
hours, days, months and years over and draws the weather; the loop that takes the
days off month after month is the least number of its turns after which the day is
one of the month, the month being counted as the byte it is. `Calendar` reads its
table from text, `Clock` starts with any calendar an administrator may have
edited meanwhile.

### What is read and written

**`FileObj`, `Persist`.** `FileObj` writes nodes symbol by symbol and reads them
with the tokenizer of the code. `Persist` has the attributes the `saveData` of
players, accounts, rooms and objects write, and their types, against what
`loadNode` accepts; saves are crash points. A thing is a sequence of parts, each
held by the one before it.

**`TelnetInput`, `TelnetOutput`, `Telopt`, `Zmp`, `Http`.** Input and HTTP take
packets cut anywhere; in `Http` a packet is put into `input` and taken line by
line, one step per turn of the loop of `sockInput`, in which nothing else happens. Output keeps its own idea of the client's column, which a
screen in the model contradicts when it is wrong. `Telopt` runs the RFC 1143
queue of libtelnet against a client that follows the RFC, over two first-in
first-out streams with compression.

**`Command`, `Find`, `Names`, `Macro`.** The matcher tries the formats of a table
one by one; the reference for `ArgsRight` is a division of the line into
arguments, stated without the algorithm. `Find` is compared with the n-th match of
the concatenation of all places, `Names` with a match stated over the words of what
was typed, `Macro` with the reading of the text that a user of the language has. A
macro that Lua loads may still fail when it runs, where it looks at a variable or
calls something: then what comes before that is printed, and the script stays in
the cache. Plain text is written as a Lua string and read back by Lua: characters
with a backslash and those beyond ASCII are in the texts.

**`Settings`, `DenyList`, `MainLoop`.** Precedence of defaults,
settings file and command line, wrong words, and the boolean option that is the last
word (`crashed`); masks bit by bit; managers that register in any
order and require each other; signals at any point; several processes on one PID
file.

### Lua

**`Scripts`** is the server's side: the one stack that hooks, macros and start-up
scripts share, the registry of userdata, and entities that die under a script.
**`LuaGC`** has the tricolour collector with both barriers, upvalues, strings,
weak tables, finalizers; the program runs between any two steps. `FullCollects` says
what a full collection must free and what it keeps all the same: `cleartable` clears
a weak table of collected objects but marks the strings it holds (`lgc.cc:331-342`),
so these stay with the table. What a mark
reaches (`Reached`) and what the program can reach (`Reachable`) are stated as the
least sets closed under what objects hold, not by recursion. **`LuaTable`**
has the node chains with Brent's variation, the rehash, `next` during a traversal
in which a collection may kill keys, and the border search. **`LuaCalls`** keeps
call frames and C frames of two threads through calls, errors, yields and
resumes. **`LuaMatch`** compares the backtracking matcher with `Best`, the
preferred match stated over all ways to divide the subject.

### MC modules

`Entity.cfg`, `EntityPass.cfg`, `Network.cfg`, `World.cfg`, `MCSession.cfg` and
`MCSessionOwner.cfg` give the constants of those modules values directly
(`Session` defines its own symmetry). `MCActions` and `MCLuaGC` extend one module
each where constants are functions or there is symmetry. `MCServer`, `MCPlay` and
`MCLive` hold many small parts that do not share state: `which` says whose
behaviour it is, and the variables of the others never move. The parts whose
properties are also proved are extended, so that what a run checks is the very
definition the theorem is about: `MCServer` extends `Accounts`, `MainLoop`,
`Blueprints`, `Persist` and `Clock`, `MCPlay` extends `Scripts`, `Creation` and `Builder`, `MCLive`
extends `Http` and `Telopt`; their variables rest as they began while another part
runs. The other parts are instantiated, with variables that are `"-"`, and their
properties are guarded by `which`. Every behaviour of every part is a behaviour of
the MC module.

## What is checked

Every property is checked on all reachable states of its run; none of the runs
is a simulation.

| Run | Property | Shows |
|---|---|---|
| `entity` | `StoreIntact` | Both lists, the tag map and the cursors of a pass stay sound, whatever game code does inside a heartbeat |
| | `PassExact` | A pass beats each entity that stays active exactly once, unless its next entity is deactivated under it |
| | `LifecycleKept` | `Entity` implements `Lifecycle` |
| | `DeadIsFreed` | What is dead is freed |
| `network` | `TableAgrees` | What the ready loop serves is open; a closed handler has given back its place; counts are exact and limited while nobody disconnects twice |
| | `HungUpIsReaped` | A handler that hung up is deleted |
| `session` | `OneLife` | One active Player per name; a play mode drives an active Player that answers to it alone; active counts exact and limited; a timer only without a connection |
| | `CharactersBounded` | The limit on characters, tested only when a creation begins, is exceeded by at most one per other connection |
| `actions` | `WorldHolds` | Rooms and locations agree, nobody walks through a closed door, no coin is made |
| | `QueueDrains` | A full queue drains |
| `world` | `Whereabouts` | A living object is in one place, that of its owner, and nothing alive lists a freed one |
| `live` | `AnsweredOnce` | A request is answered once and executed once |
| | `QuietAgreement` | Once nothing is under way both ends agree on every option, and the client inflates exactly what was deflated |
| | `NegotiationEnds` | Answers do not chase each other |
| | `Closes` | Every HTTP connection ends |
| | `LinkDeadLeaves` | A link-dead player comes back or leaves |
| | `EventuallyWhole` | Who is left alone is whole or dead in the end |
| `lua_gc` | `NoDangling` | Nothing reachable is freed |
| | `FullCollects` | A full collection leaves nothing unreachable but strings that a weak table it kept holds |
| `server` | `LinesExact` | The lines handled are the lines of the text, however it is cut |
| | `WrapRight` | The column is the client's, lines fit the screen, no word is lost or broken |
| | `ServerRight` | One server under a PID file's name; managers start after what they need; no SIGHUP is lost; ticks never run ahead |
| | `AccountsRight` | `Accounts` implements `AccountStore`, crashes and names with capitals included; a passphrase is typed with the echo off |
| | `RoundTrip`, `LoadRestores` | What was written is read; a load gives back what was saved last |
| | `SettingsRight`, `DeniedRight` | A setting is what the last word on it says, wrong words are refused, a boolean option at the end crashes; who is denied is who a line names |
| | `CalendarRight`, `DateInCalendar` | The calendar is that of the file, which is refused exactly where it should be; a tick leaves a date the calendar has |
| | `InheritsNearest` | An NPC has what the nearest blueprint sets |
| `play` | `ArgsRight`, `FindsTheNth` | The arguments are those of the line; the n-th thing is found; a phrase names what has its words |
| | `TextKept`, `ProfileRight`, `ExitsRight` | Text outside macros is shown as written if no macro fails; a character is what was chosen; exits lead where the map says |
| | `ZmpRight`, `ScriptsTidy` | Packets are understood as sent; a hook leaves the stack as found and no script reaches what is gone |
| | `TableRight`, `StacksAgree`, `MatchRight` | A table is a map and `next` visits it all; frames and C frames agree; a match is the preferred one |

Where the code does not have a property outright, the property says so: it is
weakened by exactly the case in which the code fails, and the comment above it
names that case (`PassExact`, `TableAgrees`, `CharactersBounded`, `WrapRight`,
`RoundTrip`, `LoadRestores`, `FindsTheNth` and others).

Three runs show a disagreement between the code and what the repository says of
it; each is a finding in `PROJECT.json` with the quoted line:

| Run | The text | What the code does |
|---|---|---|
| `entity_pass` | entity destruction "won't screw us up" (`entity.cc:361`) | the pass follows a deactivated entity onto the dead list |
| `session_owner` | "you will not be able to get the character back, ever" (`menu.cc:363`) | `File::rename` answers true on success, `destroy` takes that for failure, the name stays on the list |
| `server_autosave` | "Auto-save time in minutes" (`sourcemud.conf.in:80`) | the condition compares a counter nothing advances |

Other places where modelling met a disagreement, which the models reproduce or
step around as their comments say:

- `telnet.cc:219` releases the place of a host again when a closing handler is
  disconnected again; `iplist.cc:129,140` never count the total up.
- `menu.cc:436` compares a cast of a mode with a handler, so a play mode that is
  shut down does not take itself off its Player; `player.cc:518` asks a prompt of a
  connection that may be null.
- `pmanager.cc:188` ends only the first Player of a name, and only if connected:
  a link-dead one goes on living without a file, to be saved again.
  `menu.cc:375` uses the name of the first prompt, whatever became of it.
- `portal.cc:265` looks at the ends of a portal and not at whether it is one-way: of
  two moves through a one-way portal in the queue, the second goes back.
- `http.cc:234-243` runs the request and does not leave the body state, so what
  follows in the same packet is run as a body again.
- `telnet.cc:313`: a tab at column 0 divides by zero.
- `iplist.cc:102`: a second line on a network with another mask is dropped.
- `strings.cc:180` closes the last word of a phrase where the phrase ends, with the
  blanks behind it, so a phrase of fewer than five words that ends in a blank names
  nothing (`string.h:38` knows no such case; `MatchesRight` excepts it).
- `macro.cc:83` writes a character beyond ASCII, a negative `char`, as `\-61`, which
  Lua reads as the text `-61`. A macro that fails in `lua_pcall` (517-524) shows only
  what came before it. `TextKept` says so of both.
- `settings.cc:157`: a boolean option that is the last word (the usage text has `[-d]`)
  reads past the words and crashes; the other options have a test.
- `filetab.cc:110`: a last line without its end is kept, unless it ends in a blank.
- `account.cc:236`: an account made under a name with capitals gets a second object,
  as said above.
- `strings.cc:206` looks at the last word of a name twice if the name ends in a
  blank.
- `calendar.cc:45` keeps the name of the time of day in place of its text.
- `time.cc:71-81`: past the last month no days are taken off and the month, a byte,
  is counted up until it is 1 again, so the loop that counts years has nothing left
  to do. No year passes (`NoYearPasses`); ages, leap years and holidays that fall
  every so many years (`gametime.h:29,35`) stand still. With a calendar whose months
  all have 0 days the loop would not end (`ClockAssumption` has one with days).
- `libtelnet.c:396` reports the end of a refusal as WONT, where its neighbours
  report what the other end sent.
- `object.cc:62` writes where an object is as a literal, which the overloads of
  `attr` take for a boolean, and the load asks for a string.

### Bounds

- `entity`: three entities and two tags. Three are needed for a list with an inner
  element, and for a pass whose next entity leaves while one is behind it.
- `network`: two connections, three hosts (ordinary, local, denied), one place per
  host and two in total, so that both refusals occur. `TotalBound` stops new
  connections once `total_conns`, which only falls, is that far below zero.
- `session`: two handlers, two Player objects, two names, three accounts of which
  one is disabled, one active character and one listed character per account, a
  timeout of 2 ticks (240 in the code). Handlers, objects, names and enabled
  accounts are interchangeable (symmetry).
- `actions`: two rooms, a two-way door and a one-way passage, two creatures with
  room for two queued actions and for one, amounts of one coin, purses of at most
  two (`UINT_MAX` in the code), so that purses fill up.
- `world`: two players, two rooms, a bag and an apple that rots: every owner kind
  and a container whose content outlives it.
- `lua_gc`: three objects beside the main thread and the globals, so that a chain
  with a black, a grey and a white one exists; `FewMixes` are the kinds of objects
  that go together, how many entries a table has (`width`) and whether `setfenv` is
  used (`env`). The stack has one level, but the globals are at hand as well, so
  userdata and strings get into other tables, strong and weak ones.
- `server`: input in up to 4 packets and lines of 5 bytes, output on a screen of 8
  columns with chunks of 4 and texts of 6 symbols (words longer than a chunk and
  lines longer than the screen occur), 9 units of time (two auto-save periods) with
  2 signals, three processes on one PID file, two handlers, one account name in both
  spellings, two passphrases (the second replaces the first, a stale object brings it
  back) and two crashes for accounts, three nodes per file, three changes and two crashes for
  what is saved, four words (two options with their
  arguments, or one and a boolean option at the end) and two lines of settings, tables
  of three lines for the calendar, addresses of two bytes of
  two bits, days of 2 hours in calendars of different lengths, one with a month of no days, a
  month counted modulo 8 (256 in the code), two blueprints of
  up to three nodes (parents, cycles and doubled ids occur).
- `play`: command lines of 4 words, two things per place and indices up to 5 (one
  more than there are), phrases of up to five characters with two
  words looked at (5 in the code), texts of 4 macro pieces, two races and two stats, three
  rooms and three edits with one restart, four hooks and one macro,
  tables of two integer and two string keys with every choice of hash positions
  that collides, two threads with 3 nested C calls, patterns of 4 pieces.
- `live`: 4 HTTP packets, three options with 3 toggles and 2 requests, hit points
  up to 3, and one account with two characters active at a time: a player becomes
  link-dead only when another one boots it. `NextComeAndGo` leaves out the creation
  and deletion of characters there, which neither start nor stop the timer of a
  player in the world; `session` has them. No symmetry is used with liveness.

Runs of several small parts stop when a part has used up its bound, so deadlock is
not checked in `server`, `play`, `live`; nor in `world`, where a failed assertion
ends the process.

### Fairness

The process is one thread and never waits but in `select`, which has a timeout;
so a loop that is entered is left, and every turn reaches its poll and its
collection (`Entity`, `Network`: weak fairness of those steps). In `Session` the
clock passes the next tick again and again, though single turns may come without
one: strong fairness of `Tick`, weak fairness of the loop. In `Actions` and
`Health` every active creature gets heartbeats. In `Http` a socket with output is
flushed and the clock goes on; in `Telopt` each end receives what is on its
stream, TCP being reliable. Players, peers and game code owe nothing: what they
may do has no fairness.

## What is proved

The theorems hold for every value of the constants that meets the named `ASSUME`s
of the modules or, where it is said below, the hypotheses of the theorem. Each
`...Invariance` is an inductive invariant, checked by TLC on an instance before it was
proved; the theorems after it follow from it.

| Module | Theorems | State the runs' property |
|---|---|---|
| `EntityProofs` | `Invariance`, `TypeCorrect`, `ListsCorrect`, `TagMapCorrect`, `CursorsCorrect`, `StoreCorrect`, `LifecycleCorrect`, `PassCorrect` | `StoreIntact`, `LifecycleKept` (refinement), `PassExact` |
| `SessionProofs` | `Invariance`, `OneLifeCorrect`, `BoundedCorrect` | `OneLife`, `CharactersBounded` |
| `ActionsProofs` | `Invariance`, `TypeCorrect`, `WorldCorrect` | `WorldHolds` (action property) |
| `WorldProofs` | `Invariance`, `WhereaboutsCorrect` | `Whereabouts` |
| `ServerProofs`, of `Accounts` | `AccountsInvariance`, `StoreCorrect`, `EchoCorrect`, `AccountsCorrect` | `AccountsRight` (refinement, echo) |
| `ServerProofs`, of `MainLoop` | `MainInvariance`, `PidInvariance`, `ServerCorrect` | `ServerRight` |
| `ServerProofs`, of `Blueprints` | `InheritanceCorrect` | `InheritsNearest` |
| `ServerProofs`, of `Persist` | `LoadsCorrect` | `LoadRestores` (action property) |
| `ServerProofs`, of `Clock` | `DatesCorrect`, `NoYearPasses` | `DateInCalendar` (action property) |
| `LiveProofs`, of `Telopt` | `Invariance`, `AgreementCorrect` | `QuietAgreement` |
| `LiveProofs`, of `Http` | `AnsweredCorrect` | `AnsweredOnce` |
| `LiveProofs`, of `Network` | `TableInvariance`, `NetworkTypeCorrect`, `ReleaseCorrect`, `ServedCorrect`, `NoLeftoversCorrect`, `ExactCorrect`, `TableCorrect` | `TableAgrees` |
| `PlayProofs`, of `Scripts` | `ScriptsInvariance`, `ScriptsCorrect` | `ScriptsTidy` (action property) |
| `PlayProofs`, of `Creation` | `ProfileCorrect` | `ProfileRight` |
| `PlayProofs`, of `Builder` | `ExitsCorrect` | `ExitsRight` |
| `LuaGCProofs` | `GCInvariance`, `DanglingCorrect` | `NoDangling` |

Along which arguments:

- **Entity store.** The invariant is the conjunction of `TypeOK`, `ListsIntact`,
  `TagMapExact`, `CursorsAllocated` and the fact that the cursors are idle outside a
  pass: they stay allocated only because no collection runs inside a pass, and the
  tag map is exact only together with the lists' types. A list is stated without
  recursion: neighbours agree, and every set that holds the head and is closed
  under next is the whole list. Two lemmas, pushing in front and taking out, carry
  all pointer surgery. `PassCorrect` adds what is left of a pass: as long as no
  deactivation went astray, the entities the pass has still to reach are exactly
  those active since it began and not yet beaten, and they are what a walk from the
  cursor meets (`Segment`). The cursor moving on, an entity leaving the list and
  one entering it in front each keep that segment.
- **Network.** The invariant adds the shape of the poll (cursors empty outside their
  loop; what the prepare loop has passed is open) and that the table is a lower
  bound of the running connections, within the limit, and exact until a disconnect
  is repeated. Counting uses cardinalities of `Live(h)` with one handler more or
  less.
- **Sessions.** `OneLife` needs to know more of what is behind a mode: free memory
  holds no connection and no timer, an active Player has an account, a connection a
  Player points to exists and, while it takes input, is in play. Nothing depends on
  the player list. That an active count is exact is again a cardinality with one
  Player more or less. `CharactersBounded` counts the characters that are listed and the
  creations under way together.
- **Creatures and rooms.** That rooms and locations agree is inductive together with
  the types and `InSomeRoom`. `WorldCorrect` proves three things of every step: it
  keeps rooms and locations in agreement, a door somebody passed was open then, and
  coins moved from one purse to one other, none made, and lost only where the
  receiver's purse overflows (`StartKeeps` is the lemma all starts of actions share).
- **Objects.** `Whereabouts` is about living objects; the steps also depend on dead
  ones. The invariant says for each place that it lists a living object exactly if
  the owner pointer says so (`Placed`), that owners are alive or rooms
  (`OwnersLive`), that what is not alive is in no living place (`DeadUnlisted`) and
  that free memory lists nothing (`FreeIsBlank`). A destruction keeps `OwnersLive`
  because everything inside what dies dies with it, and what owns something outside
  of `Inside(o)` is itself outside. It holds while the process runs: a failed
  assertion is where `up` ends.
- **Accounts.** The refinement of `AccountStore`. The invariant relates cache,
  pending saves, temporary file, file and the passphrases that were given up: what
  is to be saved was never given up (`SafeToSave`); of two saves of one account the
  first is the one without a passphrase (`Follows`); while the server runs, an
  object has what its file has or is about to have (`CacheRight`): all three but for
  accounts with two objects (`Doubled`). Whoever is logged in has an object
  (`KeysLoaded`), which stays until the server goes down, so an account is `Doubled`
  from its look-up to the restart and no sooner. With this every rename is a creation,
  a change, a `GoBack`, or a stutter of `AccountStore`, and every load a `LookUp` or a
  stutter. Hypotheses: finitely many accounts, and a passphrase is none of the words
  that stand for none; names may be typed either way. `EchoCorrect` needs neither.
- **HTTP.** A connection that is over has one answer as long as no body was read, and
  is closed before its timeout can answer again: the poll loop comes round between
  two ticks of the clock (`InTime`). Hypothesis: the timeout is more than one tick
  (30 seconds in the code).
- **Option negotiation.** Of every option there are two conversations, one about each
  end, and both ends take part in each: the one that has the option says WILL and
  WONT, the other DO and DONT. A conversation is a state of RFC 1143 at either end and
  what each has said that the other has not heard, at most two words. Of all these
  only 28 positions can come about (`Talks`), and in those with nothing unheard both
  ends are on or both are off. The lemmas `OneHears`, `OtherHears`, `OneAsks` and
  `OtherAsks` show that every step stays in the table; `SaysTail`, `SaysMore` and
  `OthersSaid` carry this to the two streams, where the words of all options are mixed
  with each other and with messages that negotiate nothing. The exception is real: an
  option whose refusal is taken back before it is answered (`reasked`) leaves the
  table, because `_negotiate` raises an event where the remembered request is due.
  Compression is a second invariant: the marker is on its way or was read exactly
  when `z` is set, and a message is deflated exactly if it is behind the marker. No
  assumption is made about which options there are, what the client accepts, or how
  often either side changes its mind.
- **Main loop and PID file.** `require` puts a manager behind all it needs
  (`NeedsFirst`); a shutdown takes the last one first, so those still up are a prefix
  of that order (`StopsInOrder`), whatever order they registered in. The proof needs
  no assumption that needs are free of cycles: with one the server never gets to run.
  `TicksDue` is one tick stronger than `TicksInTime`. Of the PID file, a process that
  runs holds the lock of the file it opened.

- **Blueprints.** While a blueprint is read it is nobody's parent, so what a parent
  gave does not change under its children. The invariant says of every blueprint that
  its parent is older, and that each field is its own if the file gave one and its
  parent's otherwise (`Inherits`). That this is what the nearest giver of the whole
  line gave takes the least blueprint for which it would be false (`LeastOf`); its
  parent's line is its own without itself (`NearestIs`).
- **What is saved.** Whatever builders, crashes and changes do, the file is what was
  saved last or was moved away as a backup. Of what the classes write and read two
  facts are needed, each by a look at all attributes of all six classes: a loader
  sets from an attribute the field that was written as it, or one that is lost
  anyway (`TakenIsWritten`), and every field a class can have is written or lost
  (`WrittenOrLost`). Then no field appears that was not there, and none is missing
  unless some attribute was not taken, in which case nothing is loaded
  (`ReadBackIsAlike`). Things may be of any depth.
- **Date.** The days of the months passed are counted as a set of pairs, so that one
  turn more adds the days of one month (`TurnTakes`) and no sum is defined by
  recursion. After `Width` turns the month is the same again and a month with days
  was passed (`BytesTurn`), so the days run out and the loop ends (`DaysRunOut`); the
  turn it ends with is the least, and the one before left more days than its month
  had, so at least one is left. A day that is one of the month's makes the month one
  of the calendar's, and the loop of the years finds nothing to do: hence both
  `DatesCorrect` and `NoYearPasses`. Needed is `ClockAssumption`: a month with days
  which a byte reaches, and weather whose states lead to each other, as its load
  checks.
- **Hooks and scripts.** What a call has still to do is one of the twelve rests of the
  hooks' programs (`NoWriter`, `HasWriter`); the writer of a save is alive exactly in
  those in which it was made and not released (`WriterKept`). An object is registered
  exactly while it is alive (`Registered`), userdata points to what is alive or
  nowhere, and what a call counts is what lies on the stack above what it found
  (`Counted`). So a call that is over leaves the stack as it was, whatever its script
  and those it called did.
- **Character creation.** The tokens left are the points missing: the total of the
  stats and what the tokens would add is always the whole (`PointsKept`). `Total`
  counts the points as a set, so that a stat raised by an amount adds as many
  elements (`RaisesTotal`) without an induction. A colour is one of the race's from
  the question about it on, and so is the race itself (`Looks`).
- **Zones.** An exit of an active room is an active portal, its own or one that is
  registered with it, and an active portal is in its parent's map (`MapRightOf`). The
  portals of a room that is loaded are activated together; of two that want the same
  exit of a room in the same step the first keeps it, and the proof follows which.
- **Lua's collector.** The invariant is not about what can be reached but about every
  object that is not dead (`NonDead`: not freed, and not of the old white): whatever
  the program holds, it holds none that is dead (`Kept`), and what the sweep
  has passed is white (`Swept`). `NoDangling` follows, since the roots are not dead.
  While marking, no black object holds a white one, whatever is gray is on a list,
  an open upvalue, or a string, and nothing is of the other white (`Marks`). `Darkens`
  says what a mark may do to the colours; marking the white objects of a set takes
  them from the list of exceptions (`MarkKeeps`, `PropagateAllKeeps`). In `atomic` the open
  upvalues, the weak tables, the threads and the userdata to finalize are visited again,
  after each of which the invariant holds without the exception (`Fine`); then what
  is not white holds nothing white but in weak tables (`Traced`), which are
  cleared, and the whites change places. Most steps of the program only make objects
  white, revive dead ones or gray black ones (`Calm`); the write barriers, `luaF_close`
  and the sweep, which closes the upvalues of a thread it frees, have lemmas of their
  own. No bound is used: any number of objects, kinds, stack levels, any mix.

Only model-checked:

- Liveness under fairness is beyond the prover: `DeadIsFreed`, `HungUpIsReaped`,
  `QueueDrains` and those of `live`.
- `FullCollects` is about what is left, of which the invariant above says nothing: it
  keeps what may be kept, and never has to say that garbage goes.
- `DeniedRight` compares masks as powers of two and `SettingsRight` reads the settings
  with a fold; the provers have no facts about exponentiation and none about folds
  but by an induction over data.
- What the recursive algorithms compute for every input needs induction over data,
  which the provers cannot do in general: `FileObj`, `Find`, `LuaMatch`, `Macro`,
  `Command`, `Calendar`, `Zmp`, `TelnetInput`, `LuaTable`, `LuaCalls` and other
  parts of `server` and `play` are compared with their references on bounded inputs.
  Where a proof needed an induction it takes a least counterexample instead
  (`LeastOf` in `ServerProofs` and `PlayProofs`), or the definition is a least closed set.

## What is not modelled

Each part's `note` in `PROJECT.json` says what it leaves out. Worth knowing:

- `Zone::heartbeat` has no caller, so spawns never run; every `Events::send...`
  is an empty stub, so the event queue is never filled; no command table holds
  `commandAttack`, so `Health` has fights as `combat.cc` describes them and no
  way to start one; `CreatureAffectGroup` and its files have no caller.
- Help, mail, messages, social, look and info commands print tables and texts and
  change nothing; skills, forms, ids, md5 and base64 are constant tables and
  conversions.
- Of Lua: lexer, code generator, instructions, the C API and the other libraries.
  They are translations of data whose correctness is that of a compiler, without a
  state that outlives a call; the state they share (heap, stack, tables) is modelled.
- IPv6: with `HAVE_IPV6` `util.cc` calls functions that do not exist.
- Contents of TTYPE, NAWS and NEW_ENVIRON, wording and layout of everything shown,
  colours but for their width, the bytes of socket buffers, unreadable files where
  the server stops at once.

## Plan

What would come next:

1. Proofs of what is left, with definitions that need no recursion: the frames of
   `LuaCalls`, the deny list bit by bit, the settings.
2. Composition: the main loop over entity store, network and session, where a
   collection and a reaping come between the steps of a session.
3. Of Lua, the virtual machine's calls into metamethods, over `LuaCalls`.
