# HasH-Arch: a TLA+ verification development

HasH-Arch is a distribution: most of the tree is a fork or a package of third-party desktop software
(KDE applets, lock screens, icons, `cartridges`), and its own logic is in a display manager derived from
SDDM (`src/sddm-hash`, with a new relay of two-factor prompts through greeter, daemon and helper), in a few
privileged command-line tools (`src/hasharch-*`) and in a task manager derived from KDE's.  The development
models the display manager, then the tool that edits PAM stacks and the badges of the task manager.

## 1. Inventory

### The display manager (`src/sddm-hash`)

| Component | State | Operations | Talks to |
|---|---|---|---|
| Greeter theme (`hash-theme`, `hash-sddm-theme`: `Main.qml`, `Login.qml`) | form enabled, code field shown, what the user was told | submit a login, answer a prompt (twice: at six characters and at Enter), handlers of the proxy's signals | daemon, by a local socket (`Messages.h`) |
| Greeter process (`greeter/GreeterApp.cpp`, `GreeterProxy.cpp`) | a view for each screen, the socket, exit code | screens added, removed, primary changed; start-up, signals, disconnection | Qt, daemon |
| Keyboard (`greeter/KeyboardModel.cpp`, `XcbKeyboardBackend.cpp`) | a copy of locks and layout, the queue of xcb | initialisation, changes by the theme, events | X server |
| Lists of the greeter (`UserModel.cpp`, `SessionModel.cpp`, `common/Session.cpp`) | users, sessions, the preselected ones | populate, watch directories | accounts, `.desktop` files, state file |
| `Display` (`daemon/Display.cpp`) | `m_started`, `m_socket`, `m_pendingPrompt`, `m_passPhrase`, `m_reuseSessionId`, terminals | start, stop, autologin, login, relay of prompts, slots of `Auth` | greeter, `Auth`, `Seat`, logind |
| `Auth`, `AuthRequest` (`auth/`) | helper process, its socket, user, session path, autologin flag; open request with prompts | start, stop, `dataPending`, `childExited`, `requestFinished` | helper, by a local socket with blocking calls |
| `sddm-helper` (`helper/HelperApp.cpp`, `backend/PamBackend.cpp`) | PAM conversation (`PamData`), position between blocking calls, session process | hello, converse, authenticated, session opened, exit | PAM, daemon |
| Session of the helper (`helper/UserSession.cpp`, `backend/PamHandle.cpp`, utmp) | PAM handle, the child and where it is between fork and exec, cookie file, records | open, start, take a terminal, become the user, stop, kill, close | PAM, kernel, wtmp/btmp, starters |
| Session starters (`helper/*helper.cpp`, `HelperStart*.cpp`, `waylandsocketwatcher.cpp`) | compositor or server, client, watcher, scripts | start in order, time out, end each other | kernel, compositor |
| `VirtualTerminal` (`common/VirtualTerminal.cpp`) | modes of the terminals, which one is shown | set up, jump, release and acquire | kernel, logind |
| `Seat`, `Greeter`, display servers (`daemon/`) | displays of a seat, `m_started` of each part, retries | create, start (three tries), stop, failed, stopped | `Display`, `SeatManager`, X server or compositor |
| `SeatManager`, `DisplayManager` (`daemon/`) | seats by name, `LogindSeat` objects, paths on the bus | seat added/removed, `CanGraphical` changes, switch to greeter | logind over D-Bus |
| `PowerManager` (`daemon/PowerManager.cpp`) | the services there were at the start | capabilities, power off, reboot, suspend, ... | UPower, logind or ConsoleKit |
| Configuration (`common/ConfigReader.cpp`, `Configuration.h`) | entries with values and defaults, time of the newest file | load, load again when a file is newer, save | files of the administrator, the state file |

What makes the login path hard: three event loops and two sockets; the helper blocks in `receive()` with no
timeout; objects (`Auth`, `AuthRequest`, `Display`) outlive the helper process they speak to, so stale data
of one login can reach the next; helper and greeter can die between any two messages; PAM asks what it
likes in any order; and a prompt may wait for the user for ever.

What makes the life cycle of a seat hard: `QProcess::waitForFinished` delivers `finished` inside
`Display::stop`, so a stop can be entered again before it has reset its flag; every part has a `m_started`
of its own; failed starts are retried by timers that live as long as the display; and a terminal's number is
chosen long before the terminal is opened.

What makes a session hard: between fork and exec every step can fail with root's rights still held; helper,
starter, compositor and client end each other in any order; waits have timeouts after which the late answer
still comes; and what was opened (PAM session, record, cookie) has to be closed on every path.

What makes seats, greeter and configuration hard: answers of D-Bus services come in any order and after the
state they describe has changed; Qt moves windows before it tells that a screen is gone; two writers change
one keyboard; and files are rewritten, merged and re-read while others edit them.

### The command-line tools

* `hash-security-helper` edits several PAM stacks: marked lines, a backup of every file, atomic writes, a
  check that a password fallback remains.  Hard: partial failure over several files, what restore goes back
  to, enabling twice, two helpers at once.
* `hash-disks-helper` edits `/etc/fstab`, partitions and mounts.  Hard: an entry is validated, written and
  mounted in three steps.
* `hash-ux-lock` makes files immutable around package transactions.

### The task manager (`src/hasharch-system/com.hash.tasks`)

`SmartLauncher::Backend` keeps what applications announce over the session bus (count, progress, urgency) by
desktop file; an `Item` for each task shows it.  Hard: an application may announce anything in any order and
leave before the bus watches it; settings hide badges and show them again.

### What makes each component correct

* Login path: a helper's blocking calls and the daemon's replies stay in lock step; an answer reaches the
  prompt it was given to; the password of a login is used for that login only; success is announced only for
  the login PAM accepted; the session started is the one chosen; an authentication ends or waits for the
  user.
* Life cycle of a seat: a seat always gets a display again; a display that was stopped leaves nothing
  running; one stop is reported once; no terminal is given twice, and what is shown after a stop is not empty.
* Seats: one `Seat` for each graphical seat, none for the others, no path on the bus for one that is gone.
* Sessions: a program runs only within its PAM session and with the user's rights; a login in the records has
  its logout; no process outlives its starter; a helper told to stop ends.
* Greeter: copy and X server agree; every screen has its view; a press of a power button is carried out
  once; the greeter ends with its daemon.
* Configuration: what is saved is read back; unknown lines stay; the most important file wins; the last user
  and session are preselected.
* PAM stacks: what is disabled is as it was before it was enabled; no stack loses its password fallback;
  every overwritten state can be restored.
* Badges: a task shows what the backend would answer; a badge goes with its application.

`PROJECT.json` lists every component with its status and every hazard with the line where it bites.

## 2. Plan

| # | Module | Models | State |
|---|---|---|---|
| 1 | `PamConversation` | `PamData`: requests, prediction, matching, completion, as operators | done |
| 1 | `LoginProtocol` | greeter, `Display`'s login handlers, `Auth`, `AuthRequest`, `sddm-helper` | done |
| 1 | `LoginService` | abstract: what the login path promises; refined by `LoginProtocol` | done |
| 1 | `LoginProtocolProofs` | type correctness, lock step, identity of answers, the refinement | done |
| 2 | `SeatDisplay` | `Seat`, `Display::start/stop`, `Greeter`, display servers, nested signals, retries | done |
| 2 | `SeatProofs` | a display for the seat, and one only | done |
| 3 | `PamStack`, `PamStackProofs` | `hash-security-helper`: enable, disable, restore, wiring of himmelblau | done |
| 4 | `SeatManager`, `SeatManagerProofs` | `SeatManager`, `DisplayManager`, signals of the daemon, against logind and the bus | done |
| 5 | `PamHandle`, `VirtualTerminal`, `SessionStarter`, `UserSession` | a session from the helper's side; composed in `UserSession` | done |
| 5 | `SessionProofs` | what a session leaves behind | done |
| 6 | `Terminals`, `TerminalsProofs` | which terminal each display and session gets, and what is shown | done |
| 7 | `XkbKeyboard`, `PowerManager`, `GreeterApp` | the greeter process; composed in `GreeterApp` | done |
| 7 | `GreeterProofs` | its screens, power buttons and keyboard | done |
| 8 | `ConfigReader`, `SessionFiles`, `UserModel`, `Configuration` | files to configuration to preselection; composed in `Configuration` | done |
| 9 | `SmartLauncher`, `SmartLauncherProofs` | badges of the task manager | done |
| 10 | `Fstab` | `hash-disks-helper`: the cycle of an fstab entry | planned |

The theorems planned are proved; section 5 says of each property without one why it has none.

## 3. The modules and the code

### `PamConversation`
`PamData` of `helper/backend/PamBackend.cpp` as operators over an explicit value `data`: `Predict` and
`LoginRequest`/`ChangeRequest` (the predicted prompts), `InsertPrompt` (`PamData::insertPrompt`), `Complete`
(`completeRequest`), `ResponseTo` (`getResponse`), and the classification of a prompt by its text, of which
only the words the code looks for are kept (`Words`).  Only conversations of one message are modelled, which
is how `pam_prompt` calls the conversation function.

### `LoginProtocol`
One seat, one display after the other.  A login is a number: it stands for the user, the password and the
session typed together, so that a property can tell whose password went where.

| Variable | Code |
|---|---|
| `greeter` | the theme's state and the socket of `GreeterProxy` |
| `toDaemon`, `toGreeter` | the bytes on the greeter's socket, by message |
| `display` | `Display`: `m_started`, `m_socket`, `m_pendingPrompt`, `m_passPhrase`, `m_reuseSessionId`, the five-second timer of `slotSessionStarted` |
| `auth` | `Auth` (user, session path, autologin, the helper's connection) and its `AuthRequest` |
| `helper` | the `sddm-helper` process: position, PAM data, verdict, exit code |
| `up[n]`, `down` | helper to daemon, one connection for each helper; daemon to the present helper |
| `count` | numbers given so far, which carry the bounds |

Each handler of an event loop is one action; the helper's actions lie between its blocking calls
(`PamAsks ... ReceiveAnswers`, `PamAccepts ... ReceiveEnvironment`, `SessionOpens ... ReceiveStatusAck`).
`Display::stop` is one step here (`StopDisplay`); its inside is the subject of `SeatDisplay`.
`LoginStarted`, `LoginNotStarted` and `LoginAsSddm` are the three outcomes of `Display::login`;
`ReadRequestAnswered`, `ReadRequestRelayed` those of `slotRequestChanged`; `ReapHelper` and
`ReapRefusedHelper` those of `slotHelperFinished`.

### `LoginService`
One login is served at a time; PAM may have the user asked on the way; a session starts only for the login
served and only after PAM accepted it; success is announced only in that stage.  `ImplementsLoginService`
maps `LoginProtocol` to it: `stage` from the helper's position and verdict, `announced` from the message on
its way or on the screen.

### `SeatDisplay`
The life cycle of the displays of one seat, with the daemon's nesting of handlers made explicit.  It leaves
out what is said between the processes, which is `LoginProtocol`'s subject: here a helper is refused, starts
a session, or ends, at any time.

| Variable | Code |
|---|---|
| `seat` | `Seat::m_displays`, as a set: nothing in the life cycle depends on the order |
| `disp[d]` | a `Display` object and its parts: `m_started`, blocked signals, the display server with its `m_started`, the try and the pending `QTimer::singleShot` of `startDisplay`, the greeter's helper, its report on the socket (`report`) and `Greeter::m_started` (`reported`), the user's helper |
| `stack` | the calls the daemon is in, the innermost last |
| `app` | `DaemonApp::first`, the exit code, `s_ttyFailures`, the switches asked for |

`Display::stop` is three frames, one for each part it stops (`DisplayStopsGreeter`, `DisplayStopsAuth`,
`DisplayStopsServer`), because each of the waits inside may deliver `finished` and push another `Stop`.
`Seat::removeDisplay` is two (`RemoveDisplay`, `DisplayRemoved`), around the stop it makes.  Handlers
of the event loop ask for `Idle`; processes die whenever they like.  An `x11` display is started by the
daemon's own X server, which can fail and be retried; the `x11-user` and `wayland` servers are started by the
greeter's helper, come up at once and fail later, through its exit code.

The report of the greeter's helper and its end come to the daemon by two ways, the socket and `SIGCHLD`, in any
order: `GreeterReports` asks for nothing but that the `Auth` object exists, which it does until
`DestroyGreeterAuth`, after `onHelperFinished` has set `m_auth` to null (`greeter` is `"ended"` in between).  A
report read then sets `m_started` once more (`late`), and a stop that follows the null pointer ends the daemon
(`Crashed`).

Abstractions: a removed display is deleted before the next event is served; the server's socket and the
`chown` of it do not fail (`Display.cpp:239-242` returns early there); virtual terminals are the subject of
`Terminals`.

### `PamStack`
`hash-security-helper` as processes on shared files.  A line is its phase, what it contributes and whose
marker it bears; a file is a sequence of lines.  Nobody else edits the files: a restore would undo
what an administrator changed since, as it is meant to.  The pure functions of the helper are operators: `HasFallback`,
`Anchor` (`find_password_anchor`), `Unmanaged` (`strip_managed`), `EnabledOn` (`current_managed_methods`),
`Rebuild`, `WireRebuild` (`hb_rebuild`), `Valid` (`validate_candidate`).  `Keep` is the loop all of them
select lines with, as a recursive function; the one loop of `hb_rebuild` is done a phase at a time (`WireIn`).
`Original` are the lines before the helper was ever run, so none of them bears a marker.

| Variable | Code |
|---|---|
| `file[s]` | `/etc/pam.d/<s>`, `<<>>` if it does not exist |
| `backups[s]` | `/etc/pam.d/<s>.hash-bak-<stamp>`, by stamp |
| `proc[p]` | a helper: position, command with the surfaces left, the text it will install |

A helper reads and validates (`ReadFile`, `ReadBackup`), creates a backup (`OpenBackup`), fills it
(`CopyBackup`) and replaces the file (`ReplaceFile`); `Killed` may come between any two.  The temporary file
bears the process number and is nobody else's, so it has no step.  Stamps are local time to the second:
any stamp may come at any time.  Finding the latest backup and reading it is one step.  Arguments that
`resolve_surface` and `check_method` refuse change nothing and are not enumerated.

### `SeatManager`
The daemon's start (`DaemonApp`), `SeatManager` with its `LogindSeat` objects, `DisplayManager` with the
D-Bus objects of the seats, and `SignalHandler`; logind and the bus are modelled as far as the daemon can
tell.  Every question is a message in `out`, a call in `calls` and an answer in `events`, so that answers and
notices cross.

| Variable | Code |
|---|---|
| `system` | which seat service there is, logind's seats with `CanGraphical`; `missed` is history, see `OneSeatPerName` |
| `daemon` | `m_systemSeats`, `m_seats`, the `Seat` objects ever made, `DisplayManager::m_seats`, registered paths |
| `out`, `rules`, `calls` | messages to the bus, its match rules for the daemon, calls logind has not answered |
| `events` | the queue of the event loop: what the bus delivered and what `deleteLater` posted |
| `signals` | bytes in the socket pairs of `SignalHandler` |

### `PamHandle`, `VirtualTerminal`, `SessionStarter`, `UserSession`
A session seen by the helper that runs it, composed in `UserSession`: `PamHandle` holds the operators of the
class over one record; `VirtualTerminal` what `jumpToVt` and `fixVtMode` do to a state of the terminals;
`SessionStarter` is a process of its own, `sddm-helper-start-wayland` or `sddm-helper-start-x11user`, with the
children it starts.

| Variable | Code |
|---|---|
| `kind` | class, session type and whether `--display-server` is given |
| `helper` | where `HelperApp` is, its exit code, its `PamHandle`, the cookie file, SIGTERM (and whether it is `Auth::stop`'s) and SIGKILL |
| `child` | the process `UserSession` forks: before its terminal (`TakeTerminal`), in the jump (`Jumped`), changing its user (`BecomeUser`), at exec, running |
| `starter` | the starter: its stage, watcher and timer, cookie file, server and client |
| `vt` | the terminal shown, and for each its mode, owner and text or graphics |
| `records` | what was written to wtmp and btmp, in order |

SIGTERM comes from `Auth::stop` or from anybody (`Terminate`); `Killed` is the SIGKILL of `Auth::stop` five seconds later, or
somebody's.  The helper looks at SIGTERM in its event loop only: not while PAM runs or asks the user (`AsksUser`,
`UserAnswers`), nor while it waits for the daemon's reply (`DaemonReplies`), since `receive()` has no time limit.  Each step of
`childModifier` can fail, and a failure is the child's exit code, as in the code.  `UserSession::stop` kills a child and
waits five seconds more (`UserSession.cpp:155-157`); a child the kernel holds on to longer is one that no longer runs.

### `Terminals`
The numbers of terminals and who believes what about them.  A number is chosen by the daemon when it makes a
display (`CreateDisplay`) or begins a login (`StartAuth`), opened by a child of the helper much later
(`GreeterTakesTerminal`, `SessionTakesTerminal`), and recorded by logind in between (`GreeterOpens`,
`SessionOpens`).

| Variable | Code |
|---|---|
| `list`, `fallback` | `Seat::m_displays` in order, and those of them that `displayServerFailed` made as `x11-user` |
| `disp[d]` | `Display::m_terminalId`, `m_sessionTerminalId`, `m_reuseSessionId`, stage of the greeter's and of the user's helper |
| `vt` | the kernel: the terminal shown, and who has each open (greeter, session, daemon's X server, others) |
| `logind` | its sessions: terminal, whose, active or closing |

`FetchAvailableVt` asks logind and `SetUpNewVt` the kernel, which is why the two can give different answers.
A getty at its prompt has a terminal open and no session on it (`OtherOpens`, `OtherLogsIn`); so may a compositor whose
helper was killed, which is an `OrphanEnds` away from its end, in a closing session.

Not every end stops the display.  `SessionEnds` and `GreeterFails` do; a helper that exits with 1, refused or with the
code of a session that has ended (`EndsAsRefused`), and a greeter that ends with any other code (`GreeterEnds`) leave it
in the list; `DisplayServerFails` removes it without a jump and puts an `x11-user` display in its place.

### `XkbKeyboard`, `PowerManager`, `GreeterApp`
The greeter process, composed in `GreeterApp`.

| Variable | Code |
|---|---|
| `keyboard` | `KeyboardModelPrivate` (layouts, lock copy, indicator masks, `enabled`), the step of the constructor, what is on the socket (`wire`) and in xcb's queue (`queue`) |
| `xserver` | locks and layouts of the X server, and changes it told nobody of |
| `power` | the back ends of `PowerManager` in order, and how often an action was carried out (for a property) |
| `greeter` | where start-up is, exit code |
| `views` | `m_views`, each with its screen and the screen Qt shows it on |
| `screens` | `QGuiApplication::screens`, the primary one first |
| `socket` | the local socket and the daemon's end |

Every round trip to the X server (`Reply`) moves what is on the wire into the queue of xcb, where no notifier
sees it; that is where copy and server can part.  `RemoveView` and `ScreenRemoved` follow Qt, which moves the
views of a removed screen before it tells of the removal.

### `ConfigReader`, `SessionFiles`, `UserModel`, `Configuration`
The road from a login that is remembered to a greeter that preselects it, composed in `Configuration`:
`ConfigReader` holds `LoadInternal` and `Save` as operators on files (sequences of lines of which section,
name and value remain); `SessionFiles` how directories become `SessionModel` and how a session is found from
type and path (`SetTo`); `UserModel` the list of users with its threshold.

| Variable | Code |
|---|---|
| `disk`, `main` | the three places of the main configuration with their times; `mainConfig` of the daemon |
| `stateFile`, `state`, `pending` | the state file, `stateConfig`, the lines `save` has still to write |
| `fs` | the session files of each directory |
| `daemon`, `first` | down, up, or between truncating and writing; whether the autologin is still to come |
| `greeter` | `UserModel` and `SessionModel` of the running greeter |

`unnoticed`, `written` and `unknown` are history variables of the properties.  An edit of the main configuration may be a
copy that keeps its older time (`copied`).  A file is a sequence of whole lines: a last line without a newline is not
modelled.

### `SmartLauncher`
`SmartLauncher::Backend` and its items, applications as connections to the session bus.

| Variable | Code |
|---|---|
| `backend` | `m_launchers`, `m_dbusServiceToLauncherUrl`, `m_launcherUrlToStorageId`, `m_badgeBlacklist`, the services `m_watcher` watches; `m_unityMappingRules` is the constant `Rules`; `lost` is history, see `NoBadgeOfTheGone` |
| `item[i]` | an `Item`: launcher URL, storage id, what it shows |
| `settings` | badges on, blacklist, do-not-disturb |
| `bus` | connections alive, match rules taken, messages to the task manager |

An update names its URI, so a connection may announce several, and several the same one: `Register` keeps the last
URI of a connection, as the code does.  `Put`, `Take` and `Tell` stand for insertion, removal and the signals to the items.  `count` is a signed
64-bit number that is narrowed to an `int`: `ToInt` wraps at `IntMax`.

### Mutants
An operator commented "Mutant of ..." is a plausible slip of the same code (a dropped check, a swapped
order).  It is used by no specification; it shows that the property named beside it in `PROJECT.json` can
fail.

## 4. The runs

| Run | Question |
|---|---|
| `login_two_factor` (`LoginTwoFactor.cfg`) | two logins, password and code, a module that complains, a greeter that may crash, `hash-theme`: safety, refinement and, with fairness, liveness |
| `login_autologin` (`LoginAutologin.cfg`) | autologin on every display and its refusal, reused sessions, an expired password changed on the way, `hash-sddm-theme`: the passwordless service serves the automatic login only |
| `no_login_unanswered` (`NoLoginUnanswered.cfg`) | a sentence of the theming guide the code does not keep: see below |
| `seat_two_displays` (`SeatTwoDisplays.cfg`) | a user's switch to a greeter: two displays of a seat that stop, fail and are removed in each other's calls |
| `seat_restarts` (`SeatRestarts.cfg`) | rootful X server with failures and retries or compositor, autologin first: with fairness, a seat comes back |
| `seat_manager` (`SeatManagerHotplug.cfg`) | a seat that comes, goes and changes while the daemon's questions are on their way, another that stays |
| `session_process` (`SessionProcess.cfg`) | one session of six kinds, from the helper's start to its exit, every step failing, SIGTERM and SIGKILL at any time |
| `terminals` (`TerminalsOfTheSeat.cfg`) | two displays, reused and killed sessions, failing greeters and display servers, a getty and somebody who switches: who has which terminal |
| `greeter_screens` (`GreeterScreens.cfg`) | screens, keyboards, keys, power buttons and the daemon's end against one greeter |
| `configuration` (`Configuration.cfg`) | files edited while the daemon reads, writes, dies and starts again; what the greeter preselects |
| `pam_stack_helpers` (`PamStackHelpers.cfg`) | two helpers at once on one stack, any commands in any number, killed anywhere |
| `task_badges` (`TaskBadges.cfg`) | applications that announce, also several URIs or the same one, repeat and leave against two tasks |

### What the properties say

* Login: `LockStep` (a waiting helper has its call unread, or held for the user, or exactly one reply of the
  type its `receive()` expects, and otherwise nothing is on its way), `PendingIsAwaited`, `OneIdentity` (user
  and password given to PAM are those of the helper's own login), `AnswersFitQuestions` (what PAM is told is
  the kind of thing it asked for), `AutologinIsNotInherited`, the refinement `ImplementsLoginService`, and
  the liveness property `AuthenticationEnds`.
* A seat: `SeatKeepsADisplay`, `OneDisplayPerRequest` (nested stops never replace a display twice),
  `GreeterStopIsSafe` (a greeter's stop has the helper it follows, except after a report read between the handling of
  the helper's end and the deletion of its `Auth`), and the liveness properties `HelperEndRemovesDisplay` and `SeatComesBack`.
* Seats: `RunsGraphicalSeats` (at rest the daemon runs what logind calls graphical, in whatever order answers
  and notices came), `OneSeatPerName`, `NoStalePath`.
* A session: `ProgramIsCovered` (it runs only with an open PAM session, as the user, with the user's cookie),
  `RecordsAreBalanced`, `NoOrphans`, `JumpReturns` (the kernel lets the jump to the new terminal end), and
  the liveness properties `StopsWhenTold` (except for one that stays in PAM and was not told by `Auth::stop`) and
  `WaitForSocketEnds`.
* Terminals: `ViewsAgree` (daemon, kernel and logind agree where a session is), `TakenIsNotGivenAgain` (a
  terminal another display or session uses is not given away while one is free, nor one anybody uses when it is the
  kernel that is asked), `JumpLands` (what is shown after a display stopped is a display that lives, if the last one
  does).
* Greeter: `KeyboardAgrees`, `ViewOnEveryScreen`, `OnePressOneAction`, and the liveness
  property `EndsWithTheDaemon`.
* Configuration: `SaveAndLoadAgree`, `UnknownLinesSurvive`, `MainFollowsFiles`, `PreselectsTheLastLogin`.
* PAM stacks: `FallbackKept`, `OriginalKept`, `StackOrder` and the action property `WritesWhatIsAsked`.
* Badges: `ItemsAgree` (whatever was announced, hidden or reloaded, a task shows what the backend would
  answer now), `NoBadgeOfTheGone`.

### Bounds and why they are enough

* Login: `MaxLogins` 2 or 3 (one login has to be able to leave something behind for the next, and a third to
  meet what two left), `MaxDisplays` 2 (an autologin or a session and what comes after it), `MaxMessages` 2
  (a second factor is a second message; a duplicated answer needs a second prompt), `MaxTyped` 2 or 1 (the
  duplicated answer is the second).
* A seat: `MaxDisplays` counts objects alive at one time, the listed and the doomed ones, and
  is large enough that a creation never lacks a number (2 for one listed display, 3 for two); numbers of
  destroyed displays return, so the length of a behaviour is not bounded.  `MaxTries` is the code's 3 and
  `TtyLimit` the code's 5, or 1 in the run with two displays, where it only says when the daemon gives up;
  `MaxSwitches` is 1 there and 0 in the other.  The two-display run has the compositor only, because the
  nesting of calls is the same for every server.
* Seats: two, one of them `seat0`; `MaxChanges` 5 for one seat and 0 for the other (`MCSeatManager`): it takes
  five changes of one seat for the daemon to miss one, and what happens to one seat reaches another only
  through `ListSeats`, which names both.  With one seat the properties were also checked up to 8 changes.
  `MaxSwitches` 1.
* A session: one session, two terminals (the one left and the one to be shown), and nothing else is bounded.
* Terminals: three of them for two displays with their greeters and sessions, so that both "one is free" and "all
  are taken" occur, and a getty on the second; two displays (what one leaves to the other), whose names are
  interchangeable; `MaxLogins` 2, automatic ones included: a login that meets what another left; `MaxOrphans` 1.
  More of each is left to the theorems, which have no bound.
* Greeter: two screens (one is removed while it is primary), two keyboards (one layout, and three of which
  the last is behind a gap in the name), one power action offered by one service or by two, and `MaxEvents`
  3 of what the user, the hardware and the daemon do: a change, a second that crosses it, and one that
  shows what is left.
* Configuration: three places with contents of both the old and the new section names; three state files
  (fresh, written, edited by hand with a repeated section); two session names in three directories; users
  one of whom is hidden and one listed twice; `MaxEdits` 2 and `MaxChanges` 1 (an edit and its undoing);
  `Threshold` 1, so that the list is cut short.  One of the edits is a copy with an old time.
* PAM stacks: two helpers (a read before and a write after another's write), two methods (one
  before and one after the password), one stamp, so that every backup overwrites the one before, and one
  existing file, since commands touch each file by itself; the other surface's file does not exist.  The
  number of commands is not bounded.  Helpers are interchangeable and there is no liveness property, so the
  run uses symmetry.
* Badges: two connections, each of which may announce any of four URIs (two of one desktop file, one of another, one
  of none), and two tasks, both interchangeable (symmetry); `MaxSends` 2 announcements in all: two of one application,
  or one each for the same URI; `IntMax` 2 so that 3 overflows.

Deadlock is not checked where the system really may stop: a user who does nothing more, a daemon that
exits (12 or 23), a seat whose tries are used up, a helper or greeter that has ended, a bound that is reached.
It is checked in `pam_stack_helpers` and `configuration`, where something can always be done.

### Fairness

* Login: weak fairness of the greeter reading its socket, the daemon reading each socket, the helper
  working between its calls, and the five-second timer.  Event loops serve whatever has arrived and a process
  that can run does run.  Nothing is assumed of users, of the end of sessions or of crashes; a PAM
  conversation is bounded by `MaxMessages`.
* A seat: the call in progress goes on and deferred
  deletions are done (weak fairness); the retry timer and the end of a user's helper are served with strong
  fairness, since the Qt loop serves all sources that are ready in a turn, and other handlers can only
  disable these for a while.
* A session: weak fairness of the helper outside PAM (its waits for the child have time limits, and so does
  `UserSession::stop`), the forked child and the starter, and of the starter's two watches, the directory's and
  the timer's; of the daemon's replies while it is not in `Auth::stop`, where it serves nothing; and of the SIGKILL
  with which `Auth::stop` ends.  Nothing is assumed of PAM and of the user it asks, whose answer the helper waits for
  without a limit (`SafeDataStream.cpp:60`) and deaf to SIGTERM: `StopsWhenTold` says no more than that for somebody
  else's SIGTERM.  Servers, programs and clients may run for ever, and nobody need send SIGTERM or SIGKILL.
* Greeter: weak fairness of its start-up, its event loop (keyboard, socket, disconnection) and the daemon's
  reading.  Nothing is assumed of screens, keys, users or the daemon's end.

### Where the code and its documentation differ

`NoLoginUnanswered` is a run: `docs/THEMING.md` promises one of two signals for every login;
`Display::startAuth` gives up silently on an invalid session or while a helper is not yet reaped.  Others were
met while modelling and are steps of the modules, excepted by the properties where they would break them:

* Login.  In `hash-sddm-theme` the code field lies in the stack `startLogin` has disabled.  The session path
  and the environment of an earlier, refused login stay in the `Auth` object and are used when a session is to
  be reused.  A code submitted twice (`hash-sddm-theme/Login.qml:204`) also answers the next prompt.
* A seat.  `Seat::startDisplay` tries a few times, but an X server whose program could not be run leaves its
  `QProcess`, at which `XorgDisplayServer::start` fails on every further try (`XorgDisplayServer.cpp:73`).  A
  comment of `Seat::createDisplay` has `x11-user` tried if rootful x11 failed (`Seat.cpp:60`); a display whose
  tries are used up never emits the signal that does so.  A `SESSION_STATUS` read after `onHelperFinished` sets
  `m_started` while `m_auth` is null, and the next stop follows it (`Greeter.cpp:265`, excepted by `GreeterStopIsSafe`).
* Seats.  A seat that is in the answer to `ListSeats` and in `SeatNew` gets two `LogindSeat` objects
  (excepted by `OneSeatPerName`); one that appears after `ListSeats` is answered and before the match rule is
  read is lost; one that turns not graphical and graphical again before the deferred deletion fails to
  register its path.  The match rule of a `LogindSeat` goes with the object: when a seat is removed and added
  again, the new object may still hear through the old rule that the seat is graphical, and then miss, between
  that rule and its own, that it is not; when it is graphical once more `createSeat` replaces the first `Seat`,
  which nothing will delete (excepted by `OneSeatPerName`, noted in `system.missed`).
* A session.  A watcher that fails inside `start()` emits `failed` before the starter's event loop runs, where
  quitting has no effect: the starter hangs with the compositor (`waylandhelper.cpp:127`, excepted by
  `WaitForSocketEnds`).  A helper that stops waiting for a child after 30 seconds writes a logout without a
  login (excepted by `RecordsAreBalanced`).  Nested timeouts can end in SIGKILL for the starter, which leaves
  its children (excepted by `NoOrphans`).  A helper in PAM does not see SIGTERM (excepted by `StopsWhenTold`).  Credentials that were established are not deleted when
  `pam_open_session` fails.  The X11 starter runs its client before it adds the cookie and ignores the
  result of `XOrgUserHelper::start`.
* Terminals.  A terminal chosen for a login is opened only when the session starts, so a display or login
  in between is given the same number (`Display.cpp:424`; a second factor makes the time long).  After a
  refused autologin the greeter is told the number chosen for the session.  While a login waits for its
  answer, the jump goes to the terminal chosen for it, which is empty.  A reused session that has ended makes
  the jump fail.  When no terminal is free the active one is given.  A compositor whose helper was killed is in
  a closing session, and a getty at its prompt in none: `fetchAvailableVt` gives their terminals away (excepted by
  `TakenIsNotGivenAgain`).  A display whose greeter ended by itself, or whose session exited with 1, stays in the list
  with nothing to show, and the jump may go there (excepted by `JumpLands`).
* Greeter.  An event xcb reads while it waits for a reply is served at the next activity of the socket only
  (`XcbKeyboardBackend.cpp:70`); one between reading the state and selecting the events is missed.
  `parseShortNames` matches tokens behind a gap twice: of `pc+us+ru:2+de:3+fr:4` it makes us, ru, de, de, fr, fr, so
  that the fourth layout is shown as the third.  Nothing is promised of the names, and no property speaks of them.
  UPower's back end offers power off and reboot whatever the policy says.
* Configuration.  Nothing resets an entry whose file was removed, and the removal of the newest file, or its
  replacement by an older one, shows in no time (`ConfigReader.cpp:154-187`; `MainFollowsFiles` excepts both).  An index
  of the last session stays when the session is gone (`SessionModel.cpp:169`, excepted by `PreselectsTheLastLogin`).  `save` truncates before it writes and
  drops comments behind the last entry.  `UserModel` counts duplicates for the threshold before it removes
  them.  `SessionModel` is said to notice every change of a file; a directory's watch does not fire
  for an edit in place.
* PAM stacks.  The README of `hasharch-security` (lines 54-56) promises a backup before any write; `restore`
  makes none of what it overwrites (`hash-security-helper:461`).  `rebuild` leaves a stack without an anchor
  to be refused by the validation (its comment, `hash-security-helper:333`), but `has_password_fallback`
  accepts `system-remote-login`, which `find_password_anchor` does not know: on such a stack `enable` writes
  the text without a line added and reports success.  `AskedIsWritten` therefore has the hypothesis `Anchored`.
* Badges.  The guard against counts that do not fit (`smartlauncherbackend.cpp:189`) is undone by the line
  that stores the count again; a second application that announces a URI already known is never watched; an
  application that announces two is remembered for the last, and the badge of the first stays; so does that of one
  that leaves before the bus has the match rule for it (both excepted by `NoBadgeOfTheGone`); do-not-disturb is told to no item
  (excepted by `ItemsAgree`).

## 5. The proofs

Assumptions: those of the constants (`TextsAssumption`, `ConstantsAssumption`, `StackAssumption`,
`SeatAssumption`, `UserSessionAssumption`, `SmartLauncherAssumption`, `TerminalsAssumption`,
`SeatManagerAssumption`, `KeyboardAssumption`, `PowerAssumption`, `GreeterAssumption`); the theorems hold
for every set of PAM messages, both themes, all configurations and all bounds, for every set of services,
helpers and stamps, for every set of kinds of sessions, for all applications, tasks, mapping rules and updates,
for any finite set of logind's seats and any number of changes to them, for any number of terminals and displays,
and for all screens, power actions and services, and keyboards with at
least one layout. Two theorems have a
hypothesis of their own, `NoAmbiguousText` and `Anchored`, named below.

* `LoginProtocolProofs`: the operators of `PamConversation` return data, prompts and responses of their
  types (selection of a position in a sequence is by `CHOOSE` over a finite set of numbers, so its
  existence is proved with the well-founded order of the naturals); `TypeCorrect == Spec => []TypeOK`, one
  lemma for each action; `HelperAndDaemonInLockStep == Spec => []LockStep` and
  `PendingPromptIsAwaited == Spec => []PendingIsAwaited`.
  In the same module: the refinement `LoginPathImplementsService`, and `AutologinStaysWithItsDisplay`,
  `AnswersKeepToTheirLogin` and `AnswersGoWithQuestions`.
* `SeatProofs`: `SeatNeverDark`, `DisplaysAreNotDoubled`, `GreeterStopHasAHelper` and `SeatTypeCorrect`.
* `SessionProofs`: `StarterLeavesNoOrphans`, `ProgramAlwaysCovered`, `LoginsAndLogoutsBalanced` and
  `JumpAlwaysReturns`.
* `PamStackProofs`: `PasswordFallbackKept`, `InstalledLinesKept`, `AskedIsWritten` and `StacksAreInOrder`.
* `SmartLauncherProofs`: `ItemsShowTheBackend` and `DepartedLeaveNoBadge`.
* `TerminalsProofs`: `ViewsAgreeAlways`, `TakenIsNeverGivenAgain` and `JumpAlwaysLands`.
* `GreeterProofs`: `OneViewPerScreen`, `PressesAreNotRepeated` and `CopyIsTheServers`.
* `SeatManagerProofs`: `GraphicalSeatsRun`, `NamesHaveOneSeat` and `PathsAreNotStale`.

`LockStep` is not inductive: it speaks of the present helper's queue only, and does not say what a daemon
that finds a message there does next.  The invariant is `TypeOK`, `NothingWithoutDisplay` (no display: no
helper, no data), `LoginsInOrder` (a helper's number is above that of every helper before it, so
connections are taken in order), `HellosComeFirst` (a connection's first message is its `HELLO` and it has
no other), and `InPhase`: the conversation is in one of four phases (`Working`: the helper does not wait;
`Calling`: its call is the last message of its queue; `Asking`: the daemon holds its request; `Replied`:
one reply of the right type is on its way) or the helper is dead (`Exited` in the first phase, `Crashed` in
any).  Each step moves from one phase to the next or stays: the lemmas are grouped by who moves.

**The login path.**  The refinement needs two facts `LockStep` does not give: `VerdictByStage` (verdict and
session follow the helper's stage) and `CallsByStage` (an unread `REQUEST` means there is no verdict yet, an
unread `AUTHENTICATED` that its login was accepted, and connections of earlier helpers hold nothing that
speaks for them).  With them each action is mapped to the step of `LoginService` it takes, or to a stutter.
`OneIdentity` and `AnswersFitQuestions` rest on `AnswersAreOfLogin`, which follows a prompt through every
place it can be in (PAM data, request, `AuthRequest`, reply): it fits its login and its type, through each of
`Predict`, `InsertPrompt`, `ResponseTo` and `Complete`.  `AnswersGoWithQuestions` has the hypothesis
`NoAmbiguousText`: no PAM module words a question without echo, and without the word "password", exactly like
a question with echo or like `login:`.  For such a one `findPrompt` compares texts and would take the prompt
of the user's name; the modules of the runs fulfil it, and without it the property is false of the code.

**A seat.**  The properties speak of a daemon at rest, the invariant of every stack of calls.  `CallsNest`:
all calls above a creation are on one display and only a `stop` or a `removeDisplay` has calls inside.
`ChangesOneByOne`: at most one of them changes the list, and blocks the signals of its display.
`RemovedAfterStop`: the removal goes on when the display is stopped or a stop of it is still in progress.
`ListedInUse`: the list is what is alive and not blocked.  `Balanced`: an empty list has a call that will
fill it, and a call that creates a display anyway finds room.  They are operators of a stack, the displays and the
list, so that the state between the calls one step makes can be spoken of.  `GreeterStopIsSafe` is inductive with the
types: only `GreeterReports` sets the flag, and it says so when there is no helper any more.

**A session.**  One part for each process.  `ChildrenByStage`: a stage of the starter is past the stopping of a
child only when that child does not run.  `ChildByStage`, `GrantedByStage`, `OwnersByStage`: where the helper
and its child are tells what PAM has granted and whose the child and the cookie are.  `RecordsByStage`, by
where the helper is between its calls to the daemon: a login is in the records exactly when the number the logout will be written with is cached, except for a
session that was given up.

**PAM stacks.**  `FallbackKept` speaks of files only; the inductive invariant adds `ValidatedBeforeWritten`
(a helper past its reading holds a text it has validated) and the domains of `file` and `proc`.  That no step
but `ReplaceFile` writes a file carries the rest.  `OriginalKept` needs more: what a helper holds, for the
file it is to go to, has the lines installed there (`Own`, of files, backups, the text a helper will write and
the one it saves), and a backup is either such a text or still empty, which does not validate (`OwnInv`).
What a command makes of a text is followed through `Keep`, `Around` and `WireIn` by lemmas proved by induction
on the text; the induction is over the set of the texts for which the claim holds (`TextInduction`), so
that it is a first-order statement.  The same lemmas say which of the helper's own lines the new text has, from
which `AskedIsWritten` follows under `Anchored`: a file that was installed has a password line
`find_password_anchor` finds, as the stacks of the distribution and of `test-pam.py` have.  `StackOrder`
compares the first places of lines in a text, which insertions move; `Ordered` says the same without places, of
all texts that `Own` is about: the managed lines are those of a set of methods, no line comes before another that
may not follow it (`Avoids`, of the pairs in `Misplaced`), and TOTP has a password before it (`Led`).  Both are
determined by the parts of a text (`AvoidsParts`, `LedParts`), so each edit is followed part by part.  Without
`Anchored` the order is not what is documented: a wired stack without a password has nothing to be before.

**Badges.**  `ItemsAgree` says nothing of a hidden count, nor of an item while a change of do-not-disturb is
untold, and so is not inductive: an answer may become visible again.  `StateOK` says it of every field
(`Fits`), with an exception (`Excepted`) only while the launcher exists and the field is hidden, or might be by
do-not-disturb; so an item without a launcher is always clean, and a reload, which populates the others, makes
all of them right.  It speaks of a backend and its items, not of the variables, so that it can be said between
the six changes one `update` makes (`SetAndTold` is the lemma for one).  `NoBadgeOfTheGone` needs the chain
behind it: every launcher has a URI (`LaunchersHaveUrls`), every URI a sender (`UrlsHaveServices`), and every
update not read yet a sender too (`UpdatesHaveServices`), each accounted for: connected, unwatched, or with
its departure on its way, for an update behind it in the queue; a URI without a sender is one in `lost`.

**Terminals.**  `ViewsAgree` speaks of a running session; `TerminalsInv` says of every display, by the stages of
its greeter and login, where the kernel has each of its three helpers (`ServerInv`, `GreeterInv`,
`SessionInv`) and where logind has them, exactly, so that what one party believes can be concluded from what
another says.  `TakenIsNotGivenAgain` needs it twice: on the daemon's X server the number is the kernel's answer and
nobody has the terminal open; on Wayland it is logind's, and `HoldersAreInUse` shows that whoever has a terminal open there has a
session logind counts, except a compositor without its helper and a getty nobody has logged in at.  `JumpLands` needs `StagesInv`: on Wayland a
display without a login answers with the terminal of its greeter.  It is two lists, that of the seat and the displays
in use, that have to agree (`ListInv`), and the steps that end a display share their lemmas,
the creation of the next one included.

**The greeter.**  Three invariants with nothing in common but the process, so each is a part that the steps of the
others leave alone.  `ScreensInv` says of the lists what `ViewOnEveryScreen` says of their sets and lengths: no
screen is listed twice, and `OneForEach` view there is a screen and the other way round; that Qt moves the
views of a removed screen does not matter, since the one moved is the one removed.  It holds while a call into
xcb is under way as well.  `PowerInv` is `OnePressOneAction` with types: what is in the queue is counted before and
after a message is appended or taken.  `KeyboardAgrees` speaks of the moments at which nothing is on its way.
`KeyboardFits` says what leads there: of the events in xcb's queue and on the wire together, the last state
is the server's, or there is none and the copy agrees (`LocksFit`), and the layouts are told to have changed or are
as many as the server's (`LayoutsFit`), each unless it was missed; before the events are selected, what was read
holds unless it changed since (`ReadFits`).  A reply moves events from the wire to the queue, which changes
neither.

**The seats.**  `RunsGraphicalSeats` speaks of rest, when the queue is empty and nothing is on its way; the
invariant, `Sound`, says of every moment what handling the queue *leads to*.  `View` is what of the daemon and its
messages decides which seats run: the `LogindSeat` objects, `m_systemSeats`, which names have a `Seat`, and the
questions and rules not read yet.  `Leads` is the course of views through the queue, each made from the one before
by the handler of one event (`Handled`), and its end `Fits` logind's seats: where the end is wrong about a seat, an
object of it still has the answer to its question to come, believes the opposite, and so will tell (`Mended`);
where the seat's rule is out of effect, or about to be, an object knows what runs (`Witnessed`); what is not tracked
or not there does not run (`Untracked`); every object's rule is in effect before its question is read (`Telling`); and
before the rule of the manager is in effect nothing but the list was asked for (`Early`).  A step of the daemon takes one
view off the front and leaves the end alone, or adds messages to it.  A change in logind that the bus passes on
adds one event and one view; one that it does not pass on leaves the course alone and is either repaired by an
answer to come or recorded in `missed`.  For `OneSeatPerName` three facts are carried along the course: a `Seat`
that runs at its end runs on the way or will be told of (`Caused`), an event that makes a second `Seat` is of a
seat in `missed` (`Noted`), and what was answered is not asked again (`Settled`).  The rest, of `m_seats`, the
objects and the paths, does not depend on logind and is in `Sane`: `PathsKept`, which is `NoStalePath` with the
deletions in the queue, survives the walk of `RemoveSeat` over a list with an object twice in it.

The inductive invariants of `SeatProofs`, `PamStackProofs`, `SmartLauncherProofs`, `TerminalsProofs` and
`GreeterProofs`, and the one behind `LockStep`, were first checked by TLC on the configurations of section 4.

`Sound` speaks of a course of views, which TLC cannot enumerate; there the properties themselves were checked, on
two seats and on one.

Only model-checked: the liveness properties (fairness is out of the prover's reach) and the four invariants of
`Configuration`.  These are about `FoldLeft`, over the lines of a file: it takes an operator as a parameter, and a
lemma about it for every operator is one the installed provers cannot instantiate.  They also hold of the files of
their run rather than of any.

## 6. Not modelled

* Inside the display manager: the contents of environments, resource limits and the redirection of output;
  the translation and the drawing of themes, the greeter's test mode; the remaining calls and the introspection
  of the D-Bus adaptors (the session list among them: nothing calls `AddSession`); marshalling of messages;
  the escapes of `.desktop` files; the wayland keyboard back end, whose operations are empty and which is
  therefore a keyboard that never changes.
* `com.hash.tasks/backend.cpp`: recent documents, places, actions of applications and window highlighting
  are answered from the desktop's services at every call; it keeps no state between calls that a property
  could relate.  The tree has a second copy of the task manager under `_src-plasma-desktop`.
* `hash-disks-helper`: planned as `Fstab`.  Its commands are single processes; what they do to disks is done
  by external tools, and the cycle of reading, validating, backing up and replacing `/etc/fstab` is that of
  `PamStack` on another file.
* `hash-ux-lock`: two `chattr` calls around a transaction of the package manager, whose hooks are external.
* The graphical front ends (`hash-store`, `hash-settings`, `hash-security`, `hash-accounts`), the forked KDE
  components, assets, and the vendored `cartridges`: they have no logic of their own that outlives a call, or
  are drawing, or belong to other projects.
