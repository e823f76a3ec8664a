---------------------------- MODULE Configuration ----------------------------
(***************************************************************************)
(* The configuration of the daemon and what is remembered of a login: the  *)
(* daemon reads the files of the main configuration, again whenever it      *)
(* creates a display; a login that succeeds is written to the state file;   *)
(* each greeter reads that file, the accounts and the session files and     *)
(* preselects the last user and the last session.  Meanwhile an             *)
(* administrator edits the files of the main configuration, packages add    *)
(* and remove session files, and the daemon may die while it saves.         *)
(***************************************************************************)
EXTENDS ConfigReader, SessionFiles, UserModel

CONSTANTS
  MainEdits,     \* <<file, content, with its old time>>: edits of the main configuration
  StateFiles,    \* contents of the state file before the first start
  SessionEdits,  \* <<directory, name, state>> changes of session files
  Accounts,      \* what getpwent() returns
  FirstSessions, \* the session files at first
  AutologinUser, \* Autologin/User, Nobody for none
  MaxEdits, MaxChanges \* bounds on edits and on changes of session files

VARIABLES
  disk,       \* files of the main configuration, their times, those of the directories
  main,       \* mainConfig of the daemon: values, m_fileModificationTime
  daemon,     \* "down", "up" or "saving": the state file is truncated
  first,      \* daemonApp->first: autologin is still to be tried
  stateFile, state, pending, \* the state file, stateConfig, the lines still to be written
  fs, changes,               \* session files and how often they have changed
  greeter,    \* the running greeter's models
  unnoticed,  \* ghost: "no", "edited", or "unseen" when no time may show that it was
  written,    \* ghost: the state file holds what the program wrote last
  unknown     \* ghost: the unknown lines the state file began with

vars == <<disk, main, daemon, first, stateFile, state, pending, fs, changes, greeter,
          unnoticed, written, unknown>>

Absent == <<Mark>> \* no such file; none of the contents
NoPath == <<"", 0>>

\* In rising priority: SYSTEM_CONFIG_DIR, CONFIG_DIR, CONFIG_FILE.
Places == <<"sysdir", "confdir", "conf">>

MainDefaults == (<<"Users", "RememberLastUser">> :> "true") @@ (<<"Users", "RememberLastSession">> :> "true")
             @@ (<<"X11", "ServerPath">> :> "/usr/bin/X")

LastUser == <<"Last", "User">>
LastSession == <<"Last", "Session">>
StateDefaults == (LastUser :> Nobody) @@ (LastSession :> NoPath)

-----------------------------------------------------------------------------
(* The main configuration *)

\* Mutant of Latest: only the classic file is looked at.
LatestOfConf(d) == d.times["conf"]

\* The latest modification time of the directories and the files there are.
Latest(d) ==
  Max({d.dirs[p] : p \in DOMAIN d.dirs}
      \cup {IF d.files[p] = Absent THEN 0 ELSE d.times[p] : p \in ToSet(Places)})

\* ConfigBase::load.
Load(config, d) ==
  IF Latest(d) <= config.time THEN config
  ELSE LET Read(values, p) == IF d.files[p] = Absent THEN values ELSE LoadInternal(values, d.files[p])
       IN [values |-> FoldLeft(Read, config.values, Places), time |-> Latest(d)]

NewMain == Load([values |-> MainDefaults, time |-> 0], disk)

\* An administrator writes, adds or removes a file; one that is copied with its time
\* has an older one.
Edit(p, content, copied) ==
  LET now == disk.clock + 1 IN
  /\ disk.clock < MaxEdits + 1 /\ disk.files[p] # content
  /\ disk' = [disk EXCEPT !.clock = now, !.files[p] = content,
                          !.times[p] = IF copied THEN 1 ELSE now,
                          !.dirs = IF p \in DOMAIN @ /\ Absent \in {content, disk.files[p]}
                                     THEN [@ EXCEPT ![p] = now] ELSE @]
  /\ unnoticed' = IF daemon = "down" THEN "no"
                   ELSE IF unnoticed = "unseen" \/ copied \/ (p = "conf" /\ content = Absent)
                   THEN "unseen" ELSE "edited"
  /\ UNCHANGED <<main, daemon, first, stateFile, state, pending, fs, changes, greeter, written, unknown>>

\* Seat::createDisplay and setupDisplay: reload config if needed.
Reload ==
  /\ daemon = "up"
  /\ main' = Load(main, disk)
  /\ unnoticed' = IF unnoticed = "unseen" /\ main' = main THEN unnoticed ELSE "no"
  /\ UNCHANGED <<disk, daemon, first, stateFile, state, pending, fs, changes, greeter, written, unknown>>

-----------------------------------------------------------------------------
(* The daemon *)

NoGreeter == [up |-> FALSE]

DaemonStarts ==
  /\ daemon = "down"
  /\ daemon' = "up" /\ first' = TRUE
  /\ main' = NewMain
  /\ state' = LoadInternal(StateDefaults, stateFile)
  /\ unnoticed' = "no" /\ written' = FALSE
  /\ UNCHANGED <<disk, stateFile, pending, fs, changes, greeter, unknown>>

\* The daemon dies, at times between the two steps of saving, and its greeter with it.
DaemonDies ==
  /\ daemon # "down"
  /\ daemon' = "down" /\ greeter' = NoGreeter /\ pending' = <<>>
  /\ main' = [values |-> MainDefaults, time |-> 0] /\ state' = StateDefaults
  /\ first' = FALSE /\ unnoticed' = "no" /\ written' = FALSE
  /\ unknown' = IF daemon = "saving" THEN {} ELSE unknown
  /\ UNCHANGED <<disk, stateFile, fs, changes>>

\* What slotAuthenticationFinished sets in stateConfig.
Remembered(user, session) ==
  [state EXCEPT
     ![LastUser] = IF main.values[<<"Users", "RememberLastUser">>] = "true" THEN user ELSE Nobody,
     ![LastSession] = IF main.values[<<"Users", "RememberLastSession">>] = "true" THEN session ELSE NoPath]

\* save last user and last session.  The file is truncated before it is written.
SaveLogin(user, session) ==
  LET saved == Save(Remembered(user, session), StateDefaults, stateFile) IN
  /\ state' = Remembered(user, session)
  /\ IF saved.changed
       THEN daemon' = "saving" /\ stateFile' = <<>> /\ pending' = saved.lines /\ written' = FALSE
       ELSE written' = TRUE /\ UNCHANGED <<daemon, stateFile, pending>>

\* The file is written and closed.
Written ==
  /\ daemon = "saving"
  /\ daemon' = "up" /\ stateFile' = pending /\ pending' = <<>> /\ written' = TRUE
  /\ UNCHANGED <<disk, main, first, state, fs, changes, greeter, unnoticed, unknown>>

\* attemptAutologin: the session of the last login, in the directories of its type;
\* a session there is none of leaves the greeter to be started.
AutologinSession ==
  LET path == state[LastSession] IN
  IF FindSessionEntry(fs, WaylandDirs, path) THEN SetToPath(fs, "wayland", path)
  ELSE IF FindSessionEntry(fs, X11Dirs, path) THEN SetToPath(fs, "x11", path)
  ELSE Unknown(path)

Autologin ==
  /\ daemon = "up" /\ first /\ AutologinUser # Nobody
  /\ first' = FALSE
  /\ IF AutologinSession.valid
       THEN SaveLogin(AutologinUser, AutologinSession.path)
       ELSE UNCHANGED <<daemon, stateFile, state, pending, written>>
  /\ UNCHANGED <<disk, main, fs, changes, greeter, unnoticed, unknown>>

\* A user logs in with a session of the greeter's list; startAuth refuses a session
\* that is not valid any more.
Login(user, i) ==
  LET chosen == greeter.list.sessions[i]
      session == SetToPath(fs, chosen.type, chosen.path)
  IN /\ daemon = "up" /\ greeter.up /\ i \in DOMAIN greeter.list.sessions
     /\ session.valid
     /\ SaveLogin(user, session.path)
     /\ greeter' = NoGreeter
     /\ UNCHANGED <<disk, main, first, fs, changes, unnoticed, unknown>>

-----------------------------------------------------------------------------
(* The greeter *)

\* A greeter starts: its own stateConfig, the theme's needsFullUserModel, the models.
\* last is a ghost: what the daemon remembers at that moment.
GreeterStarts(theme, themeUser, dri) ==
  LET read == LoadInternal(StateDefaults, stateFile) IN
  /\ daemon = "up" /\ ~greeter.up /\ (first => AutologinUser = Nobody)
  /\ first' = FALSE
  /\ greeter' = [up |-> TRUE, changed |-> FALSE, session |-> read[LastSession],
                 users |-> NewUserModel(Accounts, ThemeValue(theme, themeUser, TRUE), read[LastUser]),
                 list |-> Refresh(NoSessions, fs, dri, read[LastSession]),
                 last |-> [user |-> state[LastUser], session |-> state[LastSession]]]
  /\ UNCHANGED <<disk, main, daemon, stateFile, state, pending, fs, changes, unnoticed, written, unknown>>

GreeterStops ==
  /\ greeter.up /\ greeter' = NoGreeter
  /\ UNCHANGED <<disk, main, daemon, first, stateFile, state, pending, fs, changes, unnoticed, written, unknown>>

\* A package adds, changes or removes a session file.  Only what is added or removed
\* changes the directory, which QFileSystemWatcher reports.
SessionFileChanges(e) ==
  LET d == e[1] n == e[2] IN
  /\ changes < MaxChanges /\ fs[d][n] # e[3]
  /\ fs' = [fs EXCEPT ![d][n] = e[3]] /\ changes' = changes + 1
  /\ greeter' = IF greeter.up /\ "absent" \in {fs[d][n], e[3]} THEN [greeter EXCEPT !.changed = TRUE] ELSE greeter
  /\ UNCHANGED <<disk, main, daemon, first, stateFile, state, pending, unnoticed, written, unknown>>

\* directoryChanged: the list is populated again.
DirectoryChanged(dri) ==
  /\ greeter.up /\ greeter.changed
  /\ greeter' = [greeter EXCEPT !.changed = FALSE, !.list = Refresh(@, fs, dri, greeter.session)]
  /\ UNCHANGED <<disk, main, daemon, first, stateFile, state, pending, fs, changes, unnoticed, written, unknown>>

-----------------------------------------------------------------------------
Init ==
  /\ disk = [clock |-> 1, dirs |-> [p \in {"sysdir", "confdir"} |-> 1],
             files |-> [p \in ToSet(Places) |-> Absent], times |-> [p \in ToSet(Places) |-> 0]]
  /\ stateFile \in StateFiles
  /\ main = [values |-> MainDefaults, time |-> 0] /\ state = StateDefaults
  /\ daemon = "down" /\ first = FALSE /\ pending = <<>>
  /\ fs = FirstSessions /\ changes = 0
  /\ greeter = NoGreeter
  /\ unnoticed = "no" /\ written = FALSE
  /\ unknown = UnknownLines(StateDefaults, stateFile)

Next ==
  \/ \E e \in MainEdits : Edit(e[1], e[2], e[3])
  \/ Reload
  \/ DaemonStarts \/ DaemonDies \/ Written \/ Autologin
  \/ greeter.up /\ \E a \in ToSet(Accounts), i \in DOMAIN greeter.list.sessions : Login(a.name, i)
  \/ \E t, u \in {"empty", "true", "false"}, dri \in BOOLEAN : GreeterStarts(t, u, dri)
  \/ GreeterStops
  \/ \E e \in SessionEdits : SessionFileChanges(e)
  \/ \E dri \in BOOLEAN : DirectoryChanged(dri)

Spec == Init /\ [][Next]_vars

-----------------------------------------------------------------------------
Paths == Directories \X Names

\* What is saved is read back, whatever the file held before and whatever died in the
\* meantime; and a file the program wrote is not written again: it "must not change on
\* consecutive loads and reads" (test/ConfigurationTest.cpp).
SaveAndLoadAgree ==
  daemon = "up" => /\ LoadInternal(StateDefaults, stateFile) = state
                   /\ written => ~Save(state, StateDefaults, stateFile).changed

\* Entries the program does not know, and which section they are in, survive every
\* save, unless the daemon dies between truncating the file and writing it.
UnknownLinesSurvive == daemon # "saving" => unknown \subseteq UnknownLines(StateDefaults, stateFile)

\* What file p says of entry k: the value of its last line in a section of that name.
Says(p, k) ==
  LET file == disk.files[p]
      In(i) == LET heads == {j \in 1 .. i : file[j].kind = "section"}
               IN IF heads = {} THEN ImplicitSection ELSE Renamed(file[Max(heads)].name)
      at == {i \in DOMAIN file : file[i].kind = "entry" /\ <<In(i), file[i].name>> = k}
  IN IF at = {} THEN <<>> ELSE <<file[Max(at)].value>>

\* Once a display has been created, every entry some file has is what the most
\* important of the files with it says, under the old section names too; unless the
\* file of most importance was just removed, or a file replaced by an older one, which
\* no time shows.
MainFollowsFiles ==
  daemon = "up" /\ unnoticed = "no" =>
    \A k \in DOMAIN MainDefaults :
      LET said == {i \in 1 .. Len(Places) : Says(Places[i], k) # <<>>}
      IN said # {} => <<main.values[k]>> = Says(Places[Max(said)], k)

\* "This user will be preselected when the login screen appears" (Configuration.h), also
\* when the theme does with a few users and the account is far down the list, unless
\* the account is hidden; and so is the session of the last login, in whichever
\* directory its file is and after every change of the directories, if it is listed.
PreselectsTheLastLogin ==
  greeter.up =>
    LET Shown(a) == a.name = greeter.last.user /\ ~a.hidden
        sessions == greeter.list.sessions
    IN /\ (\E a \in ToSet(Accounts) : Shown(a)) =>
            greeter.users.users[greeter.users.lastIndex + 1] = greeter.last.user
       /\ (\E s \in ToSet(sessions) : s.path = greeter.last.session) =>
            sessions[greeter.list.lastIndex + 1].path = greeter.last.session
=============================================================================
