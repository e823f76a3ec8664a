------------------------------ MODULE Terminals ------------------------------
(***************************************************************************)
(* Which virtual terminal the displays of seat0, their greeters and their   *)
(* sessions are given, and which one is shown when a display goes.  Three   *)
(* parties keep a view of this: the daemon the numbers it chose (Display,   *)
(* Greeter), the kernel who has a terminal open, and logind the terminal    *)
(* of each session.                                                        *)
(*                                                                         *)
(* A number is chosen when a display is created or a login begins; the      *)
(* terminal is opened by a child of the helper, after authentication and    *)
(* PAM.  Only an X server the daemon starts itself opens it at once.        *)
(***************************************************************************)
EXTENDS Integers, SequencesExt

CONSTANTS
  Terminals,  \* of the kernel, numbered from 1
  InitialVt,  \* SDDM_INITIAL_VT
  Types,      \* display servers: "x11" of the daemon; "wayland", "x11-user" of the helper
  Autologin,  \* whether Autologin.User may be set, with Relogin
  Others,     \* terminals others may log in at
  Numbers,    \* names of the displays that may exist at one time
  MaxLogins,  \* bound on the logins attempted, automatic ones among them
  MaxOrphans  \* bound on the compositors that run on without their helpers

ASSUME TerminalsAssumption ==
  /\ Terminals = 1 .. Cardinality(Terminals) /\ InitialVt \in Terminals
  /\ Others \subseteq Terminals /\ {"none", "gone"} \intersect Numbers = {}
  /\ Types \subseteq {"x11", "wayland", "x11-user"}
  /\ Autologin \subseteq BOOLEAN /\ MaxLogins \in Nat /\ MaxOrphans \in Nat

VARIABLES
  type,    \* General.DisplayServer; like auto it does not change here
  auto,    \* Autologin.User is set
  list,    \* Seat::m_displays
  fallback,  \* those created as x11-user since another's display server failed
  disp,    \* the displays
  vt,      \* the terminal shown, and who has each one open
  logind,  \* its sessions
  logins   \* logins attempted

vars == <<type, auto, list, fallback, disp, vt, logind, logins>>

\* greeter and auth are the stages of the two helpers; an automatic login waits as
\* "auto", a greeter's as "asking", and a session that is "opened" has passed PAM and
\* not yet opened its terminal.
NewDisplay == [terminal |-> 0, greeter |-> "none", greeterTerminal |-> 0, auth |-> "idle",
               session |-> "none", sessionTerminal |-> 0, reuse |-> "none"]

Leave(held, holders) == [t \in Terminals |-> held[t] \ holders]
Enter(held, t, holder) == [u \in Terminals |-> held[u] \union {h \in {holder} : u = t}]

-----------------------------------------------------------------------------
(* VirtualTerminal and the helpers of Display *)

CurrentVt == vt.active

\* VT_OPENQRY is the first terminal nobody has open, or else none is valid.
SetUpNewVt(held) ==
  LET free == {t \in Terminals : held[t] = {}}
  IN IF free = {} THEN vt.active ELSE Min(free)

IsTtyInUse(sessions, t) == \E s \in sessions : s.tty = t /\ s.state # "closing"

\* Mutant of FetchAvailableVt: the terminal shown is taken as it is.
FetchInitialOrShown(sessions, held) ==
  IF ~IsTtyInUse(sessions, InitialVt) THEN InitialVt ELSE CurrentVt

FetchAvailableVt(sessions, held) ==
  IF ~IsTtyInUse(sessions, InitialVt) THEN InitialVt
  ELSE IF ~IsTtyInUse(sessions, CurrentVt) THEN CurrentVt
  ELSE SetUpNewVt(held)

\* Mutant of TerminalId: the display's own terminal in any case.
OwnTerminal(ds, d) == ds[d].terminal

TerminalId(ds, d) == IF ds[d].auth # "idle" THEN ds[d].sessionTerminal ELSE ds[d].terminal

\* jumpToVt: a number that is no terminal's is refused by the kernel.
JumpToVt(v, t) == IF t \in Terminals THEN [v EXCEPT !.active = t] ELSE v

\* Greeter::start: XDG_VTNR is the display's terminal as it is answered then.
StartGreeter(ds, d) ==
  [ds EXCEPT ![d] = [@ EXCEPT !.greeter = "starting", !.greeterTerminal = TerminalId(ds, d)]]

\* Only on the daemon's X server is an x11 session without a display server of its own.
SessionTypes == IF type = "x11" THEN {"x11", "wayland"} ELSE {"wayland"}

\* startAuth: a new terminal when another compositor has to run.
StartAuth(ds, d, stage, session, held, reuse) ==
  LET new == IF type = "x11" THEN session = "wayland" ELSE ds[d].greeter # "none"
      t == IF new THEN SetUpNewVt(held) ELSE ds[d].terminal
  IN [ds EXCEPT ![d] = [@ EXCEPT !.auth = stage, !.session = session, !.sessionTerminal = t,
                                 !.reuse = reuse]]

DisplayAt(t) == [NewDisplay EXCEPT !.terminal = t]

\* Of the display, which differs with its server; only X runs at once.
NewTerminal(v, sessions) ==
  IF type = "x11" THEN SetUpNewVt(v.held) ELSE FetchAvailableVt(sessions, v.held)
WithServer(v, d, t) ==
  IF type = "x11" THEN [active |-> t, held |-> Enter(v.held, t, <<"server", d>>)] ELSE v

\* The ways to add a display to l, with logind's sessions and the terminals v:
\* Display, then displayServerStarted, which logs in or starts the greeter.
Creations(ds, l, v, sessions) ==
  LET t == NewTerminal(v, sessions)
      Own(d) == [ds EXCEPT ![d] = DisplayAt(t)]
      Made(d, started, n) ==
        [ds |-> started, list |-> Append(l, d), vt |-> WithServer(v, d, t), logins |-> n]
      absent == {d \in Numbers : ds[d].terminal = 0}
  IN IF auto THEN {Made(d, StartAuth(Own(d), d, "auto", s, WithServer(v, d, t).held, "none"),
                          logins + 1) : d \in absent, s \in SessionTypes}
             ELSE {Made(d, StartGreeter(Own(d), d), logins) : d \in absent}

Init ==
  /\ type \in Types
  /\ auto \in Autologin
  /\ disp = [d \in Numbers |-> NewDisplay]
  /\ list = <<>>
  /\ fallback = {}
  /\ vt = [active |-> InitialVt, held |-> [t \in Terminals |-> {}]]
  /\ logind = {}
  /\ logins = 0

-----------------------------------------------------------------------------
(* The seat *)

\* A seat's first display, or one more for switchToGreeter.
CreateDisplay ==
  /\ \E c \in Creations(disp, list, vt, logind) :
       /\ c.logins <= MaxLogins
       /\ disp' = c.ds /\ list' = c.list /\ vt' = c.vt /\ logins' = c.logins
  /\ UNCHANGED <<type, auto, fallback, logind>>

Helpers(d) == {<<"greeter", d>>, <<"session", d>>}

\* Who has a terminal open and logind's sessions without display d; when the
\* session's helper was killed its compositor runs on, in a session that is closing.
Without(held, d, killed) ==
  LET left == Leave(held, Helpers(d) \union {<<"server", d>>})
      t == disp[d].sessionTerminal
  IN IF killed THEN Enter(left, t, <<"orphan", t>>) ELSE left
LogindWithout(d, killed) ==
  {s \in logind : s.of \notin Helpers(d)} \union
  {[tty |-> s.tty, of |-> <<"orphan", s.tty>>, state |-> "closing"] :
     s \in {s \in logind : killed /\ s.of = <<"session", d>>}}

\* A display forgets that the session of d, which it reuses, has gone.
Forget(ds, d) ==
  [n \in Numbers |-> IF ds[n].reuse = d THEN [ds[n] EXCEPT !.reuse = "gone"] ELSE ds[n]]

\* removeDisplay.  A display is in the list once.
Removal(d, v, killed) ==
  [ds |-> [disp EXCEPT ![d] = NewDisplay], list |-> RemoveFirst(list, d),
   vt |-> [active |-> v.active, held |-> Without(v.held, d, killed)], logins |-> logins]
Replacements(gone, sessions) == Creations(gone.ds, gone.list, gone.vt, sessions)

Becomes(c, d) ==
  /\ c.logins <= MaxLogins
  /\ disp' = Forget(c.ds, d) /\ list' = c.list /\ logins' = c.logins

\* displayStopped: a display is created if none is left; shown is the terminal
\* of the reused session, which may have ended, or that of the last display.
DisplayStopped(d, v, killed) ==
  LET gone == Removal(d, v, killed)
      r == disp[d].reuse
      reused == {s.tty : s \in {s \in logind : s.of = <<"session", r>>}}
  IN /\ logind' = LogindWithout(d, killed)
     /\ \E c \in IF gone.list # <<>> THEN {gone} ELSE Replacements(gone, logind') :
          /\ Becomes(c, d)
          /\ vt' = IF r # "none" THEN JumpToVt(c.vt, IF reused = {} THEN 0 ELSE Min(reused))
                   ELSE IF gone.list = <<>> THEN c.vt
                   ELSE JumpToVt(c.vt, TerminalId(gone.ds, Last(gone.list)))
     /\ fallback' = fallback \ {d}
     /\ UNCHANGED <<type, auto>>

TypeOf(d) == IF d \in fallback THEN "x11-user" ELSE type

\* The greeter's helper could not start the display server: no jump; in place of a
\* wayland display one of x11-user.  When that was the last the daemon exits, to be
\* started again with an empty list.
DisplayServerFails(d) ==
  /\ type # "x11" /\ disp[d].greeter = "running"
  /\ LET gone == Removal(d, vt, FALSE)
     IN /\ logind' = LogindWithout(d, FALSE)
        /\ \E c \in IF TypeOf(d) = "x11-user" THEN {gone} ELSE Replacements(gone, logind') :
             /\ Becomes(c, d) /\ vt' = c.vt
             /\ fallback' = IF TypeOf(d) = "x11-user" THEN fallback \ {d}
                            ELSE (fallback \ {d}) \union {Last(c.list)}
  /\ UNCHANGED <<type, auto>>

-----------------------------------------------------------------------------
(* The greeter and the login of a display *)

\* A helper may be killed while what it ran has the terminal open.
MayBeOrphaned ==
  Cardinality({t \in Terminals : <<"orphan", t>> \in vt.held[t]}) < MaxOrphans

\* A helper has ended, and what it ran with it unless it was killed.
HelperLeaves(who, t, killed) ==
  LET left == Leave(vt.held, {who})
  IN /\ vt' = [vt EXCEPT !.held = IF killed THEN Enter(left, t, <<"orphan", t>>) ELSE left]
     /\ logind' = {s \in logind : s.of # who} \union
                  IF killed THEN {[tty |-> t, of |-> <<"orphan", t>>, state |-> "closing"]} ELSE {}

Opened(t, who) == logind' = logind \union {[tty |-> t, of |-> who, state |-> "active"]}
Shows(t, who) == vt' = [active |-> t, held |-> Enter(vt.held, t, who)]

\* The greeter's helper passes PAM; on the daemon's X server that is all.
GreeterOpens(d) ==
  /\ disp[d].greeter = "starting"
  /\ disp' = [disp EXCEPT ![d].greeter = IF type = "x11" THEN "running" ELSE "opened"]
  /\ Opened(disp[d].greeterTerminal, <<"greeter", d>>)
  /\ UNCHANGED <<type, auto, list, fallback, vt, logins>>

\* Its child takes the terminal and makes it the one shown.
GreeterTakesTerminal(d) ==
  /\ disp[d].greeter = "opened"
  /\ disp' = [disp EXCEPT ![d].greeter = "running"]
  /\ Shows(disp[d].greeterTerminal, <<"greeter", d>>)
  /\ UNCHANGED <<type, auto, list, fallback, logind, logins>>

\* Or cannot: ttyFailed goes back to the initial terminal and stops the display.
GreeterTtyFails(d) ==
  /\ disp[d].greeter = "opened"
  /\ DisplayStopped(d, JumpToVt(vt, InitialVt), FALSE)

\* Or the helper ends with HELPER_SESSION_ERROR, and failed stops the display.
GreeterFails(d) ==
  /\ disp[d].greeter # "none"
  /\ DisplayStopped(d, vt, FALSE)

\* The greeter ends five seconds after the start of a session, or by itself in any
\* other way, which nobody acts on; a compositor whose helper was killed runs on.
GreeterEnds(d) ==
  /\ disp[d].greeter # "none"
  /\ disp' = [disp EXCEPT ![d].greeter = "none"]
  /\ \E killed \in {FALSE, type # "x11" /\ disp[d].greeter = "running" /\ MayBeOrphaned} :
       HelperLeaves(<<"greeter", d>>, disp[d].greeterTerminal, killed)
  /\ UNCHANGED <<type, auto, list, fallback, logins>>

\* Mutant of MayLogIn: a login is not refused while another is going on.
GreeterRuns(d) == disp[d].greeter = "running"

MayLogIn(d) == disp[d].greeter = "running" /\ disp[d].auth = "idle"

\* The sessions logind calls online: they run, and are not shown.
Online ==
  {n \in Numbers : disp[n].auth = "running" /\ disp[n].reuse = "none"
                   /\ vt.active # disp[n].sessionTerminal}

LogsIn(d) ==
  /\ MayLogIn(d) /\ logins < MaxLogins
  /\ \E session \in SessionTypes, r \in {"none"} \union Online :
       disp' = StartAuth(disp, d, "asking", session, vt.held, r)
  /\ logins' = logins + 1
  /\ UNCHANGED <<type, auto, list, fallback, vt, logind>>

\* A refused login; after a refused autologin the greeter starts while the
\* helper that was refused is still there.
Refused(d) ==
  /\ disp[d].auth \in {"auto", "asking"}
  /\ LET ds == IF disp[d].auth = "auto" THEN StartGreeter(disp, d) ELSE disp
     IN disp' = [ds EXCEPT ![d].auth = "refused"]
  /\ UNCHANGED <<type, auto, list, fallback, vt, logind, logins>>

\* No login is going on; what the last one had is not read again.
Idle(x) == [x EXCEPT !.auth = "idle", !.session = "none", !.sessionTerminal = 0]

\* The helper of a login exits with 1, which is HELPER_AUTH_ERROR: refused, or with
\* the code of a session that has ended.  The display stays with what else it has.
EndsAsRefused(d) ==
  /\ disp[d].auth \in {"refused", "opened", "running"}
  /\ disp' = Forget([disp EXCEPT ![d] = Idle(@)], d)
  /\ HelperLeaves(<<"session", d>>, disp[d].sessionTerminal, FALSE)
  /\ UNCHANGED <<type, auto, list, fallback, logins>>

SessionOpens(d) ==
  /\ disp[d].auth \in {"auto", "asking"} /\ disp[d].reuse = "none"
  /\ disp' = [disp EXCEPT ![d].auth = "opened"]
  /\ Opened(disp[d].sessionTerminal, <<"session", d>>)
  /\ UNCHANGED <<type, auto, list, fallback, vt, logins>>

\* The session runs on the daemon's X server, or brings a display server.
OnDaemonsServer(d) == type = "x11" /\ disp[d].session = "x11"

SessionTakesTerminal(d) ==
  /\ disp[d].auth = "opened"
  /\ disp' = [disp EXCEPT ![d].auth = "running"]
  /\ IF OnDaemonsServer(d) THEN UNCHANGED vt
                           ELSE Shows(disp[d].sessionTerminal, <<"session", d>>)
  /\ UNCHANGED <<type, auto, list, fallback, logind, logins>>

\* With any other code: a session has ended, one was accepted that is reused, for
\* which there is nothing to start, or the helper failed on the way.
SessionEnds(d) ==
  /\ disp[d].auth # "idle"
  /\ DisplayStopped(d, vt, FALSE)

\* Its helper dies: nobody waits for the compositor.
SessionHelperKilled(d) ==
  /\ disp[d].auth = "running" /\ ~OnDaemonsServer(d) /\ MayBeOrphaned
  /\ DisplayStopped(d, vt, TRUE)

-----------------------------------------------------------------------------
(* Others *)

OrphanEnds(t) ==
  /\ vt' = [vt EXCEPT !.held = Leave(vt.held, {<<"orphan", t>>})]
  /\ logind' = {s \in logind : s.of # <<"orphan", t>>}
  /\ logind' # logind
  /\ UNCHANGED <<type, auto, list, fallback, disp, logins>>

\* A getty asks for a name where nobody has the terminal open; logind has a session
\* there from the login to the end of the session.
OtherOpens(t) ==
  /\ vt.held[t] = {}
  /\ vt' = [vt EXCEPT !.held = Enter(vt.held, t, <<"other", t>>)]
  /\ UNCHANGED <<type, auto, list, fallback, disp, logind, logins>>

OtherLogsIn(t) ==
  /\ <<"other", t>> \in vt.held[t]
  /\ Opened(t, <<"other", t>>)
  /\ logind' # logind
  /\ UNCHANGED <<type, auto, list, fallback, disp, vt, logins>>

OtherLogsOut(t) ==
  /\ logind' = {s \in logind : s.of # <<"other", t>>}
  /\ logind' # logind
  /\ UNCHANGED <<type, auto, list, fallback, disp, vt, logins>>

OtherCloses(t) ==
  /\ <<"other", t>> \in vt.held[t] /\ \A s \in logind : s.of # <<"other", t>>
  /\ vt' = [vt EXCEPT !.held = Leave(vt.held, {<<"other", t>>})]
  /\ UNCHANGED <<type, auto, list, fallback, disp, logind, logins>>

\* Somebody at the seat changes to a terminal in use.
Switches(t) ==
  /\ vt.held[t] # {} /\ vt.active # t
  /\ vt' = [vt EXCEPT !.active = t]
  /\ UNCHANGED <<type, auto, list, fallback, disp, logind, logins>>

GreeterStep(d) ==
  \/ GreeterOpens(d) \/ GreeterTakesTerminal(d) \/ GreeterTtyFails(d) \/ GreeterFails(d)
  \/ GreeterEnds(d) \/ DisplayServerFails(d)
LoginStep(d) ==
  \/ LogsIn(d) \/ Refused(d) \/ EndsAsRefused(d) \/ SessionOpens(d)
  \/ SessionTakesTerminal(d) \/ SessionEnds(d) \/ SessionHelperKilled(d)
OtherStep(t) == OtherOpens(t) \/ OtherLogsIn(t) \/ OtherLogsOut(t) \/ OtherCloses(t)

Next ==
  \/ CreateDisplay
  \/ \E d \in Numbers : GreeterStep(d) \/ LoginStep(d)
  \/ \E t \in Others : OtherStep(t)
  \/ \E t \in Terminals : OrphanEnds(t) \/ Switches(t)

Spec == Init /\ [][Next]_vars

-----------------------------------------------------------------------------
(* Properties *)

\* A terminal that is in use is not given to another display or session, as long
\* as one stays free.  For the session of a login and for the daemon's own X server
\* in use is what anyone has open (setUpNewVt asks the kernel).  For a display whose
\* greeter brings its compositor it is what logind has a session on (fetchAvailableVt):
\* that may be a terminal where a getty still asks for a name, or a compositor without
\* its helper runs on; the compositor or session of another display is never there.
TakenIsNotGivenAgain ==
  [][(\E t \in Terminals : vt.held[t] = {} /\ vt'.held[t] = {}) =>
       \A d \in Numbers :
         LET x == disp[d]  y == disp'[d]
             own == Helpers(d) \union {<<"server", d>>}
             unseen == {h \in ({"orphan"} \X Terminals) \union ({"other"} \X Others) :
                          h[1] = "other" => \A s \in logind' : s.of # h}
         IN /\ y.terminal \notin {x.terminal, 0} =>
                 vt'.held[y.terminal] \subseteq own \union (IF type = "x11" THEN {} ELSE unseen)
            /\ y.sessionTerminal \notin {x.sessionTerminal, y.terminal, 0} =>
                 vt'.held[y.sessionTerminal] \subseteq own]_vars

\* A session that brings its display server is in one place for all three: the
\* only terminal the kernel says it has open is the only one logind has it on
\* and the one the display answers with (terminalId, which the jump uses).
ViewsAgree ==
  \A d \in Numbers : disp[d].auth = "running" /\ ~OnDaemonsServer(d) =>
    LET me == <<"session", d>>
        t == TerminalId(disp, d)
    IN /\ {u \in Terminals : me \in vt.held[u]} = {t}
       /\ {s \in logind : s.of = me} = {[tty |-> t, of |-> me, state |-> "active"]}

\* When a display stops and others stay, what is shown next is a terminal where
\* the last of them has its X server, its greeter or its session, running or about to.
\* Excepted are a last display that waits for the answer to a login, which is looked
\* for where the session may come to be, and one that has nothing left: its greeter
\* ended by itself, or its session with code 1, and no handler removes it.  Nothing is
\* shown for a display that goes since its display server failed.
JumpLands ==
  [][(/\ Len(list') < Len(list)
      /\ \E d \in Numbers : /\ disp[d].terminal # 0 /\ disp'[d].terminal = 0
                            /\ disp[d].reuse = "none"
                            /\ ~DisplayServerFails(d)) =>
       LET e == disp'[Last(list')]
       IN \/ e.auth \in {"auto", "asking", "refused"}
          \/ <<"server", Last(list')>> \in vt'.held[vt'.active]
          \/ e.greeter # "none" /\ e.greeterTerminal = vt'.active
          \/ e.auth \in {"opened", "running"} /\ e.sessionTerminal = vt'.active
          \/ type # "x11" /\ e.greeter = "none" /\ e.auth = "idle"]_vars
=============================================================================
