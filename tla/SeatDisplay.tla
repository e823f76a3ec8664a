----------------------------- MODULE SeatDisplay -----------------------------
(***************************************************************************)
(* The life cycle of a seat's displays: Seat, Display, Greeter, the display *)
(* servers and the helper processes, without what is said between them.    *)
(*                                                                         *)
(* The daemon has one thread, but its handlers nest: Display::stop waits    *)
(* for the processes it ends, QProcess reports them finished from inside   *)
(* the wait, and the slots connected to that stop the display once more,    *)
(* remove it, or create the next one.  "stack" holds the calls in progress; *)
(* a handler is entered from the event loop only when it is empty.         *)
(*                                                                         *)
(* A Display object that has been destroyed gives its number back, so the   *)
(* number of displays over time is not bounded.                            *)
(***************************************************************************)
EXTENDS Integers, Sequences, FiniteSets

CONSTANTS
  DefaultTypes, \* what General.DisplayServer may say; it is read again at every creation
  Autologin,    \* "off", "first" (Autologin.User) or "always" (Relogin too)
  MaxDisplays,  \* Display objects that may exist at one time
  MaxSwitches,  \* bound on calls of SeatManager::switchToGreeter
  MaxTries,     \* 3 in startDisplay
  TtyLimit      \* failures of the terminal the daemon survives, 5 in Display

Types == {"x11", "x11-user", "wayland"}

ASSUME SeatAssumption ==
  /\ DefaultTypes \subseteq Types /\ DefaultTypes # {}
  /\ Autologin \in {"off", "first", "always"}
  /\ MaxDisplays \in Nat \ {0} /\ MaxSwitches \in Nat
  /\ MaxTries \in Nat \ {0} /\ TtyLimit \in Nat

VARIABLES
  seat,   \* the displays in Seat::m_displays, whose order only Terminals needs
  disp,   \* the Display objects with their parts, by number
  stack,  \* the daemon's calls in progress, the innermost last
  app     \* DaemonApp: first, exit code; s_ttyFailures; switches so far

vars == <<seat, disp, stack, app>>

Displays == 1 .. MaxDisplays

\* How the greeter's and the user's sddm-helper end, as far as it matters.
GreeterCodes == {"SESSION_ERROR", "DISPLAYSERVER_ERROR", "TTY_ERROR", "OTHER"}
HelperCodes == {"AUTH_ERROR", "OTHER"}

\* The exit code of a daemon that followed a null pointer.
Crashed == 139

\* No display, and a display of the given type before its server starts.  A
\* helper's field is its exit code once it has ended and is not yet reaped; the
\* greeter's is "ended" while its Auth object waits for its deferred deletion.
\* "report" is the SESSION_STATUS the greeter's helper has sent and the daemon
\* not read, "reported" is Greeter::m_started, and "late" says that it was set
\* by a report read after onHelperFinished.
NoDisplay ==
  [use |-> "free", type |-> "x11", started |-> FALSE, blocked |-> FALSE,
   server |-> "none", serverStarted |-> FALSE, try |-> 0, retry |-> FALSE,
   greeter |-> "none", report |-> "none", reported |-> FALSE, late |-> FALSE,
   stopTimer |-> FALSE,
   helper |-> "none", autologin |-> FALSE]
NewDisplay(type) == [NoDisplay EXCEPT !.use = "alive", !.type = type]

Frame(at, d, what) == [at |-> at, display |-> d, what |-> what]

Top == stack[Len(stack)]
Callers == SubSeq(stack, 1, Len(stack) - 1)
At(place) == stack # <<>> /\ Top.at = place
GoTo(place) == Append(Callers, [Top EXCEPT !.at = place])

\* The event loop may turn: no call is in progress, removed displays are
\* deleted, and the daemon has neither been told to exit nor crashed.
Idle == /\ stack = <<>> /\ app.exit = 0
        /\ \A d \in Displays : disp[d].use # "doomed"

-----------------------------------------------------------------------------
(* The calls the handlers make *)

\* Display::stop, which does nothing for a display that is not started.
Stop(d) == IF disp[d].started THEN <<Frame("stopGreeter", d, "stop")>> ELSE <<>>

\* The signal Display::stopped or Display::displayServerFailed reaches the seat.
Emit(d, signal) ==
  IF disp[d].blocked THEN <<>> ELSE <<Frame("remove", d, signal)>>

\* Seat::createDisplay with the configured types or with a given one.
CreateDefault == <<Frame("create", 0, "default")>>
CreateFallback == <<Frame("create", 0, "x11-user")>>

\* Mutant of GreeterReaped: m_started is left set.
GreeterReapedStarted(d, code, calls) ==
  /\ disp' = [disp EXCEPT ![d].greeter = "ended"]
  /\ stack' = calls
  /\ UNCHANGED app

\* Greeter::onHelperFinished, called from "calls".
GreeterReaped(d, code, calls) ==
  /\ disp' = [disp EXCEPT ![d].greeter = "ended", ![d].reported = FALSE]
  /\ stack' = calls \o CASE code = "DISPLAYSERVER_ERROR" -> Emit(d, "failed")
                         [] code \in {"TTY_ERROR", "SESSION_ERROR"} -> Stop(d)
                         [] OTHER -> <<>>
  /\ app' = IF code # "TTY_ERROR" THEN app
            ELSE [app EXCEPT !.ttyFailures = IF @ > TtyLimit THEN @ ELSE @ + 1,
                             !.exit = IF app.ttyFailures >= TtyLimit THEN 23 ELSE @]

\* Greeter::stop, called from "calls": the helper is terminated and waited for;
\* one that takes more than five seconds is killed and reaped later.  Without
\* a helper m_auth is null, and the daemon dies here.
StopGreeter(d, calls) ==
  \/ /\ ~disp[d].reported
     /\ stack' = calls /\ UNCHANGED <<disp, app>>
  \/ /\ disp[d].reported /\ disp[d].greeter \in {"none", "ended"}
     /\ app' = [app EXCEPT !.exit = Crashed]
     /\ stack' = <<>> /\ UNCHANGED disp
  \/ /\ disp[d].reported /\ disp[d].greeter \notin {"none", "ended"}
     /\ GreeterReaped(d, IF disp[d].greeter = "running" THEN "OTHER"
                                                        ELSE disp[d].greeter, calls)
  \/ /\ disp[d].reported /\ disp[d].greeter = "running"
     /\ disp' = [disp EXCEPT ![d].greeter = "OTHER"]
     /\ stack' = calls /\ UNCHANGED app

\* Mutant of HelperReaped: the display goes on without the helper.
HelperReapedOnly(d, code, calls) ==
  /\ disp' = [disp EXCEPT ![d].helper = "none"]
  /\ stack' = calls

\* Auth::finished and Display::slotHelperFinished.
HelperReaped(d, code, calls) ==
  /\ disp' = [disp EXCEPT ![d].helper = "none"]
  /\ stack' = calls \o IF code = "AUTH_ERROR" THEN <<>> ELSE Stop(d)

-----------------------------------------------------------------------------
(* Starting a display *)

TriesAutologin == Autologin = "always" \/ (Autologin = "first" /\ app.first)

\* DisplayServer::started and Display::displayServerStarted.
ServerUp(r) ==
  [r EXCEPT !.server = IF r.type = "x11" THEN "up" ELSE "none",
            !.serverStarted = TRUE, !.started = TRUE, !.retry = FALSE]
WithGreeter(r) == [ServerUp(r) EXCEPT !.greeter = "starting"]
WithAutologin(r) == [ServerUp(r) EXCEPT !.helper = "auth", !.autologin = TRUE]

\* Mutant of StartFailed: the timer is armed for the first try only.
StartFailedOnce(r, server, try) ==
  [r EXCEPT !.server = server, !.try = try, !.retry = (try = 0)]

\* Seat::startDisplay after a failed start.
StartFailed(r, server, try) ==
  [r EXCEPT !.server = server, !.try = try, !.retry = (try < MaxTries)]

\* Seat::startDisplay on display d.  XorgDisplayServer::start fails at once
\* when it still has the QProcess of an earlier attempt, which stays when the
\* program could not be run ("broken") and goes when the server ran but gave
\* no display number.  The other display servers are started by the greeter's
\* helper and come up at once.
StartDisplay(d, r, try) ==
  \/ /\ r.server = "none"
     /\ \/ disp' = [disp EXCEPT ![d] = WithGreeter(r)]
        \/ TriesAutologin /\ disp' = [disp EXCEPT ![d] = WithAutologin(r)]
     /\ app' = [app EXCEPT !.first = FALSE]
  \/ /\ r.type = "x11"
     /\ \E server \in IF r.server = "none" THEN {"none", "broken"} ELSE {"broken"} :
          disp' = [disp EXCEPT ![d] = StartFailed(r, server, try)]
     /\ UNCHANGED app

\* Seat::createDisplay.
CreateDisplay ==
  /\ At("create")
  /\ \E d \in Displays :
       /\ disp[d].use = "free" /\ \A e \in 1 .. d - 1 : disp[e].use # "free"
       /\ \E type \in IF Top.what = "default" THEN DefaultTypes ELSE {Top.what} :
            StartDisplay(d, NewDisplay(type), 1)
       /\ seat' = seat \cup {d}
  /\ stack' = Callers

-----------------------------------------------------------------------------
(* Stopping and removing a display: Display::stop, Seat::removeDisplay *)

DisplayStopsGreeter ==
  /\ At("stopGreeter")
  /\ StopGreeter(Top.display, GoTo("stopAuth"))
  /\ UNCHANGED seat

\* Auth::stop; a helper in a blocking call does not heed the signal and is
\* killed after five seconds.
DisplayStopsAuth ==
  /\ At("stopAuth")
  /\ LET d == Top.display
         r == disp[d].helper
     IN  \/ /\ r = "none"
            /\ stack' = GoTo("stopServer") /\ UNCHANGED disp
         \/ /\ r # "none"
            /\ HelperReaped(d, IF r \in HelperCodes THEN r ELSE "OTHER", GoTo("stopServer"))
         \/ /\ r \in {"auth", "refused", "session"}
            /\ disp' = [disp EXCEPT ![d].helper = "OTHER"]
            /\ stack' = GoTo("stopServer")
  /\ UNCHANGED <<seat, app>>

\* The display server's signals are blocked while it stops; then the flag is
\* reset and stopped emitted.
DisplayStopsServer ==
  /\ At("stopServer")
  /\ LET d == Top.display
     IN  /\ disp' = [disp EXCEPT ![d].server = IF @ \in {"up", "dead"} THEN "none" ELSE @,
                                 ![d].serverStarted = FALSE, ![d].started = FALSE]
         /\ stack' = Callers \o Emit(d, "stopped")
  /\ UNCHANGED <<seat, app>>

\* Mutant of RemoveDisplay: signals are not blocked.
RemoveDisplayUnblocked ==
  /\ At("remove")
  /\ seat' = seat \ {Top.display}
  /\ stack' = GoTo("removed") \o Stop(Top.display)
  /\ UNCHANGED <<disp, app>>

\* The first half of Seat::removeDisplay.
RemoveDisplay ==
  /\ At("remove")
  /\ seat' = seat \ {Top.display}
  /\ disp' = [disp EXCEPT ![Top.display].blocked = TRUE]
  /\ stack' = GoTo("removed") \o Stop(Top.display)
  /\ UNCHANGED app

\* Mutant of DisplayRemoved: the list is looked at before the display leaves it.
DisplayRemovedLooksFirst ==
  /\ At("removed")
  /\ disp' = [disp EXCEPT ![Top.display].blocked = FALSE, ![Top.display].use = "doomed"]
  /\ stack' = Callers \o
       CASE Top.what = "failed" /\ disp[Top.display].type # "x11-user" -> CreateFallback
         [] Top.what = "stopped" /\ seat \cup {Top.display} = {} -> CreateDefault
         [] OTHER -> <<>>
  /\ UNCHANGED <<seat, app>>

\* The rest of removeDisplay, then of displayStopped or of the slot connected
\* to displayServerFailed.
DisplayRemoved ==
  /\ At("removed")
  /\ disp' = [disp EXCEPT ![Top.display].blocked = FALSE, ![Top.display].use = "doomed"]
  /\ LET fallback == Top.what = "failed" /\ disp[Top.display].type # "x11-user"
     IN  /\ stack' = Callers \o
              CASE fallback -> CreateFallback
                [] Top.what = "stopped" /\ seat = {} -> CreateDefault
                [] OTHER -> <<>>
         /\ app' = IF Top.what = "failed" /\ ~fallback /\ seat = {}
                     THEN [app EXCEPT !.exit = 12] ELSE app
  /\ UNCHANGED seat

-----------------------------------------------------------------------------
(* What the event loop hands to the daemon *)

\* QTimer::singleShot in startDisplay; the timer dies with its display.
RetryTimer(d) ==
  /\ Idle /\ disp[d].use = "alive" /\ disp[d].retry
  /\ StartDisplay(d, disp[d], disp[d].try + 1)
  /\ UNCHANGED <<seat, stack>>

\* XorgDisplayServer::finished, and Display::stop by its signal stopped.
ServerFinished(d) ==
  /\ Idle /\ disp[d].server = "dead"
  /\ disp' = [disp EXCEPT ![d].server = "none", ![d].serverStarted = FALSE]
  /\ stack' = IF disp[d].serverStarted THEN Stop(d) ELSE <<>>
  /\ UNCHANGED <<seat, app>>

\* Greeter::onSessionStarted, when Auth reads the report: the socket is read for
\* as long as the Auth object exists, whatever became of the helper.  A helper
\* that waits for the reply goes on, or exits when its session has failed.
GreeterReports(d) ==
  /\ Idle /\ disp[d].report # "none" /\ disp[d].greeter # "none"
  /\ LET success == disp[d].report = "success"
     IN  disp' = [disp EXCEPT ![d].report = "none", ![d].reported = success,
                              ![d].late = success /\ disp[d].greeter = "ended",
                              ![d].greeter = CASE @ # "starting" -> @
                                               [] success -> "running"
                                               [] OTHER -> "SESSION_ERROR"]
  /\ UNCHANGED <<seat, stack, app>>

GreeterFinished(d) ==
  /\ Idle /\ disp[d].greeter \in GreeterCodes
  /\ GreeterReaped(d, disp[d].greeter, <<>>)
  /\ UNCHANGED seat

\* A login of the greeter's that startAuth accepts.
LogsIn(d) ==
  /\ Idle /\ disp[d].greeter = "running" /\ disp[d].helper = "none"
  /\ disp' = [disp EXCEPT ![d].helper = "auth"]
  /\ UNCHANGED <<seat, stack, app>>

\* slotAuthenticationFinished for a login that PAM refused; a refused
\* autologin brings up the greeter on the same display.
HelperRefused(d) ==
  /\ Idle /\ disp[d].helper = "auth"
  /\ disp' = [disp EXCEPT ![d].helper = "refused", ![d].autologin = FALSE,
                          ![d].greeter = IF disp[d].autologin THEN "starting" ELSE @]
  /\ UNCHANGED <<seat, stack, app>>

\* slotSessionStarted.
SessionStarts(d) ==
  /\ Idle /\ disp[d].helper = "auth"
  /\ disp' = [disp EXCEPT ![d].helper = "session", ![d].stopTimer = TRUE]
  /\ UNCHANGED <<seat, stack, app>>

\* The five-second timer of slotSessionStarted calls Greeter::stop.
GreeterStopTimer(d) ==
  /\ Idle /\ disp[d].stopTimer
  /\ disp' = [disp EXCEPT ![d].stopTimer = FALSE]
  /\ stack' = <<Frame("greeterStop", d, "stop")>>
  /\ UNCHANGED <<seat, app>>

GreeterStops ==
  /\ At("greeterStop")
  /\ StopGreeter(Top.display, Callers)
  /\ UNCHANGED seat

HelperFinished(d) ==
  /\ Idle /\ disp[d].helper \in HelperCodes
  /\ HelperReaped(d, disp[d].helper, <<>>)
  /\ UNCHANGED <<seat, app>>

\* SeatManager::switchToGreeter, asked for over D-Bus.
SwitchToGreeter ==
  /\ Idle /\ app.switches < MaxSwitches
  /\ app' = [app EXCEPT !.switches = @ + 1]
  /\ stack' = CreateDefault
  /\ UNCHANGED <<seat, disp>>

\* QObject::deleteLater: the destructors kill what still runs.
DestroyDisplay(d) ==
  /\ stack = <<>> /\ app.exit # Crashed /\ disp[d].use = "doomed"
  /\ disp' = [disp EXCEPT ![d] = NoDisplay]
  /\ UNCHANGED <<seat, stack, app>>

\* The deferred deletion of the greeter's Auth object; a report still in its
\* socket is never read.
DestroyGreeterAuth(d) ==
  /\ stack = <<>> /\ app.exit # Crashed /\ disp[d].greeter = "ended"
  /\ disp' = [disp EXCEPT ![d].greeter = "none", ![d].report = "none"]
  /\ UNCHANGED <<seat, stack, app>>

-----------------------------------------------------------------------------
(* Processes that go on or end by themselves, at any time *)

\* HelperApp::sessionOpened in the greeter's helper.
GreeterSendsReport(d) ==
  /\ disp[d].greeter = "starting" /\ disp[d].report = "none"
  /\ \E report \in {"success", "failure"} : disp' = [disp EXCEPT ![d].report = report]
  /\ UNCHANGED <<seat, stack, app>>

ServerDies(d) ==
  /\ disp[d].server = "up"
  /\ disp' = [disp EXCEPT ![d].server = "dead"]
  /\ UNCHANGED <<seat, stack, app>>

\* Only a greeter's helper that starts the display server or takes the
\* terminal itself can fail at that.
GreeterExits(d) ==
  /\ disp[d].greeter \in {"starting", "running"}
  /\ \E code \in IF disp[d].type = "x11" THEN {"SESSION_ERROR", "OTHER"} ELSE GreeterCodes :
       disp' = [disp EXCEPT ![d].greeter = code]
  /\ UNCHANGED <<seat, stack, app>>

\* AUTH_ERROR is the code of a refused login, and of a session that ends with 1.
HelperExits(d) ==
  /\ disp[d].helper \in {"auth", "refused", "session"}
  /\ \E code \in IF disp[d].helper = "auth" THEN {"OTHER"} ELSE HelperCodes :
       disp' = [disp EXCEPT ![d].helper = code]
  /\ UNCHANGED <<seat, stack, app>>

-----------------------------------------------------------------------------
(* Specification *)

Init ==
  /\ seat = {}
  /\ disp = [d \in Displays |-> NoDisplay]
  /\ stack = CreateDefault
  /\ app = [first |-> TRUE, exit |-> 0, ttyFailures |-> 0, switches |-> 0]

\* The next step of the innermost call.
CallGoesOn == CreateDisplay \/ DisplayStopsGreeter \/ DisplayStopsAuth \/ DisplayStopsServer
                \/ RemoveDisplay \/ DisplayRemoved \/ GreeterStops

Served(d) == RetryTimer(d) \/ ServerFinished(d) \/ GreeterReports(d) \/ GreeterFinished(d)
               \/ HelperFinished(d) \/ GreeterStopTimer(d)

FromUsers(d) == LogsIn(d) \/ HelperRefused(d) \/ SessionStarts(d)

Processes(d) == GreeterSendsReport(d) \/ ServerDies(d) \/ GreeterExits(d) \/ HelperExits(d)

Next == \/ CallGoesOn \/ SwitchToGreeter
        \/ \E d \in Displays : \/ Served(d) \/ FromUsers(d) \/ Processes(d)
                                \/ DestroyDisplay(d) \/ DestroyGreeterAuth(d)

Spec == Init /\ [][Next]_vars

\* Calls return, deferred deletions are done, and the event loop starves no
\* source: it serves all that is ready in every turn.
Fairness == /\ WF_vars(CallGoesOn)
            /\ \A d \in Displays : /\ WF_vars(DestroyDisplay(d))
                                   /\ WF_vars(DestroyGreeterAuth(d))
                                   /\ SF_vars(RetryTimer(d))
                                   /\ SF_vars(HelperFinished(d))

FairSpec == Spec /\ Fairness

-----------------------------------------------------------------------------
(* Properties *)

Uses == {"free", "alive", "doomed"}
Greeters == {"none", "starting", "running", "ended"} \cup GreeterCodes
Helpers == {"none", "auth", "refused", "session"} \cup HelperCodes

DisplayRecords ==
  [use : Uses, type : Types, started : BOOLEAN, blocked : BOOLEAN,
   server : {"none", "broken", "up", "dead"}, serverStarted : BOOLEAN,
   try : 0 .. MaxTries, retry : BOOLEAN, greeter : Greeters,
   report : {"none", "success", "failure"}, reported : BOOLEAN, late : BOOLEAN,
   stopTimer : BOOLEAN, helper : Helpers, autologin : BOOLEAN]

Frames == [at : {"create"}, display : {0}, what : {"default", "x11-user"}]
            \cup [at : {"stopGreeter", "stopAuth", "stopServer", "greeterStop"},
                  display : Displays, what : {"stop"}]
            \cup [at : {"remove", "removed"}, display : Displays, what : {"stopped", "failed"}]

AppRecords == [first : BOOLEAN, exit : {0, 12, 23, Crashed}, ttyFailures : 0 .. TtyLimit + 1,
               switches : 0 .. MaxSwitches]

\* The types of the seat's displays, the Display objects, the calls in progress and the
\* daemon's counters.
TypeOK ==
  /\ seat \subseteq Displays
  /\ disp \in [Displays -> DisplayRecords]
  /\ stack \in Seq(Frames)
  /\ app \in AppRecords

\* Whenever the event loop turns, the seat has a display, unless the daemon has
\* given up: however stops, failures and removals nest, the last display of a
\* seat is replaced (Seat::displayStopped and the slot on displayServerFailed).
SeatKeepsADisplay == stack = <<>> /\ app.exit = 0 => seat # {}

\* The seat never has more displays than were asked for: a display that
\* reports its end twice, or fails while it is stopped, is replaced once
\* (Display::stop emits stopped again when it was entered from inside itself).
OneDisplayPerRequest == Cardinality(seat) <= 1 + app.switches

\* Greeter::stop has a helper to stop whenever m_started is set, whatever order
\* the helper's report, its end and the daemon's handling of both come in.  The
\* one way to a set flag without a helper is a report that is read between
\* onHelperFinished and the deletion of the Auth object it came to.
GreeterStopIsSafe ==
  \A d \in Displays : disp[d].reported => disp[d].greeter \notin {"none", "ended"} \/ disp[d].late

\* The user's session or authentication ends other than by a refusal: its
\* display goes away, and makes room for a greeter (slotHelperFinished).
HelperEndRemovesDisplay ==
  \A d \in Displays : disp[d].helper = "OTHER" /\ app.exit = 0
                        ~> disp[d].use # "alive" \/ app.exit # 0

\* The seat comes up again and again, unless the daemon ends or a display has
\* used up its tries (startDisplay).
GivenUp(d) == disp[d].try = MaxTries /\ ~disp[d].started
SeatComesBack ==
  []<>(app.exit # 0 \/ \E d \in seat : disp[d].started \/ GivenUp(d))

=============================================================================
