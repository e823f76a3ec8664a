---------------------------- MODULE SessionStarter ----------------------------
(***************************************************************************)
(* sddm-helper-start-wayland and sddm-helper-start-x11user: a process that  *)
(* starts a display server as the user, waits until the server can be       *)
(* reached and then starts the greeter or the session ("client") in it.     *)
(*                                                                         *)
(* The wayland starter watches the runtime directory for a socket with a    *)
(* timer of 15 seconds; the X11 starter reads the display's number from a   *)
(* pipe, starts the client from the signal that announces it, and only      *)
(* then writes the cookie and runs the setup scripts.  Both end by way of   *)
(* aboutToQuit, and what they leave before the event loop runs has no       *)
(* effect on it: QCoreApplication::exit and quit do nothing there.          *)
(***************************************************************************)
EXTENDS Integers

VARIABLE starter

Stages == {"off", "starting", "number", "cookie", "setup", "loop",
           "stopClient", "stopServer", "stopScript", "exited"}

NoStarter ==
  [kind |-> "wayland", pc |-> "off", code |-> "SUCCESS",
   term |-> FALSE,       \* SIGTERM was received
   killed |-> FALSE,     \* by SIGKILL
   watch |-> "Stopped",  \* WaylandSocketWatcher::m_status
   timer |-> FALSE,      \* its timer runs
   heard |-> FALSE,      \* its signals are connected
   socket |-> FALSE,     \* the compositor's socket exists
   cookie |-> "empty",   \* what the X server's Xauthority file holds
   slow |-> FALSE,       \* a setup script was killed, its end not yet noticed
   server |-> "none", client |-> "none"]

\* A child process: not started, running, ended well or badly and not reaped, gone.
Children == {"none", "up", "ended", "failed", "gone"}

InLoop == starter.pc = "loop"

\* QCoreApplication::exit from the loop: aboutToQuit stops what runs.
Quit(s, code) ==
  [s EXCEPT !.code = code, !.timer = FALSE,
            !.pc = IF s.kind = "wayland" THEN "stopClient" ELSE "stopServer"]

-----------------------------------------------------------------------------
(* The wayland starter *)

\* Mutant of StartWayland: the timer is armed only once the directory is seen to change.
StartWaylandUntimed ==
  /\ starter.pc = "starting" /\ starter.kind = "wayland"
  /\ \/ starter' = [starter EXCEPT !.pc = "exited", !.code = "DISPLAYSERVER_ERROR"]
     \/ \E watchable \in BOOLEAN :
          starter' = [starter EXCEPT !.pc = "loop", !.server = "up", !.heard = watchable,
                                     !.watch = IF watchable THEN "Stopped" ELSE "Failed"]

\* startCompositor and startGreeter: the watcher starts first, its timer even
\* when the directory cannot be watched; startGreeter then finds it failed and
\* emits failed before the event loop runs, and connects nothing.
StartWayland ==
  /\ starter.pc = "starting" /\ starter.kind = "wayland"
  /\ \/ starter' = [starter EXCEPT !.pc = "exited", !.code = "DISPLAYSERVER_ERROR"]
     \/ \E watchable \in BOOLEAN :
          starter' = [starter EXCEPT !.pc = "loop", !.server = "up", !.timer = TRUE,
                                     !.heard = watchable,
                                     !.watch = IF watchable THEN "Stopped" ELSE "Failed"]

\* directoryChanged with the socket there: the greeter is started and the
\* watcher stopped.  A greeter that cannot be executed is never noticed.
SocketFound ==
  /\ InLoop /\ starter.heard /\ starter.socket
  /\ starter.watch = "Stopped" /\ starter.client = "none"
  /\ \E c \in {"up", "gone"} :
       starter' = [starter EXCEPT !.timer = FALSE, !.client = c]

\* The watcher's timeout: failed reaches the application only when connected.
WatchTimesOut ==
  /\ InLoop /\ starter.timer
  /\ LET s == [starter EXCEPT !.timer = FALSE, !.watch = "Failed"]
     IN starter' = IF starter.heard THEN Quit(s, "SESSION_ERROR") ELSE s

-----------------------------------------------------------------------------
(* The X11 starter *)

\* XOrgUserHelper::start up to the server: no Xauthority file is fatal, no
\* server makes it return false, which main ignores.
StartX11 ==
  /\ starter.pc = "starting" /\ starter.kind = "x11"
  /\ starter' \in {[starter EXCEPT !.pc = "exited", !.code = "CRASH"],
                   [starter EXCEPT !.pc = "loop"],
                   [starter EXCEPT !.pc = "number", !.server = "up"]}

\* The display number is read, or the pipe closed by the server's end;
\* displayChanged starts the client at once.
ReadNumber ==
  /\ starter.pc = "number"
  /\ starter' \in IF starter.server = "up"
                    THEN {[starter EXCEPT !.pc = "cookie", !.client = c] : c \in {"up", "gone"}}
                    ELSE {[starter EXCEPT !.pc = "loop"]}

\* writeCookieToFile: the file is truncated, then two entries are added, one
\* for this host and one for any; a failure may leave the first alone.
WriteCookieToFile == {[ok |-> TRUE, holds |-> "both"], [ok |-> FALSE, holds |-> "empty"],
                      [ok |-> FALSE, holds |-> "local"]}

\* addCookie; when it fails the scripts are not run.
WriteCookie ==
  /\ starter.pc = "cookie"
  /\ \E w \in WriteCookieToFile :
       starter' = [starter EXCEPT !.pc = IF w.ok THEN "setup" ELSE "loop", !.cookie = w.holds]

\* startDisplayCommand waits for both scripts; a script that takes too long is
\* killed, and its end is noticed in the loop.
RunSetup ==
  /\ starter.pc = "setup"
  /\ \E slow \in BOOLEAN : starter' = [starter EXCEPT !.pc = "loop", !.slow = slow]

SlowScriptReaped ==
  /\ InLoop /\ starter.slow
  /\ starter' = Quit([starter EXCEPT !.slow = FALSE], "SUCCESS")

-----------------------------------------------------------------------------
(* The loop and its end, common to both *)

\* QProcess::finished of the server: only a bad end makes the starter quit.
ServerReaped ==
  /\ InLoop /\ starter.server \in {"ended", "failed"}
  /\ LET s == [starter EXCEPT !.server = "gone"]
     IN starter' = IF starter.server = "failed" THEN Quit(s, "SUCCESS") ELSE s

ClientReaped ==
  /\ InLoop /\ starter.client \in {"ended", "failed"}
  /\ starter' = Quit([starter EXCEPT !.client = "gone"], "SUCCESS")

\* sigtermReceived: exit(0) in one starter, exit(-1) in the other.
Terminated ==
  /\ InLoop /\ starter.term
  /\ starter' = Quit([starter EXCEPT !.term = FALSE],
                     IF starter.kind = "wayland" THEN "SUCCESS" ELSE "TERM")

\* Mutant of StopClient: only a running server is stopped.
LeaveClient ==
  /\ starter.pc = "stopClient"
  /\ starter' = [starter EXCEPT !.pc = "stopServer"]

\* stopProcess(m_greeterProcess): terminated, and killed after five seconds.
StopClient ==
  /\ starter.pc = "stopClient"
  /\ starter' = [starter EXCEPT !.pc = "stopServer",
                                !.client = IF @ = "none" THEN @ ELSE "gone"]

\* The server in the same way.
StopServer ==
  /\ starter.pc = "stopServer"
  /\ starter' = [starter EXCEPT
       !.pc = IF starter.kind = "x11" /\ starter.server # "none" THEN "stopScript" ELSE "exited",
       !.server = IF @ = "none" THEN @ ELSE "gone",
       !.client = IF starter.kind = "x11" /\ starter.server = "none" /\ @ # "none"
                    THEN "gone" ELSE @]

\* displayFinished runs the stop script; then the client, a child of the
\* application, is killed as that is destroyed.
StopScript ==
  /\ starter.pc = "stopScript"
  /\ starter' = [starter EXCEPT !.pc = "exited", !.client = IF @ = "none" THEN @ ELSE "gone"]

StarterStep ==
  \/ StartWayland \/ SocketFound \/ WatchTimesOut
  \/ StartX11 \/ ReadNumber \/ WriteCookie \/ RunSetup \/ SlowScriptReaped
  \/ ServerReaped \/ ClientReaped \/ Terminated \/ StopClient \/ StopServer
  \/ StopScript

-----------------------------------------------------------------------------
(* What the children do by themselves *)

SocketAppears ==
  /\ starter.kind = "wayland" /\ starter.server = "up" /\ ~starter.socket
  /\ starter' = [starter EXCEPT !.socket = TRUE]

ServerEnds ==
  /\ starter.server = "up"
  /\ \E how \in {"ended", "failed"} : starter' = [starter EXCEPT !.server = how, !.socket = FALSE]

ClientEnds ==
  /\ starter.client = "up"
  /\ starter' = [starter EXCEPT !.client = "ended"]

ChildStep == SocketAppears \/ ServerEnds \/ ClientEnds

-----------------------------------------------------------------------------
(* Properties *)

\* A starter that was not killed leaves neither the server nor the client
\* running, whichever of them, the watcher, a script or SIGTERM ended it.
NoOrphans ==
  (starter.pc = "exited" /\ ~starter.killed) =>
     starter.server # "up" /\ starter.client # "up"

\* A wayland starter does not wait for ever for a compositor that makes no
\* socket: it starts its client or ends (WaylandSocketWatcher's timer).
WaitForSocketEnds ==
  (InLoop /\ starter.kind = "wayland" /\ starter.heard)
     ~> (starter.client # "none" \/ ~InLoop)
=============================================================================
