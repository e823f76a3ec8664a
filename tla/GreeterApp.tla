------------------------------ MODULE GreeterApp ------------------------------
(***************************************************************************)
(* sddm-greeter: GreeterApp with its views, GreeterProxy and the keyboard   *)
(* model, the daemon's SocketServer and PowerManager at the other end of    *)
(* the socket, and the screens Qt reports.                                  *)
(*                                                                         *)
(*   screens --> views (theme) --> GreeterProxy --> socket --> SocketServer *)
(*                  |                                            |          *)
(*                  +--> KeyboardModel --> X server         PowerManager    *)
(***************************************************************************)
EXTENDS XkbKeyboard, PowerManager, FiniteSets

CONSTANTS
  Screens,  \* outputs that may be plugged in
  None,     \* no screen, no exit code
  MaxEvents \* bound on what the user, the hardware and the daemon do

ASSUME GreeterAssumption == Screens # {} /\ None \notin Screens /\ MaxEvents \in Nat

VARIABLES
  greeter, \* the process and GreeterProxy
  views,   \* m_views: a view for each screen, in order
  screens, \* QGuiApplication::screens, the primary one first
  socket,  \* the local socket and SocketServer's end
  pressed, \* how often each power button was pressed
  spent    \* events so far

vars == <<keyboard, xserver, power, greeter, views, screens, socket, pressed, spent>>

\* The screen a view was made for and the one it is on.
View(s) == [screen |-> s, at |-> s, open |-> TRUE]

Primary == IF screens = <<>> THEN None ELSE Head(screens)

Init ==
  /\ KeyboardInit /\ PowerInit
  /\ greeter = [pc |-> "models", focus |-> None, can |-> {}, code |-> None]
  /\ views = <<>>
  /\ screens = <<CHOOSE s \in Screens : TRUE>>
  /\ socket = [up |-> FALSE, server |-> TRUE, toDaemon |-> <<>>, toGreeter |-> <<>>]
  /\ pressed = [a \in PowerActions |-> 0]
  /\ spent = 0

\* Something the program has no say in happens.
Event == spent < MaxEvents /\ spent' = spent + 1

Alive == greeter.pc # "exited"

\* The event loop runs and no call into xcb is under way.
InLoop == greeter.pc = "running" /\ keyboard.pc = "ready"

Exit(g, code) == [g EXCEPT !.pc = "exited", !.code = code]

\* What the end of the process takes with it.
HangUp == socket' = [socket EXCEPT !.up = FALSE, !.toGreeter = <<>>]

-----------------------------------------------------------------------------
(* Start-up *)

Models ==
  /\ greeter.pc = "models"
  /\ IF keyboard.pc = "ready"
       THEN greeter' = [greeter EXCEPT !.pc = "startup"] /\ UNCHANGED kbVars
       ELSE KeyboardConstructor /\ UNCHANGED greeter
  /\ UNCHANGED <<power, views, screens, socket, pressed, spent>>

\* The constructor of GreeterProxy.  Connecting and the message Connect are one
\* call; it may fail with a server that is there.
Proxy ==
  /\ greeter.pc = "startup"
  /\ \/ /\ socket.server
        /\ socket' = [socket EXCEPT !.up = TRUE, !.toDaemon = <<"Connect">>]
        /\ greeter' = [greeter EXCEPT !.pc = "numlock"]
     \/ UNCHANGED socket /\ greeter' = Exit(greeter, "failure")
  /\ UNCHANGED <<kbVars, power, views, screens, pressed, spent>>

\* The configured state of num lock.
SetNumlock ==
  /\ greeter.pc = "numlock"
  /\ greeter' = [greeter EXCEPT !.pc = "views"]
  /\ LET wanted == [keyboard.copy EXCEPT !.num = keyboard.numlock = "on"]
     IN IF keyboard.enabled /\ keyboard.numlock # "none" /\ wanted # keyboard.copy
          THEN Set(wanted) ELSE UNCHANGED kbVars
  /\ UNCHANGED <<power, views, screens, socket, pressed, spent>>

\* addViewForScreen.  A theme with an error is replaced by the embedded one in the
\* same view; the view on the primary screen asks for the focus.
AddView(vs, s) == Append(vs, View(s))

CreateViews ==
  /\ greeter.pc = "views" /\ keyboard.pc = "ready"
  /\ views' = [i \in DOMAIN screens |-> View(screens[i])]
  /\ greeter' = [greeter EXCEPT !.pc = "running", !.focus = Primary]
  /\ UNCHANGED <<kbVars, power, screens, socket, pressed, spent>>

-----------------------------------------------------------------------------
(* Screens.  Qt keeps the primary screen first and tells, in this order, of  *)
(* an added screen and the new primary, of a new primary and a removed       *)
(* screen; it moves the views of a removed screen before telling.            *)

\* activatePrimary: the first view on the primary screen.
ActivatePrimary(vs, primary) ==
  LET i == SelectInSeq(vs, LAMBDA v : v.at = primary)
  IN IF i = 0 THEN greeter.focus ELSE vs[i].screen

ScreenAdded ==
  /\ InLoop /\ Event
  /\ \E s \in Screens \ ToSet(screens), first \in BOOLEAN :
       LET primary == IF first \/ screens = <<>> THEN s ELSE Primary IN
       /\ screens' = IF first THEN <<s>> \o screens ELSE Append(screens, s)
       /\ views' = AddView(views, s)
       /\ greeter' = [greeter EXCEPT !.focus = IF primary = s THEN ActivatePrimary(views', s) ELSE @]
  /\ UNCHANGED <<kbVars, power, socket, pressed>>

\* Mutant of RemoveView: the view is looked for where Qt has moved it to.
RemoveByPlace(vs, s) == RemoveFirstMatch(vs, LAMBDA v : v.at = s)

\* removeViewForScreen, for the view that was made for the screen.
RemoveView(vs, s) == RemoveFirstMatch(vs, LAMBDA v : v.screen = s)

ScreenRemoved ==
  /\ InLoop /\ Event
  /\ \E s \in ToSet(screens) :
       LET left == RemoveFirst(screens, s)
           primary == IF left = <<>> THEN None ELSE Head(left)
           moved == [i \in DOMAIN views |->
                       IF views[i].at = s THEN [views[i] EXCEPT !.at = primary] ELSE views[i]]
       IN /\ screens' = left
          /\ views' = RemoveView(moved, s)
          /\ greeter' = [greeter EXCEPT !.focus =
                           IF left = <<>> THEN None
                           ELSE IF s = Primary THEN ActivatePrimary(views, primary) ELSE @]
  /\ UNCHANGED <<kbVars, power, socket, pressed>>

PrimaryChanged ==
  /\ InLoop /\ Event
  /\ \E s \in ToSet(screens) \ {Primary} :
       /\ screens' = <<s>> \o RemoveFirst(screens, s)
       /\ greeter' = [greeter EXCEPT !.focus = ActivatePrimary(views, s)]
  /\ UNCHANGED <<kbVars, power, views, socket, pressed>>

-----------------------------------------------------------------------------
(* The user, the keyboard and the theme *)

Press ==
  /\ InLoop /\ Event
  /\ \E a \in greeter.can :
       /\ pressed' = [pressed EXCEPT ![a] = @ + 1]
       /\ socket' = IF socket.up THEN [socket EXCEPT !.toDaemon = Append(@, a)] ELSE socket
  /\ UNCHANGED <<kbVars, power, greeter, views, screens>>

UseKeyboard ==
  /\ Alive /\ Event
  /\ \/ keyboard.platform = "xcb" /\ (Key \/ NewKeyboard)
     \/ (InLoop /\ ThemeSets)
  /\ UNCHANGED <<power, greeter, views, screens, socket, pressed>>

KeyboardLoop ==
  /\ Alive /\ (Checked \/ (InLoop /\ DispatchEvents))
  /\ UNCHANGED <<power, greeter, views, screens, socket, pressed, spent>>

-----------------------------------------------------------------------------
(* The socket *)

\* SocketServer::readyRead.
DaemonReads ==
  /\ socket.server /\ socket.toDaemon # <<>>
  /\ LET m == Head(socket.toDaemon)
         rest == [socket EXCEPT !.toDaemon = Tail(@)]
     IN \/ /\ m = "Connect"
           /\ \E answer \in [ToSet(power.backends) -> SUBSET PowerActions] :
                /\ \A b \in DOMAIN answer : answer[b] \in Answers(b)
                /\ socket' = IF socket.up
                     THEN [rest EXCEPT !.toGreeter =
                             Append(@, [type |-> "Capabilities", can |-> Capabilities(answer)])]
                     ELSE rest
           /\ UNCHANGED power
        \/ m \in PowerActions /\ CarryOut(m) /\ socket' = rest
  /\ UNCHANGED <<kbVars, greeter, views, screens, pressed, spent>>

\* SocketServer::loginSucceeded and loginFailed, for what the login path says.
DaemonAnswers ==
  /\ Event /\ socket.server /\ socket.up /\ greeter.pc = "running"
  /\ \E m \in {"LoginSucceeded", "LoginFailed"} :
       socket' = [socket EXCEPT !.toGreeter = Append(@, [type |-> m, can |-> {}])]
  /\ UNCHANGED <<kbVars, power, greeter, views, screens, pressed>>

\* SocketServer::stop: what has not been read is lost.
DaemonStops ==
  /\ Event /\ socket.server
  /\ socket' = [socket EXCEPT !.server = FALSE, !.up = FALSE, !.toDaemon = <<>>]
  /\ UNCHANGED <<kbVars, power, greeter, views, screens, pressed>>

\* GreeterProxy::readyRead.  A login that succeeded closes the views, and with
\* the last of them the application ends.
GreeterReads ==
  /\ InLoop /\ socket.toGreeter # <<>>
  /\ LET m == Head(socket.toGreeter)
         rest == [socket EXCEPT !.toGreeter = Tail(@)]
     IN \/ /\ m.type = "Capabilities" /\ socket' = rest
           /\ greeter' = [greeter EXCEPT !.can = m.can]
           /\ UNCHANGED views
        \/ m.type = "LoginFailed" /\ socket' = rest /\ UNCHANGED <<greeter, views>>
        \/ /\ m.type = "LoginSucceeded"
           /\ views' = [i \in DOMAIN views |-> [views[i] EXCEPT !.open = FALSE]]
           /\ IF \E i \in DOMAIN views : views[i].open
                THEN HangUp /\ greeter' = Exit(greeter, "ok")
                ELSE socket' = rest /\ UNCHANGED greeter
  /\ UNCHANGED <<kbVars, power, screens, pressed, spent>>

\* Mutant of SocketDisconnected: nothing is connected to the signal.
IgnoreDisconnect ==
  /\ InLoop /\ ~socket.up /\ socket.toGreeter = <<>>
  /\ UNCHANGED vars

\* socketDisconnected, once everything has been read, quits.
SocketDisconnected ==
  /\ InLoop /\ ~socket.up /\ socket.toGreeter = <<>>
  /\ greeter' = Exit(greeter, "ok")
  /\ UNCHANGED <<kbVars, power, views, screens, socket, pressed, spent>>

\* SIGTERM and SIGINT.
Signal ==
  /\ InLoop /\ Event
  /\ greeter' = Exit(greeter, "-1") /\ HangUp
  /\ UNCHANGED <<kbVars, power, views, screens, pressed>>

-----------------------------------------------------------------------------

Startup == Models \/ Proxy \/ SetNumlock \/ CreateViews
Loop == KeyboardLoop \/ GreeterReads \/ SocketDisconnected

Next ==
  \/ Startup \/ Loop
  \/ ScreenAdded \/ ScreenRemoved \/ PrimaryChanged
  \/ Press \/ UseKeyboard \/ Signal
  \/ DaemonReads \/ DaemonAnswers \/ DaemonStops

\* The greeter's event loop and the daemon's never stop taking what is there.
Spec ==
  /\ Init /\ [][Next]_vars
  /\ WF_vars(Startup) /\ WF_vars(KeyboardLoop) /\ WF_vars(GreeterReads)
  /\ WF_vars(SocketDisconnected) /\ WF_vars(DaemonReads)
-----------------------------------------------------------------------------
(* Properties *)

\* However screens come and go, each has one view, none is left of a screen that
\* is gone, and no view is shown where another one is.
ViewOnEveryScreen ==
  InLoop => /\ {views[i].screen : i \in DOMAIN views} = ToSet(screens)
            /\ Len(views) = Len(screens)
            /\ \A i \in DOMAIN views : views[i].at = views[i].screen

InFlight(a) == Cardinality({i \in DOMAIN socket.toDaemon : socket.toDaemon[i] = a})

\* A press of a power button is carried out once at most, by one service, and
\* nothing is carried out that was not pressed.
OnePressOneAction ==
  \A a \in PowerActions : power.carriedOut[a] + InFlight(a) <= pressed[a]

\* When the daemon is gone the greeter does not stay on the screen: however busy
\* the keyboard and the socket are, it ends.
EndsWithTheDaemon ==
  (Alive /\ greeter.pc \notin {"models", "startup"} /\ ~socket.up) ~> ~Alive

=============================================================================
