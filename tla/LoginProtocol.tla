---------------------------- MODULE LoginProtocol ----------------------------
(***************************************************************************)
(* One seat's login path: the greeter's theme, the daemon's Display with   *)
(* its Auth object, and the sddm-helper process that runs PAM and then the *)
(* user's session.                                                         *)
(*                                                                         *)
(*   greeter  <-- toGreeter --   daemon   -- down -->  helper              *)
(*            --- toDaemon -->            <-- up[n] --                     *)
(*                                                                         *)
(* Each arrow is a local socket, first in first out.  Each handler of the  *)
(* daemon runs to completion on its event loop and is one action.          *)
(*                                                                         *)
(* Logins are numbered in the order they are asked for; the number stands  *)
(* for the user, the password and the session of that login, 0 for none.   *)
(* A login gets at most one helper process, with a connection of its own:  *)
(* a dead helper's data may still be unread when the next one connects.    *)
(***************************************************************************)
EXTENDS PamConversation

CONSTANTS
  PamMessages,    \* what PAM modules may say to the user
  Theme,          \* which of the two HasH themes the greeter loads
  Autologin,      \* "off", "first" (only the first display) or "always"
  ReuseSession,   \* Users.ReuseSession
  GreeterCrashes, \* whether the greeter may disappear by itself
  MaxLogins,      \* bound on logins, autologins included
  MaxDisplays,    \* bound on displays created one after the other
  MaxMessages,    \* bound on the messages of one PAM conversation
  MaxTyped        \* bound on the answers sent from one showing of the code field

Themes == {"hash-theme", "hash-sddm-theme"}

ASSUME ConstantsAssumption ==
  /\ PamMessages \subseteq Messages
  /\ Theme \in Themes
  /\ Autologin \in {"off", "first", "always"}
  /\ ReuseSession \in BOOLEAN /\ GreeterCrashes \in BOOLEAN
  /\ MaxLogins \in Nat /\ MaxDisplays \in Nat
  /\ MaxMessages \in Nat /\ MaxTyped \in Nat

VARIABLES
  greeter,    \* the theme: connected, form enabled, code field, what it was told
  toDaemon, toGreeter,
  display,    \* SDDM::Display: m_socket, m_pendingPrompt, m_passPhrase, ...
  auth,       \* SDDM::Auth and its AuthRequest
  helper,     \* the sddm-helper process
  up, down,   \* helpers to daemon, by login; daemon to the present helper
  count       \* numbers given so far: logins, requests, displays

vars == <<greeter, toDaemon, toGreeter, display, auth, helper, up, down, count>>

Logins == 1 .. MaxLogins

ExitCodes == {"SUCCESS", "AUTH_ERROR", "SESSION_ERROR", "OTHER_ERROR", "CRASH"}

NoMessage == [style |-> "none", text |-> "none"]

NoGreeter == [up |-> FALSE, form |-> FALSE, code |-> FALSE, shown |-> 0,
              typed |-> 0, told |-> "nothing"]
NewGreeter == [NoGreeter EXCEPT !.up = TRUE, !.form = TRUE]

NewAuth == [user |-> 0, path |-> 0, autologin |-> FALSE, conn |-> 0,
            request |-> 0, prompts |-> <<>>, finished |-> TRUE]

NoHelper == [pc |-> "off", login |-> 0, path |-> 0, autologin |-> FALSE,
             verdict |-> "none", data |-> NewPamData, msg |-> NoMessage,
             given |-> NoResponse, msgs |-> 0, request |-> 0, open |-> FALSE, code |-> "SUCCESS"]

NoDisplay == [running |-> FALSE, socket |-> FALSE, pending |-> 0, pass |-> 0,
              reuse |-> FALSE, timer |-> FALSE]

-----------------------------------------------------------------------------
(* Shared pieces of the handlers *)

\* Auth::isActive: the helper's QProcess has not been reaped yet.
Active == helper.pc # "off"

Send(msgs) == up' = [up EXCEPT ![helper.login] = @ \o msgs]

\* The daemon writes to the connection it holds; a dead helper's is lost.
Reply(msg) ==
  down' = IF auth.conn = helper.login THEN Append(down, msg) ELSE down

Tell(msg) == toGreeter' = IF greeter.up THEN Append(toGreeter, msg) ELSE toGreeter

\* Display::startAuth once its checks have passed.  The session's path is
\* set only when no session is reused, and never cleared.
StartHelper(n, reuse, autologin) ==
  /\ auth' = [auth EXCEPT !.user = n, !.path = IF reuse THEN @ ELSE n,
                          !.autologin = autologin]
  /\ helper' = [NoHelper EXCEPT !.pc = "starting", !.login = n,
                                !.autologin = autologin,
                                !.path = IF reuse THEN auth.path ELSE n]
  /\ down' = <<>>

ReuseChoices == IF ReuseSession THEN BOOLEAN ELSE {FALSE}

\* The first prompt slotRequestChanged cannot fill in; 0 when there is none.
Unrecognised(prompts) ==
  SelectInSeq(prompts, LAMBDA p : p.type \notin {"LOGIN_USER", "LOGIN_PASSWORD"})

\* Mutant of Filled: answers by position, the way SDDM did before prompts had types.
FilledByPosition(prompts) ==
  [i \in DOMAIN prompts |->
     [prompts[i] EXCEPT !.resp =
        IF i = 1 /\ Len(prompts) > 1 THEN [kind |-> "user", of |-> auth.user]
                                     ELSE [kind |-> "password", of |-> display.pass]]]

Filled(prompts) ==
  [i \in DOMAIN prompts |->
     [prompts[i] EXCEPT !.resp =
        CASE prompts[i].type = "LOGIN_USER" -> [kind |-> "user", of |-> auth.user]
          [] prompts[i].type = "LOGIN_PASSWORD" ->
               [kind |-> "password", of |-> display.pass]
          [] OTHER -> @]]

\* Mutant of Finish: the request is closed without sending the answers.
FinishUnsent(id, prompts) ==
  /\ auth' = [auth EXCEPT !.request = id, !.prompts = <<>>, !.finished = TRUE]
  /\ UNCHANGED down

\* AuthRequest::done and Auth::Private::requestFinished: the answers go to
\* the helper and the request is cleared.
Finish(id, prompts) ==
  /\ Reply([type |-> "REQUEST", prompts |-> prompts])
  /\ auth' = [auth EXCEPT !.request = id, !.prompts = <<>>, !.finished = TRUE]

\* Display::stop, and with it the Display: helper and greeter are terminated,
\* the sockets go away with the objects that own them.
StopDisplay ==
  /\ display' = NoDisplay
  /\ greeter' = NoGreeter
  /\ auth' = NewAuth
  /\ helper' = NoHelper
  /\ toDaemon' = <<>> /\ toGreeter' = <<>>
  /\ up' = [n \in Logins |-> <<>>] /\ down' = <<>>
  /\ UNCHANGED count

-----------------------------------------------------------------------------
(* The seat puts a new Display in place of the one that stopped *)

TriesAutologin ==
  Autologin = "always" \/ (Autologin = "first" /\ count.displays = 0)

\* startSocketServerAndGreeter; also when the autologin session is not found.
NewDisplayWithGreeter ==
  /\ ~display.running
  /\ count.displays < MaxDisplays
  /\ display' = [NoDisplay EXCEPT !.running = TRUE]
  /\ greeter' = NewGreeter
  /\ count' = [count EXCEPT !.displays = @ + 1]
  /\ UNCHANGED <<toDaemon, toGreeter, auth, helper, up, down>>

NewDisplayWithAutologin ==
  /\ ~display.running
  /\ count.displays < MaxDisplays
  /\ TriesAutologin
  /\ count.logins < MaxLogins
  /\ \E reuse \in ReuseChoices :
       /\ StartHelper(count.logins + 1, reuse, TRUE)
       /\ display' = [NoDisplay EXCEPT !.running = TRUE, !.reuse = reuse]
  /\ count' = [count EXCEPT !.displays = @ + 1, !.logins = @ + 1]
  /\ UNCHANGED <<greeter, toDaemon, toGreeter, up>>

-----------------------------------------------------------------------------
(* The greeter: GreeterProxy and the theme *)

\* startLogin.  hash-sddm-theme disables the form until a login fails.
SubmitLogin ==
  /\ greeter.up /\ greeter.form /\ ~greeter.code
  /\ count.logins < MaxLogins
  /\ \E what \in {"valid", "bad_session", "sddm_user"} :
       toDaemon' = Append(toDaemon, [type |-> "Login", n |-> count.logins + 1,
                                     what |-> what])
  /\ greeter' = [greeter EXCEPT !.form = (Theme = "hash-theme"),
                                !.told = "waiting"]
  /\ count' = [count EXCEPT !.logins = @ + 1]
  /\ UNCHANGED <<toGreeter, display, auth, helper, up, down>>

\* The code field submits by itself at six characters, and again at Enter.
AnswerPrompt ==
  /\ greeter.up /\ greeter.form /\ greeter.code
  /\ greeter.typed < MaxTyped
  /\ toDaemon' = Append(toDaemon, [type |-> "PromptResponse", of |-> greeter.shown])
  /\ greeter' = [greeter EXCEPT !.typed = @ + 1]
  /\ UNCHANGED <<toGreeter, display, auth, helper, up, down, count>>

GreeterReads(type) ==
  /\ toGreeter # <<>> /\ Head(toGreeter).type = type
  /\ toGreeter' = Tail(toGreeter)
  /\ UNCHANGED <<toDaemon, display, auth, helper, up, down, count>>

ReadLoginSucceeded ==
  /\ GreeterReads("LoginSucceeded")
  /\ greeter' = [greeter EXCEPT !.told = "succeeded"]

ReadLoginFailed ==
  /\ GreeterReads("LoginFailed")
  /\ greeter' = [greeter EXCEPT !.told = "failed", !.form = TRUE, !.code = FALSE]

ReadPromptRequest ==
  /\ GreeterReads("PromptRequest")
  /\ greeter' = [greeter EXCEPT !.code = TRUE, !.typed = 0,
                                !.shown = Head(toGreeter).id]

\* The greeter's process ends by itself; Greeter::onHelperFinished restarts
\* nothing for exit codes that are not the helper's own.
GreeterCrash ==
  /\ GreeterCrashes /\ greeter.up
  /\ greeter' = NoGreeter
  /\ toGreeter' = <<>>
  /\ UNCHANGED <<toDaemon, display, auth, helper, up, down, count>>

-----------------------------------------------------------------------------
(* The daemon: messages of the greeter *)

DaemonTakes(type) ==
  /\ toDaemon # <<>> /\ Head(toDaemon).type = type
  /\ toDaemon' = Tail(toDaemon)

LoginAsSddm ==
  /\ DaemonTakes("Login") /\ Head(toDaemon).what = "sddm_user"
  /\ display' = [display EXCEPT !.socket = TRUE]
  /\ Tell([type |-> "LoginFailed"])
  /\ UNCHANGED <<greeter, auth, helper, up, down, count>>

\* Mutant of LoginNotStarted: the password is stored before the check of Active.
LoginNotStartedLate ==
  /\ DaemonTakes("Login") /\ Head(toDaemon).what # "sddm_user"
  /\ Active \/ Head(toDaemon).what = "bad_session"
  /\ display' = [display EXCEPT !.socket = TRUE, !.pass = Head(toDaemon).n]
  /\ UNCHANGED <<greeter, toGreeter, auth, helper, up, down, count>>

\* startAuth gives up, and nobody tells the greeter.
LoginNotStarted ==
  /\ DaemonTakes("Login") /\ Head(toDaemon).what # "sddm_user"
  /\ Active \/ Head(toDaemon).what = "bad_session"
  /\ display' = [display EXCEPT !.socket = TRUE,
                                !.pass = IF Active THEN @ ELSE Head(toDaemon).n]
  /\ UNCHANGED <<greeter, toGreeter, auth, helper, up, down, count>>

LoginStarted ==
  /\ DaemonTakes("Login") /\ Head(toDaemon).what = "valid"
  /\ ~Active
  /\ \E reuse \in ReuseChoices :
       /\ StartHelper(Head(toDaemon).n, reuse, auth.autologin)
       /\ display' = [display EXCEPT !.socket = TRUE, !.reuse = reuse,
                                     !.pass = Head(toDaemon).n]
  /\ UNCHANGED <<greeter, toGreeter, up, count>>

PromptResponseIgnored ==
  /\ DaemonTakes("PromptResponse")
  /\ ~display.socket \/ display.pending = 0
  /\ UNCHANGED <<greeter, toGreeter, display, auth, helper, up, down, count>>

\* slotPromptResponse: the answer goes to whichever prompt is pending.
PromptResponseTaken ==
  /\ DaemonTakes("PromptResponse")
  /\ display.socket /\ display.pending # 0
  /\ LET i == Unrecognised(auth.prompts)
         answered == IF display.pending = auth.request /\ i # 0
                       THEN [auth.prompts EXCEPT ![i].resp =
                               [kind |-> "typed", of |-> Head(toDaemon).of]]
                       ELSE auth.prompts
     IN  IF auth.finished THEN UNCHANGED <<auth, down>>
                          ELSE Finish(auth.request, answered)
  /\ display' = [display EXCEPT !.pending = 0]
  /\ UNCHANGED <<greeter, toGreeter, helper, up, count>>

\* The greeter's socket is deleted, which clears m_socket.
GreeterDisconnected ==
  /\ display.running /\ ~greeter.up /\ toDaemon = <<>>
  /\ display.socket
  /\ display' = [display EXCEPT !.socket = FALSE]
  /\ UNCHANGED <<greeter, toDaemon, toGreeter, auth, helper, up, down, count>>

\* The five-second timer slotSessionStarted armed.
GreeterStopTimer ==
  /\ display.timer
  /\ display' = [display EXCEPT !.timer = FALSE]
  /\ greeter' = NoGreeter
  /\ toGreeter' = <<>>
  /\ UNCHANGED <<toDaemon, auth, helper, up, down, count>>

-----------------------------------------------------------------------------
(* The daemon: messages of the helper, and its end *)

SaysHello(n) == up[n] # <<>> /\ Head(up[n]).type = "HELLO"

\* handleNewConnection: the Auth takes the new connection in place of the one
\* it holds, whose unread data nothing reads any more.
ConnectHelper ==
  /\ \E n \in Logins :
       /\ SaysHello(n) /\ \A k \in 1 .. n - 1 : ~SaysHello(k)
       /\ auth' = [auth EXCEPT !.conn = n]
       /\ up' = [k \in Logins |-> CASE k = n -> Tail(up[k])
                                    [] k = auth.conn /\ k # n -> <<>>
                                    [] OTHER -> up[k]]
  /\ UNCHANGED <<greeter, toDaemon, toGreeter, display, helper, down, count>>

\* One round of Auth::Private::dataPending.
DaemonReads(type) ==
  /\ auth.conn # 0
  /\ up[auth.conn] # <<>> /\ Head(up[auth.conn]).type = type
  /\ up' = [up EXCEPT ![auth.conn] = Tail(@)]
  /\ UNCHANGED <<toDaemon, helper, count>>

FromHelper == Head(up[auth.conn])

\* slotAuthError: the greeter hears of a failure; the login goes on.
ReadError ==
  /\ DaemonReads("ERROR")
  /\ IF display.socket /\ FromHelper.error = "AUTHENTICATION"
       THEN Tell([type |-> "LoginFailed"]) ELSE UNCHANGED toGreeter
  /\ UNCHANGED <<greeter, display, auth, down>>

\* slotRequestChanged when it recognises every prompt, or has nobody to ask.
ReadRequestAnswered ==
  /\ DaemonReads("REQUEST")
  /\ Unrecognised(FromHelper.prompts) = 0 \/ ~display.socket
  /\ Finish(FromHelper.id, Filled(FromHelper.prompts))
  /\ UNCHANGED <<greeter, toGreeter, display>>

\* Mutant of ReadRequestRelayed: the greeter is told of the request before this one.
RelayBeforeSetRequest ==
  /\ DaemonReads("REQUEST")
  /\ Unrecognised(FromHelper.prompts) # 0 /\ display.socket
  /\ auth' = [auth EXCEPT !.request = FromHelper.id, !.finished = FALSE,
                          !.prompts = Filled(FromHelper.prompts)]
  /\ display' = [display EXCEPT !.pending = FromHelper.id]
  /\ Tell([type |-> "PromptRequest", id |-> auth.request])
  /\ UNCHANGED <<greeter, down>>

\* Mutant of ReadRequestRelayed: no return after the relay, done() follows.
RelayAndFinish ==
  /\ DaemonReads("REQUEST")
  /\ Unrecognised(FromHelper.prompts) # 0 /\ display.socket
  /\ Finish(FromHelper.id, Filled(FromHelper.prompts))
  /\ display' = [display EXCEPT !.pending = FromHelper.id]
  /\ Tell([type |-> "PromptRequest", id |-> FromHelper.id])
  /\ UNCHANGED greeter

\* slotRequestChanged relays one prompt and leaves the request open.
ReadRequestRelayed ==
  /\ DaemonReads("REQUEST")
  /\ Unrecognised(FromHelper.prompts) # 0 /\ display.socket
  /\ auth' = [auth EXCEPT !.request = FromHelper.id, !.finished = FALSE,
                          !.prompts = Filled(FromHelper.prompts)]
  /\ display' = [display EXCEPT !.pending = FromHelper.id]
  /\ Tell([type |-> "PromptRequest", id |-> FromHelper.id])
  /\ UNCHANGED <<greeter, down>>

\* Mutant of ReadAccepted: an empty user name is taken for success.
ReadAcceptedAnyUser ==
  /\ DaemonReads("AUTHENTICATED") /\ ~auth.autologin
  /\ IF display.socket THEN Tell([type |-> "LoginSucceeded"])
                       ELSE UNCHANGED toGreeter
  /\ display' = [display EXCEPT !.socket = FALSE]
  /\ auth' = [auth EXCEPT !.user = FromHelper.user]
  /\ Reply([type |-> "AUTHENTICATED"])
  /\ UNCHANGED greeter

\* slotAuthenticationFinished(user, true), then the environment is sent.
ReadAccepted ==
  /\ DaemonReads("AUTHENTICATED") /\ FromHelper.user # 0
  /\ IF display.socket THEN Tell([type |-> "LoginSucceeded"])
                       ELSE UNCHANGED toGreeter
  /\ display' = [display EXCEPT !.socket = FALSE]
  /\ auth' = [auth EXCEPT !.user = FromHelper.user]
  /\ Reply([type |-> "AUTHENTICATED"])
  /\ UNCHANGED greeter

ReadRefused ==
  /\ DaemonReads("AUTHENTICATED") /\ FromHelper.user = 0 /\ ~auth.autologin
  /\ IF display.socket THEN Tell([type |-> "LoginFailed"])
                       ELSE UNCHANGED toGreeter
  /\ display' = [display EXCEPT !.socket = FALSE]
  /\ UNCHANGED <<greeter, auth, down>>

\* Mutant of ReadAutologinRefused: the autologin flag stays set.
AutologinFlagStays ==
  /\ DaemonReads("AUTHENTICATED") /\ FromHelper.user = 0 /\ auth.autologin
  /\ greeter' = NewGreeter
  /\ UNCHANGED <<toGreeter, display, auth, down>>

\* handleAutologinFailure: only now does this display get a greeter.
ReadAutologinRefused ==
  /\ DaemonReads("AUTHENTICATED") /\ FromHelper.user = 0 /\ auth.autologin
  /\ auth' = [auth EXCEPT !.autologin = FALSE]
  /\ greeter' = NewGreeter
  /\ UNCHANGED <<toGreeter, display, down>>

\* Mutant of ReadSessionStatus: only a session that opened is acknowledged.
ReadSessionStatusIfOpen ==
  /\ DaemonReads("SESSION_STATUS")
  /\ display' = [display EXCEPT !.timer = @ \/ FromHelper.ok]
  /\ IF FromHelper.ok THEN Reply([type |-> "SESSION_STATUS"]) ELSE UNCHANGED down
  /\ UNCHANGED <<greeter, toGreeter, auth>>

ReadSessionStatus ==
  /\ DaemonReads("SESSION_STATUS")
  /\ display' = [display EXCEPT !.timer = @ \/ FromHelper.ok]
  /\ Reply([type |-> "SESSION_STATUS"])
  /\ UNCHANGED <<greeter, toGreeter, auth>>

\* childExited and slotHelperFinished: every exit code but one stops the
\* display.
ReapRefusedHelper ==
  /\ helper.pc = "dead" /\ helper.code = "AUTH_ERROR"
  /\ helper' = NoHelper
  /\ UNCHANGED <<greeter, toDaemon, toGreeter, display, auth, up, down, count>>

\* Mutant of ReapHelper: a crash is not taken for the end of the helper.
ReapHelperThatExited ==
  /\ helper.pc = "dead" /\ helper.code \notin {"AUTH_ERROR", "CRASH"}
  /\ StopDisplay

ReapHelper ==
  /\ helper.pc = "dead" /\ helper.code # "AUTH_ERROR"
  /\ StopDisplay

-----------------------------------------------------------------------------
(* The helper: HelperApp and PamBackend *)

HelperSteps(from) ==
  /\ helper.pc = from
  /\ UNCHANGED <<greeter, toDaemon, toGreeter, display, auth>>

Exit(code) == [helper EXCEPT !.pc = "exiting", !.code = code]

Refusal(error) == <<[type |-> "ERROR", error |-> error],
                    [type |-> "AUTHENTICATED", user |-> 0]>>

HelperHello ==
  /\ HelperSteps("starting")
  /\ helper' = [helper EXCEPT !.pc = "pam"]
  /\ Send(<<[type |-> "HELLO"]>>)
  /\ UNCHANGED <<down, count>>

\* pam_start fails.
PamStartFails ==
  /\ HelperSteps("starting")
  /\ helper' = [Exit("AUTH_ERROR") EXCEPT !.verdict = "refused"]
  /\ Send(<<[type |-> "HELLO"]>> \o Refusal("INTERNAL"))
  /\ UNCHANGED <<down, count>>

\* A PAM module asks, and the answer is not known yet.
PamAsks ==
  /\ HelperSteps("pam")
  /\ helper.msgs < MaxMessages
  /\ \E m \in PamMessages :
       /\ m.style \in {"ECHO_OFF", "ECHO_ON"} /\ NewRequest(helper.data, m)
       /\ LET asked == InsertPrompt(helper.data, m) IN
            /\ helper' = [helper EXCEPT !.pc = "waitRequest", !.data = asked,
                             !.msg = m, !.given = NoResponse, !.msgs = @ + 1,
                             !.request = count.requests + 1]
            /\ Send(<<[type |-> "REQUEST", id |-> count.requests + 1,
                       prompts |-> asked.prompts]>>)
  /\ count' = [count EXCEPT !.requests = @ + 1]
  /\ UNCHANGED down

\* A PAM module asks for what an earlier request already brought.
PamAsksAgain ==
  /\ HelperSteps("pam")
  /\ helper.msgs < MaxMessages
  /\ \E m \in PamMessages :
       /\ m.style \in {"ECHO_OFF", "ECHO_ON"} /\ ~NewRequest(helper.data, m)
       /\ LET known == InsertPrompt(helper.data, m) IN
          helper' = [helper EXCEPT !.msgs = @ + 1, !.msg = m,
                       !.data = AfterResponse(known, m),
                       !.given = ResponseTo(known, m)]
  /\ UNCHANGED <<up, down, count>>

PamTells ==
  /\ HelperSteps("pam")
  /\ helper.msgs < MaxMessages
  /\ \E m \in PamMessages :
       \/ /\ m.style = "ERROR_MSG"
          /\ helper' = [helper EXCEPT !.msgs = @ + 1, !.msg = m,
                           !.data = AfterResponse(@, m),
                           !.given = ResponseTo(helper.data, m)]
          /\ Send(<<[type |-> "ERROR", error |-> "AUTHENTICATION"]>>)
       \/ /\ m.style = "TEXT_INFO"
          /\ LET told == HandleInfo(helper.data, m) IN
             helper' = [helper EXCEPT !.msgs = @ + 1, !.msg = m,
                          !.data = AfterResponse(told, m),
                          !.given = ResponseTo(told, m)]
          /\ UNCHANGED up
  /\ UNCHANGED <<down, count>>

\* HelperApp::request returns; an answer that is no answer fails the
\* conversation and leaves PamData as it is.
ReceiveAnswers ==
  /\ HelperSteps("waitRequest")
  /\ down # <<>>
  /\ down' = Tail(down)
  /\ LET answer == Head(down) IN
     IF answer.type = "REQUEST" /\ answer.prompts # <<>>
       THEN LET data == CompleteRequest(helper.data, answer.prompts) IN
            helper' = [helper EXCEPT !.pc = "pam",
                         !.data = AfterResponse(data, helper.msg),
                         !.given = ResponseTo(data, helper.msg)]
       ELSE helper' = [helper EXCEPT !.pc = "pam"]
  /\ UNCHANGED <<up, count>>

PamAccepts ==
  /\ HelperSteps("pam")
  /\ helper' = [helper EXCEPT !.pc = "waitEnv", !.verdict = "accepted"]
  /\ Send(<<[type |-> "AUTHENTICATED", user |-> helper.login]>>)
  /\ UNCHANGED <<down, count>>

PamRefuses ==
  /\ HelperSteps("pam")
  /\ helper' = [Exit("AUTH_ERROR") EXCEPT !.verdict = "refused"]
  /\ Send(Refusal("AUTHENTICATION"))
  /\ UNCHANGED <<down, count>>

\* Without a session to start the helper's work ends here.
ReceiveEnvironment ==
  /\ HelperSteps("waitEnv")
  /\ down # <<>>
  /\ down' = Tail(down)
  /\ helper' = IF helper.path = 0 THEN Exit("SUCCESS")
                                  ELSE [helper EXCEPT !.pc = "opening"]
  /\ UNCHANGED <<up, count>>

SessionOpens ==
  /\ HelperSteps("opening")
  /\ helper' = [helper EXCEPT !.pc = "waitStatus", !.open = TRUE]
  /\ Send(<<[type |-> "SESSION_STATUS", ok |-> TRUE]>>)
  /\ UNCHANGED <<down, count>>

SessionFailsToOpen ==
  /\ HelperSteps("opening")
  /\ helper' = [helper EXCEPT !.pc = "waitStatus"]
  /\ \E error \in {"AUTHENTICATION", "INTERNAL"} :
       Send(<<[type |-> "ERROR", error |-> error],
              [type |-> "SESSION_STATUS", ok |-> FALSE]>>)
  /\ UNCHANGED <<down, count>>

ReceiveStatusAck ==
  /\ HelperSteps("waitStatus")
  /\ down # <<>>
  /\ down' = Tail(down)
  /\ helper' = IF helper.open THEN [helper EXCEPT !.pc = "session"]
                              ELSE Exit("SESSION_ERROR")
  /\ UNCHANGED <<up, count>>

\* The session's own exit code becomes the helper's.
SessionEnds ==
  /\ HelperSteps("session")
  /\ \E code \in {"SUCCESS", "AUTH_ERROR", "OTHER_ERROR"} : helper' = Exit(code)
  /\ UNCHANGED <<up, down, count>>

HelperExits ==
  /\ HelperSteps("exiting")
  /\ helper' = [helper EXCEPT !.pc = "dead"]
  /\ UNCHANGED <<up, down, count>>

HelperCrash ==
  /\ helper.pc \notin {"off", "dead"}
  /\ helper' = [helper EXCEPT !.pc = "dead", !.code = "CRASH"]
  /\ UNCHANGED <<greeter, toDaemon, toGreeter, display, auth, up, down, count>>

-----------------------------------------------------------------------------
Init ==
  /\ greeter = NoGreeter
  /\ toDaemon = <<>> /\ toGreeter = <<>>
  /\ display = NoDisplay
  /\ auth = NewAuth
  /\ helper = NoHelper
  /\ up = [n \in Logins |-> <<>>] /\ down = <<>>
  /\ count = [logins |-> 0, requests |-> 0, displays |-> 0]

SeatSteps == NewDisplayWithGreeter \/ NewDisplayWithAutologin

UserSteps == SubmitLogin \/ AnswerPrompt

GreeterSteps == ReadLoginSucceeded \/ ReadLoginFailed \/ ReadPromptRequest

DaemonHearsGreeter ==
  \/ LoginAsSddm \/ LoginNotStarted \/ LoginStarted
  \/ PromptResponseIgnored \/ PromptResponseTaken
  \/ GreeterDisconnected

DaemonHearsHelper ==
  \/ ConnectHelper
  \/ ReadError \/ ReadRequestAnswered \/ ReadRequestRelayed
  \/ ReadAccepted \/ ReadRefused \/ ReadAutologinRefused
  \/ ReadSessionStatus
  \/ ReapRefusedHelper \/ ReapHelper

\* What sddm-helper and the PAM modules do without waiting for anybody, and
\* what they do when the daemon has answered.
HelperWorks ==
  \/ HelperHello \/ PamStartFails
  \/ PamAsks \/ PamAsksAgain \/ PamTells \/ PamAccepts \/ PamRefuses
  \/ ReceiveAnswers \/ ReceiveEnvironment
  \/ SessionOpens \/ SessionFailsToOpen \/ ReceiveStatusAck
  \/ HelperExits

Next ==
  \/ SeatSteps \/ UserSteps \/ GreeterSteps
  \/ GreeterCrash \/ GreeterStopTimer
  \/ DaemonHearsGreeter \/ DaemonHearsHelper
  \/ HelperWorks \/ SessionEnds \/ HelperCrash

Spec == Init /\ [][Next]_vars

\* Event loops serve what arrives, and a PAM stack comes to an end (its
\* messages are bounded).  Nothing obliges a user to log in or to answer, a
\* session to end or a process to crash.
Fairness ==
  /\ WF_vars(GreeterSteps)
  /\ WF_vars(GreeterStopTimer)
  /\ WF_vars(DaemonHearsGreeter)
  /\ WF_vars(DaemonHearsHelper)
  /\ WF_vars(HelperWorks)

FairSpec == Spec /\ Fairness

-----------------------------------------------------------------------------
(* The type invariant *)

Ids == Nat \ {0}

GreeterMessageTypes ==
  [type : {"Login"}, n : Logins, what : {"valid", "bad_session", "sddm_user"}]
    \cup [type : {"PromptResponse"}, of : Nat]

DaemonMessageTypes ==
  [type : {"LoginSucceeded", "LoginFailed"}]
    \cup [type : {"PromptRequest"}, id : Ids]

UpMessageTypes ==
  [type : {"HELLO"}]
    \cup [type : {"REQUEST"}, id : Ids, prompts : Seq(Prompts)]
    \cup [type : {"ERROR"}, error : {"AUTHENTICATION", "INTERNAL"}]
    \cup [type : {"AUTHENTICATED"}, user : Nat]
    \cup [type : {"SESSION_STATUS"}, ok : BOOLEAN]

DownMessageTypes ==
  [type : {"REQUEST"}, prompts : Seq(Prompts)]
    \cup [type : {"AUTHENTICATED", "SESSION_STATUS"}]

HelperStages == {"off", "starting", "pam", "waitRequest", "waitEnv", "opening",
                 "waitStatus", "session", "exiting", "dead"}

Greeters == [up : BOOLEAN, form : BOOLEAN, code : BOOLEAN, shown : Nat,
             typed : Nat, told : {"nothing", "waiting", "failed", "succeeded"}]

Displays == [running : BOOLEAN, socket : BOOLEAN, pending : Nat, pass : Nat,
             reuse : BOOLEAN, timer : BOOLEAN]

Auths == [user : Nat, path : Nat, autologin : BOOLEAN, conn : 0 .. MaxLogins,
          request : Nat, prompts : Seq(Prompts), finished : BOOLEAN]

Helpers == [pc : HelperStages, login : 0 .. MaxLogins, path : Nat,
            autologin : BOOLEAN, verdict : {"none", "accepted", "refused"},
            data : PamDatas, msg : Messages \cup {NoMessage},
            given : Responses, msgs : Nat, request : Nat,
            open : BOOLEAN, code : ExitCodes]

Counts == [logins : 0 .. MaxLogins, requests : Nat, displays : 0 .. MaxDisplays]

\* Every component's fields and every queue hold what their types allow.
TypeOK ==
  /\ greeter \in Greeters
  /\ toDaemon \in Seq(GreeterMessageTypes) /\ toGreeter \in Seq(DaemonMessageTypes)
  /\ display \in Displays
  /\ auth \in Auths
  /\ helper \in Helpers
  /\ up \in [Logins -> Seq(UpMessageTypes)] /\ down \in Seq(DownMessageTypes)
  /\ count \in Counts

-----------------------------------------------------------------------------
(* What makes the path correct *)

\* The message a waiting helper has sent and the reply it blocks for; 
\* SafeDataStream::receive blocks without a timeout.
Awaited == CASE helper.pc = "waitRequest" -> "REQUEST"
             [] helper.pc = "waitEnv"     -> "AUTHENTICATED"
             [] helper.pc = "waitStatus"  -> "SESSION_STATUS"
             [] OTHER                     -> "nothing"

Unread == Awaited # "nothing" /\ up[helper.login] # <<>>
            /\ Last(up[helper.login]).type = Awaited

Held == Awaited = "REQUEST" /\ up[helper.login] = <<>>
          /\ ~auth.finished /\ auth.request = helper.request
          /\ display.pending = helper.request

Answered == Awaited # "nothing" /\ up[helper.login] = <<>>
              /\ Len(down) = 1 /\ down[1].type = Awaited

\* The blocking calls of the helper and the handlers of the daemon stay in
\* lock step: a helper that waits has its message unread, or held by the
\* daemon for the user's answer, or has exactly one reply, of the type its
\* receive() expects; a helper that does not wait has no reply under way that
\* a later call could take for its own (HelperApp::request, authenticated,
\* sessionOpened; Auth::Private::dataPending, requestFinished).
LockStep ==
  helper.pc # "dead" =>
    /\ Awaited # "nothing" => Unread \/ Held \/ Answered
    /\ down # <<>> => Answered

\* The prompt the daemon holds for the greeter is the open request of the
\* helper it is connected to, which is still blocked on it or has died: an
\* answer can never complete another helper's or a finished request
\* (Display::m_pendingPrompt against AuthRequest).
PendingIsAwaited ==
  display.pending # 0 =>
    /\ ~auth.finished /\ auth.request = display.pending
    /\ auth.conn = helper.login
    /\ helper.request = display.pending
    /\ helper.pc \in {"waitRequest", "dead"}

\* A request's user and password answers come from the login the helper was
\* started for, whatever logins the greeter has sent since
\* (Display::startAuth must not touch m_passPhrase while the Auth is active).
OneIdentity ==
  \A i \in DOMAIN down : down[i].type = "REQUEST" =>
    \A j \in DOMAIN down[i].prompts :
      LET resp == down[i].prompts[j].resp IN
      resp.kind \in {"user", "password"} => resp.of \in {helper.login, 0}

\* PAM gets the password for a password prompt only, the user's name for what
\* counts as a question for it only, and what was typed for the others only,
\* in whatever order it asks and however the backend predicted it
\* (PamData::getResponse, findPrompt).
AnswersFitQuestions ==
  LET asked == DetectPrompt(helper.msg) IN
  CASE helper.given.kind = "password" -> asked = "LOGIN_PASSWORD"
    [] helper.given.kind = "user"     -> asked = "LOGIN_USER"
    [] helper.given.kind = "typed"    -> asked \notin {"LOGIN_USER", "LOGIN_PASSWORD"}
    [] OTHER                          -> TRUE

\* The passwordless PAM service (--autologin) is used for autologins only: no
\* helper started for a greeter's login runs with it, and no greeter is there
\* to log in while an autologin is undecided (handleAutologinFailure).
AutologinIsNotInherited ==
  /\ Active /\ helper.autologin => display.pass # helper.login
  /\ auth.autologin => ~greeter.up /\ toDaemon = <<>>

\* The greeter, the daemon and the helper together implement LoginService:
\* one login at a time, its session only after PAM accepted it, and no
\* success announced to the user for a login PAM has not accepted.
Stage == IF helper.pc = "off"                     THEN "idle"
         ELSE IF display.pending # 0              THEN "asking"
         ELSE IF helper.verdict = "none"          THEN "checking"
         ELSE IF helper.verdict = "refused"       THEN "refused"
         ELSE IF ~helper.open                     THEN "accepted"
         ELSE IF helper.pc \in {"exiting", "dead"} THEN "over"
         ELSE "session"

Announced == \/ greeter.told = "succeeded"
             \/ \E i \in DOMAIN toGreeter : toGreeter[i].type = "LoginSucceeded"

Service == INSTANCE LoginService
             WITH login <- helper.login, stage <- Stage, announced <- Announced

ImplementsLoginService == Service!ServiceSpec

\* An authentication the daemon starts ends in a session, in the helper's
\* end, or in a prompt that waits for the user (Auth::start, HelperApp::doAuth).
AuthenticationEnds ==
  Active ~> (helper.pc \in {"off", "session"} \/ display.pending # 0)

-----------------------------------------------------------------------------
(* The inductive invariant behind LockStep and PendingIsAwaited *)

\* Without a display nothing is left of the one before.
NothingWithoutDisplay ==
  ~display.running =>
    /\ ~greeter.up /\ toDaemon = <<>>
    /\ helper.pc = "off" /\ auth.conn = 0
    /\ \A k \in Logins : up[k] = <<>>

\* Logins get their helper in the order of their numbers, and a login the
\* daemon has not read yet is younger than all that has left a trace.
LoginsInOrder ==
  LET Trace(n) == up[n] # <<>> IN
  /\ helper.login <= count.logins /\ auth.conn <= count.logins
  /\ \A k \in Logins : Trace(k) => k <= count.logins
  /\ IF helper.pc = "off"
       THEN helper.login = 0
       ELSE /\ helper.login # 0 /\ auth.conn <= helper.login
            /\ \A k \in Logins : Trace(k) => k <= helper.login
  /\ \A i \in 1 .. Len(toDaemon) : toDaemon[i].type = "Login" =>
       LET n == toDaemon[i].n IN
       /\ n <= count.logins /\ helper.login < n /\ auth.conn < n
       /\ \A k \in Logins : Trace(k) => k < n
       /\ \A j \in 1 .. i - 1 : toDaemon[j].type = "Login" => toDaemon[j].n < n

\* A helper's greeting is the first thing it sends and is read once.
HellosComeFirst ==
  /\ helper.pc = "starting" => up[helper.login] = <<>> /\ auth.conn # helper.login
  /\ \A k \in Logins : \A i \in 1 .. Len(up[k]) :
       up[k][i].type = "HELLO" => i = 1 /\ auth.conn < k

\* The messages the helper blocks on, and a queue without any of them.
IsCall(m) == \/ m.type \in {"REQUEST", "SESSION_STATUS"}
             \/ m.type = "AUTHENTICATED" /\ m.user # 0

Quiet(s) == \A i \in 1 .. Len(s) : ~IsCall(s[i])

Sent == up[helper.login]

PromptHeld ==
  /\ display.pending = helper.request /\ display.pending # 0
  /\ auth.request = helper.request /\ ~auth.finished
  /\ auth.conn = helper.login

\* The phases a living helper goes through with each of its calls ...
Working == Awaited = "nothing" /\ Quiet(Sent) /\ down = <<>> /\ display.pending = 0

Calling == /\ Awaited # "nothing"
           /\ Sent # <<>> /\ IsCall(Sent[Len(Sent)]) /\ Sent[Len(Sent)].type = Awaited
           /\ Awaited = "REQUEST" => Sent[Len(Sent)].id = helper.request
           /\ \A i \in 1 .. Len(Sent) - 1 : ~IsCall(Sent[i])
           /\ down = <<>> /\ display.pending = 0

Asking  == Awaited = "REQUEST" /\ Sent = <<>> /\ down = <<>> /\ PromptHeld

Replied == /\ Awaited # "nothing" /\ Sent = <<>>
           /\ Len(down) = 1 /\ down[1].type = Awaited
           /\ display.pending = 0

\* ... and what a dead one leaves.
Exited  == helper.code # "CRASH" /\ Quiet(Sent) /\ down = <<>> /\ display.pending = 0

Crashed == /\ helper.code = "CRASH"
           /\ \/ /\ display.pending = 0
                 /\ \A i \in 1 .. Len(Sent) : Sent[i].type = "REQUEST" =>
                      i = Len(Sent) /\ Sent[i].id = helper.request
              \/ Sent = <<>> /\ PromptHeld

InPhase ==
  /\ helper.code = "CRASH" => helper.pc = "dead"
  /\ helper.pc = "off"  => down = <<>> /\ display.pending = 0
  /\ helper.pc = "dead" => Exited \/ Crashed
  /\ helper.pc \notin {"off", "dead"} => Working \/ Calling \/ Asking \/ Replied
  /\ \A k \in Logins \ {helper.login} : \A i \in 1 .. Len(up[k]) :
       up[k][i].type # "REQUEST"

-----------------------------------------------------------------------------
(* What the documents and comments say, and the code does not keep *)

\* "Either the loginFailed or the loginSucceeded signal will be emitted" for a
\* login: the greeter does not wait when nothing that could answer is left.
NoLoginUnanswered ==
  greeter.up /\ greeter.told = "waiting" =>
    \/ toDaemon # <<>> \/ toGreeter # <<>>
    \/ Active \/ \E n \in Logins : up[n] # <<>>

=============================================================================
