----------------------------- MODULE UserSession -----------------------------
(***************************************************************************)
(* sddm-helper from its start to its exit: HelperApp, Backend and           *)
(* PamBackend with PamHandle, UserSession with the child it forks, XAuth's  *)
(* cookie file and the login records.  What is said on its socket is in     *)
(* LoginProtocol.                                                          *)
(*                                                                         *)
(* The child runs childModifier and then the session's program, or one of   *)
(* the starters (SessionStarter) when the session brings its own display    *)
(* server.  The daemon ends the helper with SIGTERM and, five seconds       *)
(* later, SIGKILL; what anyone else sends is served when the helper is in   *)
(* its event loop, and it is not while it waits in receive() for the        *)
(* user's answer or the daemon's reply.                                    *)
(***************************************************************************)
EXTENDS Sequences, SessionStarter, VirtualTerminal

Pam == INSTANCE PamHandle

CONSTANT Kinds \* the sessions the daemon asks for: see KindSet

\* class of the session, its XDG_SESSION_TYPE, and whether --display-server is given
KindSet == [class : {"user", "greeter"}, type : {"x11", "wayland"}, server : BOOLEAN]

ASSUME UserSessionAssumption ==
  /\ Kinds \subseteq KindSet
  /\ \A k \in Kinds : k.type = "wayland" => (k.server <=> k.class = "greeter")
  /\ Vts = {"old", "new"}

VARIABLES
  kind,    \* of this session, which does not change
  helper,  \* HelperApp and what it holds
  child,   \* the process UserSession starts
  vt,      \* the terminals
  records  \* what was written to wtmp and btmp: <<what, pid>>

vars == <<starter, kind, helper, child, vt, records>>

\* The child's process number.
Pid == 1

NoChild == [pc |-> "none", code |-> "SUCCESS", uid |-> "root", groups |-> "root",
            tty |-> FALSE, term |-> FALSE]

Init ==
  /\ kind \in Kinds
  /\ starter = [NoStarter EXCEPT !.kind = kind.type]
  /\ helper = [pc |-> "setUp", code |-> "SUCCESS", term |-> FALSE, stop |-> FALSE,
               killed |-> FALSE, pam |-> Pam!NoHandle, xauth |-> "none", cached |-> -1]
  /\ child = NoChild
  /\ vt \in [active : {"old"}, mode : [Vts -> {"auto", "process"}],
             owner : {[t \in Vts |-> "old"]}, kd : [Vts -> {"text", "graphics"}]]
  /\ records = <<>>

-----------------------------------------------------------------------------
(* HelperApp::doAuth *)

\* exit, from a handler: the loop ends and the destructor runs.
Exit(h, code) == [h EXCEPT !.pc = "stopping", !.code = code]

\* The command line; the socket's connected signal starts doAuth.  Nothing is
\* connected to its error: without the daemon the helper stays in its loop.
SetUp ==
  /\ helper.pc = "setUp"
  /\ helper' \in {[helper EXCEPT !.pc = pc] : pc \in {"auth", "loop"}}
  /\ UNCHANGED <<starter, kind, child, vt, records>>

UtmpLogin(rs, pid, successful) ==
  Append(rs, <<IF successful THEN "login" ELSE "failed", pid>>)

\* The destructor: the logout of whatever process number start() left.
UtmpLogout(rs, h) ==
  IF h.cached >= 0 /\ kind.class = "user" THEN Append(rs, <<"logout", h.cached>>) ELSE rs

\* HelperApp::request: a question of PAM's goes to the user, and receive()
\* waits for the answer without a time limit.
AsksUser ==
  /\ helper.pc = "auth"
  /\ helper' = [helper EXCEPT !.pc = "asking"]
  /\ UNCHANGED <<starter, kind, child, vt, records>>

UserAnswers ==
  /\ helper.pc = "asking"
  /\ helper' = [helper EXCEPT !.pc = "auth"]
  /\ UNCHANGED <<starter, kind, child, vt, records>>

\* The verdict and "authenticated", which waits for the daemon's reply to a
\* granted login; refused logins go to btmp.
Authenticated ==
  /\ helper.pc = "auth"
  /\ \E started, ok, changed \in BOOLEAN, verdict \in {"success", "expired", "error"} :
       LET p == Pam!Authenticate(Pam!Start(helper.pam, started),
                             started /\ ok /\ Pam!AcctMgmt(verdict, changed))
           h == [helper EXCEPT !.pam = p]
       IN IF p.trusted THEN helper' = [h EXCEPT !.pc = "told"] /\ UNCHANGED records
                       ELSE /\ helper' = Exit(h, "AUTH_ERROR")
                            /\ records' = UtmpLogin(records, 0, FALSE)
  /\ UNCHANGED <<starter, kind, child, vt>>

\* PamBackend::openSession up to Backend::openSession: credentials, terminal
\* and environment, the session; sessionOpened tells the daemon of a failure.
OpenPam ==
  /\ helper.pc = "open"
  /\ \E cred, put, opened \in BOOLEAN :
       LET established == Pam!SetCred(helper.pam, TRUE, cred)
           p == IF cred /\ put THEN Pam!OpenSession(established, opened) ELSE established
           h == [helper EXCEPT !.pam = p]
       IN helper' = IF p.session THEN [h EXCEPT !.pc = "start"] ELSE [h EXCEPT !.pc = "failed"]
  /\ UNCHANGED <<starter, kind, child, vt, records>>

\* closeSession, and ~PamHandle: what was opened is closed and the credentials
\* deleted, which leaves those of a session that was not opened.
ClosePam(h) ==
  [h EXCEPT !.pam = Pam!End(IF @.open THEN Pam!SetCred(Pam!CloseSession(@), FALSE, TRUE) ELSE @)]

\* The session uses the daemon's X server.
NeedsCookie == kind.type = "x11" /\ ~kind.server

\* UserSession::start up to the fork.  The daemon's X server needs its cookie
\* in a file of its own, which writeCookieToFile may fail to make.
Fork ==
  /\ helper.pc = "start"
  /\ \/ /\ NeedsCookie
        /\ \E w \in WriteCookieToFile : ~w.ok
        /\ helper' = [helper EXCEPT !.pc = "failed"]
        /\ UNCHANGED child
     \/ /\ helper' = [helper EXCEPT !.pc = "forked",
                                    !.xauth = IF NeedsCookie THEN "root" ELSE "none"]
        /\ child' = [NoChild EXCEPT !.pc = "terminal"]
  /\ UNCHANGED <<starter, kind, vt, records>>

-----------------------------------------------------------------------------
(* The child: childModifier, then the program *)

\* The session has its own display server, or is a wayland session.
LeaksVt == kind.server \/ (kind.type = "wayland" /\ kind.class = "user")
VtAuto == kind.type = "x11" /\ kind.class = "user"

\* The terminal becomes stdin and the controlling terminal; jumpToVt then waits
\* for the switch.  Without the device, stdin is /dev/null.
TakeTerminal ==
  /\ child.pc = "terminal"
  /\ IF ~LeaksVt THEN child' = [child EXCEPT !.pc = "user"] /\ UNCHANGED vt
     ELSE \/ \E opened \in BOOLEAN :
               /\ child' = [child EXCEPT !.pc = "jump", !.tty = opened]
               /\ vt' = PrepareJump(vt, "new", opened, VtAuto, "child")
          \/ /\ \E code \in {"TTY_ERROR", "OTHER_ERROR"} :
                  child' = [child EXCEPT !.pc = "ended", !.code = code]
             /\ UNCHANGED vt
  /\ UNCHANGED <<starter, kind, helper, records>>

\* VT_WAITACTIVE returns; the owner of the old terminal may live or not.
Jumped ==
  /\ child.pc = "jump" /\ CanSwitch(vt, "new")
  /\ \E alive \in {{"child"}, {"child", "old"}} : vt' = Switched(vt, "new", alive)
  /\ child' = [child EXCEPT !.pc = "user"]
  /\ UNCHANGED <<starter, kind, helper, records>>

\* Mutant of BecomeUser: the cookie file is left to root.
BecomeUserOnly ==
  /\ child.pc = "user"
  /\ child' \in {[child EXCEPT !.pc = "ended", !.code = "OTHER_ERROR"],
                 [child EXCEPT !.pc = "exec", !.uid = "user", !.groups = "user"]}
  /\ UNCHANGED <<starter, kind, helper, vt, records>>

\* Namespaces, the cookie file's owner, group, groups, user, directory, log:
\* each call that fails ends the child.
BecomeUser ==
  /\ child.pc = "user"
  /\ \/ /\ child' = [child EXCEPT !.pc = "ended", !.code = "OTHER_ERROR"]
        /\ UNCHANGED helper
     \/ /\ child' = [child EXCEPT !.pc = "exec", !.uid = "user", !.groups = "user"]
        /\ helper' = IF helper.xauth = "root" THEN [helper EXCEPT !.xauth = "user"] ELSE helper
  /\ UNCHANGED <<starter, kind, vt, records>>

\* execve, which may fail: QProcess then says that the process did not start.
Exec ==
  /\ child.pc = "exec"
  /\ \/ /\ child' = [child EXCEPT !.pc = "unstarted"]
        /\ UNCHANGED starter
     \/ /\ child' = [child EXCEPT !.pc = IF kind.server THEN "starter" ELSE "program"]
        /\ starter' = IF kind.server THEN [starter EXCEPT !.pc = "starting"] ELSE starter
  /\ UNCHANGED <<kind, helper, vt, records>>

ProgramEnds ==
  /\ child.pc = "program"
  /\ \E code \in {"SUCCESS", "AUTH_ERROR", "CRASH"} :
       child' = [child EXCEPT !.pc = "ended", !.code = code]
  /\ UNCHANGED <<starter, kind, helper, vt, records>>

\* The starter is the child: its exit is the child's.
StarterEnds ==
  /\ child.pc = "starter" /\ starter.pc = "exited"
  /\ child' = [child EXCEPT !.pc = "ended", !.code = starter.code]
  /\ UNCHANGED <<starter, kind, helper, vt, records>>

\* SIGTERM is delivered to the starter.  Before execve the child has the helper's
\* handler, which writes to a pipe nobody reads any more; jumpToVt waits again.
ChildTerminated ==
  /\ child.term /\ child.pc \in {"terminal", "jump", "user", "exec", "starter"}
  /\ child' = [child EXCEPT !.term = FALSE]
  /\ starter' = IF child.pc = "starter" THEN [starter EXCEPT !.term = TRUE] ELSE starter
  /\ UNCHANGED <<kind, helper, vt, records>>

-----------------------------------------------------------------------------
(* The helper until it ends *)

Alive == child.pc \in {"terminal", "jump", "user", "exec", "program", "starter"}

\* waitForStarted: the program runs, or the child ended before that (which
\* QProcess cannot tell apart), or it could not be executed, or 30 seconds
\* have passed; a wayland greeter counts as started in any case.  sessionOpened
\* tells the daemon, and waits for its reply.
Started ==
  /\ helper.pc = "forked"
  /\ \E timeout \in BOOLEAN :
       LET waiting == child.pc \in {"terminal", "jump", "user", "exec"}
           failed == (waiting \/ child.pc = "unstarted")
                       /\ ~(kind.type = "wayland" /\ kind.class = "greeter")
       IN /\ waiting = timeout
          /\ helper' = [helper EXCEPT !.pc = IF failed THEN "failed" ELSE "opened",
                                      !.cached = IF child.pc = "unstarted" THEN 0 ELSE Pid]
  /\ UNCHANGED <<starter, kind, child, vt, records>>

\* Mutant of DaemonReplies: the login is not recorded.
DaemonRepliesUnrecorded ==
  /\ \/ helper.pc = "told" /\ helper' \in {Exit(helper, "SUCCESS"), [helper EXCEPT !.pc = "open"]}
     \/ helper.pc = "failed" /\ helper' = Exit(helper, "SESSION_ERROR")
     \/ helper.pc = "opened" /\ helper' = [helper EXCEPT !.pc = "loop"]
  /\ UNCHANGED <<starter, kind, child, vt, records>>

\* The daemon's reply to "authenticated" or "sessionOpened", or the end of the
\* connection, which ends receive() too.  Without --start there is no session;
\* one that is opened goes to the login records when it is a user's.
DaemonReplies ==
  /\ \/ /\ helper.pc = "told"
        /\ helper' \in {Exit(helper, "SUCCESS"), [helper EXCEPT !.pc = "open"]}
        /\ UNCHANGED records
     \/ /\ helper.pc = "failed" /\ helper' = Exit(helper, "SESSION_ERROR")
        /\ UNCHANGED records
     \/ /\ helper.pc = "opened" /\ helper' = [helper EXCEPT !.pc = "loop"]
        /\ records' = IF kind.class = "user" THEN UtmpLogin(records, Pid, TRUE) ELSE records
  /\ UNCHANGED <<starter, kind, child, vt>>

\* UserSession::finished and HelperApp::sessionFinished.
SessionFinished ==
  /\ helper.pc = "loop" /\ child.pc = "ended"
  /\ helper' = Exit(helper, child.code)
  /\ child' = [child EXCEPT !.pc = "gone"]
  /\ UNCHANGED <<starter, kind, vt, records>>

\* SIGTERM from Auth::stop, or from anyone else; the handler only writes to a
\* pipe, which the loop reads.
Terminate ==
  /\ helper.pc # "gone"
  /\ \E stop \in BOOLEAN : /\ IF stop THEN ~helper.stop ELSE ~helper.term
                           /\ helper' = [helper EXCEPT !.term = TRUE, !.stop = @ \/ stop]
  /\ UNCHANGED <<starter, kind, child, vt, records>>

\* Mutant of SigtermReceived: the session is asked to end and the loop goes on.
SigtermForwarded ==
  /\ helper.pc = "loop" /\ helper.term /\ Alive
  /\ child' = [child EXCEPT !.term = TRUE]
  /\ UNCHANGED <<starter, kind, helper, vt, records>>

SigtermReceived ==
  /\ helper.pc = "loop" /\ helper.term
  /\ helper' = Exit(helper, "TERM")
  /\ UNCHANGED <<starter, kind, child, vt, records>>

\* UserSession::stop in the destructor: terminate the child and wait.
StopSession ==
  /\ helper.pc = "stopping"
  /\ helper' = [helper EXCEPT !.pc = "waiting"]
  /\ child' = IF Alive THEN [child EXCEPT !.term = TRUE] ELSE child
  /\ UNCHANGED <<starter, kind, vt, records>>

\* The wait takes too long: the child is killed, its own children are not.  One
\* that the kernel holds on to for five seconds more runs no code of its own.
KillSession ==
  /\ helper.pc = "waiting" /\ Alive
  /\ child' = [child EXCEPT !.pc = "ended", !.code = "CRASH"]
  /\ starter' = IF child.pc = "starter" /\ starter.pc # "exited"
                  THEN [starter EXCEPT !.pc = "exited", !.killed = TRUE] ELSE starter
  /\ UNCHANGED <<kind, helper, vt, records>>

\* Mutant of CloseSession: the PAM session is closed without waiting for the child.
CloseAtOnce ==
  /\ helper.pc = "waiting"
  /\ helper' = [ClosePam(helper) EXCEPT !.pc = "gone", !.xauth = "none"]
  /\ records' = UtmpLogout(records, helper)
  /\ UNCHANGED <<starter, kind, child, vt>>

\* Then PamBackend::closeSession, the record of the logout for whatever process
\* number start() left, and the removal of the cookie file.
CloseSession ==
  /\ helper.pc = "waiting" /\ ~Alive
  /\ helper' = [ClosePam(helper) EXCEPT !.pc = "gone", !.xauth = "none"]
  /\ records' = UtmpLogout(records, helper)
  /\ UNCHANGED <<starter, kind, child, vt>>

\* Auth::stop's SIGKILL, or a crash: nothing is closed, the child lives on.
Killed ==
  /\ helper.pc # "gone"
  /\ helper' = [helper EXCEPT !.pc = "gone", !.killed = TRUE, !.code = "CRASH"]
  /\ UNCHANGED <<starter, kind, child, vt, records>>

\* Steps of the starter and its children.
Starter ==
  /\ StarterStep \/ ChildStep
  /\ UNCHANGED <<kind, helper, child, vt, records>>

\* What the helper does itself, and what it leaves to PAM and the user.
HelperRuns == \/ SetUp \/ Fork \/ Started \/ SessionFinished
              \/ SigtermReceived \/ StopSession \/ CloseSession \/ KillSession
PamRuns == AsksUser \/ UserAnswers \/ Authenticated \/ OpenPam

ForkedStep == TakeTerminal \/ Jumped \/ BecomeUser \/ Exec \/ StarterEnds \/ ChildTerminated

Next == \/ HelperRuns \/ PamRuns \/ DaemonReplies \/ ForkedStep \/ ProgramEnds
        \/ Terminate \/ Killed \/ Starter

Spec == Init /\ [][Next]_vars

\* The helper runs: its waits for the child have time limits, and PAM's calls
\* that close a session return.  The daemon replies while it is not in
\* Auth::stop, which kills the helper after five seconds.  The child runs up to
\* its program, and so do the starter's handlers.  Nothing is asked of PAM, the
\* user, servers, programs, clients, and others who might stop the helper.
Fairness ==
  /\ WF_vars(HelperRuns) /\ WF_vars(ForkedStep)
  /\ WF_vars(DaemonReplies /\ ~helper.stop) /\ WF_vars(Killed /\ helper.stop)
  /\ WF_vars(StarterStep /\ UNCHANGED <<kind, helper, child, vt, records>>)
  /\ WF_vars(SocketFound /\ UNCHANGED <<kind, helper, child, vt, records>>)
  /\ WF_vars(WatchTimesOut /\ UNCHANGED <<kind, helper, child, vt, records>>)
FairSpec == Spec /\ Fairness

-----------------------------------------------------------------------------
(* Properties *)

\* While a session's program runs and its helper has not been killed, its PAM
\* session is open, the process is the user's and so is the cookie file it was
\* told of; the file is not removed and the session not closed under it.
ProgramIsCovered ==
  (child.pc \in {"program", "starter"} /\ ~helper.killed) =>
    /\ helper.pam.trusted /\ helper.pam.cred /\ helper.pam.session
    /\ child.uid = "user" /\ child.groups = "user"
    /\ (kind.type = "x11" /\ ~kind.server) => helper.xauth = "user"

\* A helper that was not killed leaves neither a session of its own open nor a
\* login without its logout, and a logout follows its login; the exception is a
\* session that start() gave up on, whose logout is written without a login.
RecordsAreBalanced ==
  LET At(what, pid) == {i \in DOMAIN records : records[i] = <<what, pid>>}
  IN /\ helper.code # "SESSION_ERROR" =>
          \A j \in At("logout", Pid) : \E i \in At("login", Pid) : i < j
     /\ (helper.pc = "gone" /\ ~helper.killed) =>
          /\ ~helper.pam.session /\ ~helper.pam.handle
          /\ At("login", Pid) # {} => At("logout", Pid) # {}

\* VT_WAITACTIVE returns: the terminal to be left is not in the combination of
\* modes fixVtMode repairs, unless the new terminal's device cannot be opened.
JumpReturns ==
  child.pc = "jump" => CanSwitch(vt, "new") \/ (VtAuto /\ ~child.tty)

\* A helper told to stop ends, whatever it is doing and whoever tells it, unless
\* it stays in PAM (with the user's answer, or in a module's call) and it was not
\* Auth::stop that told it: SIGTERM is only looked at in the event loop.
StopsWhenTold ==
  helper.term ~> \/ helper.pc = "gone"
                 \/ helper.pc \in {"auth", "asking", "open"} /\ ~helper.stop
=============================================================================
