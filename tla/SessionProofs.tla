---------------------------- MODULE SessionProofs ----------------------------
(***************************************************************************)
(* Proofs about UserSession: what a session leaves behind, for every set of *)
(* kinds of session the daemon may ask for.                                 *)
(*                                                                         *)
(* The inductive invariant has a part for each process: where the starter   *)
(* is says which of its children may still run, where the helper is says    *)
(* whether there is a child, what PAM has granted and what was recorded.    *)
(***************************************************************************)
EXTENDS UserSession, TLAPS

-----------------------------------------------------------------------------
(* Types *)

Codes == {"SUCCESS", "AUTH_ERROR", "SESSION_ERROR", "OTHER_ERROR", "TTY_ERROR",
          "DISPLAYSERVER_ERROR", "CRASH", "TERM"}

StarterSet ==
  [kind : {"wayland", "x11"}, pc : Stages, code : Codes, term : BOOLEAN, killed : BOOLEAN,
   watch : {"Stopped", "Failed"}, timer : BOOLEAN, heard : BOOLEAN, socket : BOOLEAN,
   cookie : {"empty", "local", "both"}, slow : BOOLEAN, server : Children, client : Children]

HandleSet == [handle : BOOLEAN, trusted : BOOLEAN, cred : BOOLEAN, session : BOOLEAN,
              open : BOOLEAN]

\* Before there is a child, while it may run, and afterwards.
Beginning == {"setUp", "auth", "asking", "told", "open", "start"}
HelperSet ==
  [pc : Beginning \cup {"forked", "opened", "failed", "loop", "stopping", "waiting", "gone"},
   code : Codes, term : BOOLEAN, stop : BOOLEAN, killed : BOOLEAN, pam : HandleSet,
   xauth : {"none", "root", "user"},
   cached : {-1, 0, Pid}]

\* The child before it is the user's, and before it runs a program.
AsRoot == {"terminal", "jump", "user"}
Unstarted == {"none", "exec"} \cup AsRoot
ChildSet ==
  [pc : Unstarted \cup {"unstarted", "program", "starter", "ended", "gone"}, code : Codes,
   uid : {"root", "user"}, groups : {"root", "user"}, tty : BOOLEAN, term : BOOLEAN]

VtSet == [active : Vts, mode : [Vts -> {"auto", "process"}],
          owner : [Vts -> {"old", "child", "none"}], kd : [Vts -> {"text", "graphics"}]]

TypeOK ==
  /\ starter \in StarterSet
  /\ kind \in KindSet
  /\ helper \in HelperSet
  /\ child \in ChildSet
  /\ vt \in VtSet
  /\ records \in Seq({"login", "failed", "logout"} \X {0, Pid})

-----------------------------------------------------------------------------
(* The parts of the invariant *)

\* What the starter has still to stop is what may run.
ChildrenByStage ==
  /\ child.pc \in Unstarted => starter.pc = "off"
  /\ starter.pc \in {"off", "starting"} => starter.server = "none" /\ starter.client = "none"
  /\ (starter.pc = "stopServer" /\ starter.kind = "wayland") => starter.client # "up"
  /\ starter.pc = "stopScript" => starter.server # "up"

\* There is no child before the fork, and none lives when the helper has waited.
ChildByStage ==
  /\ helper.pc \in Beginning => child.pc = "none"
  /\ (helper.pc = "gone" /\ ~helper.killed) => ~Alive

\* What PAM has granted, from the opening of the session to its end.
GrantedByStage ==
  /\ helper.pc \in {"setUp", "auth", "asking", "told", "open"} => ~helper.pam.session
  /\ helper.pc \in {"told", "open"} => helper.pam.trusted
  /\ (helper.pc = "start" \/ (child.pc # "none" /\ helper.pc # "gone")) =>
        helper.pam.trusted /\ helper.pam.cred /\ helper.pam.session
  /\ helper.pam.session => helper.pam.open

\* Whose the child and its cookie file are.
OwnersByStage ==
  /\ child.pc \in {"exec", "program", "starter"} => child.uid = "user" /\ child.groups = "user"
  /\ (helper.pc # "gone" /\ NeedsCookie) =>
        /\ child.pc \in AsRoot => helper.xauth = "root"
        /\ child.pc \in {"exec", "program", "starter"} => helper.xauth = "user"

Recorded(what) == \E i \in DOMAIN records : records[i] = <<what, Pid>>

\* A login is recorded with the process number that the logout will take from
\* cached, which start() sets also when the session is then given up, and which
\* is set while the daemon's reply is awaited.
RecordsByStage ==
  /\ helper.pc \in Beginning \cup {"forked", "opened", "failed", "loop"} => helper.code = "SUCCESS"
  /\ helper.pc \in Beginning \cup {"forked"} => helper.cached = -1
  /\ helper.pc \in {"opened", "failed"} => ~Recorded("login")
  /\ (helper.pc = "opened" /\ kind.class = "user") => helper.cached = Pid
  /\ helper.pc # "gone" => ~Recorded("logout")
  /\ Recorded("login") => helper.cached = Pid /\ kind.class = "user"
  /\ (helper.pc \notin {"opened", "failed", "gone"} /\ helper.cached = Pid /\ kind.class = "user"
        /\ helper.code # "SESSION_ERROR") => Recorded("login")

Inv == /\ TypeOK /\ ChildrenByStage /\ ChildByStage /\ GrantedByStage /\ OwnersByStage
       /\ RecordsByStage /\ NoOrphans /\ ProgramIsCovered /\ RecordsAreBalanced /\ JumpReturns

-----------------------------------------------------------------------------
(* Type correctness *)

\* The members of the enumerations that the starter's steps name.
LEMMA StarterNames ==
  /\ {"starting", "number", "cookie", "setup", "loop", "stopClient", "stopServer",
      "stopScript", "exited"} \subseteq Stages
  /\ {"none", "up", "ended", "failed", "gone"} \subseteq Children
  /\ {"SUCCESS", "SESSION_ERROR", "DISPLAYSERVER_ERROR", "CRASH", "TERM"} \subseteq Codes
BY DEF Stages, Children, Codes

\* A starter that quits is one still, whatever the exit code.
LEMMA QuitTyped ==
  ASSUME NEW s \in StarterSet, NEW code \in Codes
  PROVE  Quit(s, code) \in StarterSet
BY StarterNames DEF Quit, StarterSet

\* Who changes the starter: itself, its children, and the child it is.
LEMMA StarterTyped ==
  ASSUME TypeOK, [Next]_vars
  PROVE  starter' \in StarterSet
<1> USE StarterNames DEF StarterSet
<1>0. starter \in StarterSet
  BY DEF TypeOK
<1>1. CASE UNCHANGED starter
  BY <1>0, <1>1
<1>2. CASE StartWayland
  BY <1>0, <1>2 DEF StartWayland
<1>3. CASE SocketFound
  <2>1. PICK c \in Children : starter' = [starter EXCEPT !.timer = FALSE, !.client = c]
    BY <1>3 DEF SocketFound
  <2> QED
    BY <1>0, <2>1
<1>4. CASE WatchTimesOut
  <2> DEFINE s == [starter EXCEPT !.timer = FALSE, !.watch = "Failed"]
  <2>1. s \in StarterSet
    BY <1>0
  <2>2. starter' \in {s, Quit(s, "SESSION_ERROR")}
    BY <1>4 DEF WatchTimesOut
  <2> HIDE DEF s
  <2> QED
    BY <2>1, <2>2, QuitTyped
<1>5. CASE StartX11
  BY <1>0, <1>5 DEF StartX11
<1>6. CASE ReadNumber
  <2>1. PICK c \in Children :
          starter' \in {[starter EXCEPT !.pc = "cookie", !.client = c],
                       [starter EXCEPT !.pc = "loop"]}
    BY <1>6 DEF ReadNumber
  <2> QED
    BY <1>0, <2>1
<1>7. CASE WriteCookie
  <2>1. PICK to \in {"setup", "loop"}, c \in {"empty", "local", "both"} :
          starter' = [starter EXCEPT !.pc = to, !.cookie = c]
    <3>1. PICK w \in WriteCookieToFile :
            starter' = [starter EXCEPT !.pc = IF w.ok THEN "setup" ELSE "loop", !.cookie = w.holds]
      BY <1>7 DEF WriteCookie
    <3>2. w.holds \in {"empty", "local", "both"}
      BY DEF WriteCookieToFile
    <3> QED
      BY <3>1, <3>2
  <2> QED
    BY <1>0, <2>1
<1>8. CASE RunSetup
  BY <1>0, <1>8 DEF RunSetup
<1>9. CASE SlowScriptReaped
  <2> DEFINE s == [starter EXCEPT !.slow = FALSE]
  <2>1. s \in StarterSet
    BY <1>0
  <2>2. starter' = Quit(s, "SUCCESS")
    BY <1>9 DEF SlowScriptReaped
  <2> HIDE DEF s
  <2> QED
    BY <2>1, <2>2, QuitTyped
<1>10. CASE ServerReaped
  BY <1>0, <1>10, QuitTyped DEF ServerReaped
<1>11. CASE ClientReaped
  BY <1>0, <1>11, QuitTyped DEF ClientReaped
<1>12. CASE Terminated
  <2> DEFINE s == [starter EXCEPT !.term = FALSE]
  <2>1. s \in StarterSet
    BY <1>0
  <2>2. PICK code \in Codes : starter' = Quit(s, code)
    BY <1>12 DEF Terminated
  <2> HIDE DEF s
  <2> QED
    BY <2>1, <2>2, QuitTyped
<1>13. CASE StopClient
  BY <1>0, <1>13 DEF StopClient
<1>14. CASE StopServer
  BY <1>0, <1>14 DEF StopServer
<1>15. CASE StopScript
  BY <1>0, <1>15 DEF StopScript
<1>16. CASE ChildStep
  <2>1. CASE SocketAppears
    BY <1>0, <2>1 DEF SocketAppears
  <2>2. CASE ServerEnds
    <3>1. PICK how \in {"ended", "failed"} :
            starter' = [starter EXCEPT !.server = how, !.socket = FALSE]
      BY <2>2 DEF ServerEnds
    <3>2. how \in Children
      BY DEF Children
    <3> QED
      BY <1>0, <3>1, <3>2
  <2>3. CASE ClientEnds
    BY <1>0, <2>3 DEF ClientEnds
  <2> QED
    BY <1>16, <2>1, <2>2, <2>3 DEF ChildStep
<1>17. CASE Exec
  BY <1>0, <1>17 DEF Exec
<1>18. CASE ChildTerminated
  BY <1>0, <1>18 DEF ChildTerminated
<1>19. CASE KillSession
  BY <1>0, <1>19 DEF KillSession
<1> QED
  BY <1>1, <1>2, <1>3, <1>4, <1>5, <1>6, <1>7, <1>8, <1>9, <1>10, <1>11, <1>12, <1>13,
     <1>14, <1>15, <1>16, <1>17, <1>18, <1>19
     DEF Next, HelperRuns, PamRuns, AsksUser, UserAnswers, DaemonReplies, ForkedStep, Starter,
         StarterStep, vars, SetUp, Authenticated, OpenPam, Fork, Started, SessionFinished,
         SigtermReceived, StopSession, CloseSession, TakeTerminal, Jumped, BecomeUser, StarterEnds,
         ProgramEnds, Terminate, Killed

\* The calls to PAM make a handle of a handle.
LEMMA HandleTyped ==
  ASSUME NEW p \in HandleSet
  PROVE  /\ \A ok \in BOOLEAN : /\ Pam!Start(p, ok) \in HandleSet
                               /\ Pam!Authenticate(p, ok) \in HandleSet
                               /\ Pam!OpenSession(p, ok) \in HandleSet
         /\ \A establish, ok \in BOOLEAN : Pam!SetCred(p, establish, ok) \in HandleSet
         /\ Pam!CloseSession(p) \in HandleSet
         /\ Pam!End(p) \in HandleSet
BY DEF HandleSet, Pam!Start, Pam!Authenticate, Pam!OpenSession, Pam!SetCred,
       Pam!CloseSession, Pam!End

\* The stages and exit codes that occur, by name.
LEMMA HelperNames ==
  /\ {"auth", "asking", "told", "open", "start", "forked", "opened", "failed", "loop", "stopping",
      "waiting", "gone"}
        \subseteq Beginning \cup {"forked", "opened", "failed", "loop", "stopping", "waiting",
                               "gone"}
  /\ {"SUCCESS", "AUTH_ERROR", "SESSION_ERROR", "OTHER_ERROR", "TTY_ERROR", "CRASH", "TERM"}
        \subseteq Codes
BY DEF Beginning, Codes

\* A helper that exits is one still.
LEMMA ExitTyped ==
  ASSUME NEW h \in HelperSet, NEW code \in Codes
  PROVE  Exit(h, code) \in HelperSet
BY HelperNames DEF Exit, HelperSet

\* What Authenticated and OpenPam leave in the helper.
LEMMA AuthenticatedResult ==
  ASSUME TypeOK, GrantedByStage, Authenticated
  PROVE  \E p \in HandleSet :
           LET h == [helper EXCEPT !.pam = p]
           IN /\ ~p.session
              /\ \/ /\ helper' = [h EXCEPT !.pc = "told"] /\ p.trusted
                    /\ UNCHANGED records
                 \/ /\ helper' = Exit(h, "AUTH_ERROR")
                    /\ records' = UtmpLogin(records, 0, FALSE)
<1>1. PICK started, ok, changed \in BOOLEAN, verdict \in {"success", "expired", "error"} :
        LET p == Pam!Authenticate(Pam!Start(helper.pam, started),
                              started /\ ok /\ Pam!AcctMgmt(verdict, changed))
            h == [helper EXCEPT !.pam = p]
        IN IF p.trusted THEN helper' = [h EXCEPT !.pc = "told"] /\ UNCHANGED records
                        ELSE /\ helper' = Exit(h, "AUTH_ERROR")
                             /\ records' = UtmpLogin(records, 0, FALSE)
  BY DEF Authenticated
<1> DEFINE verified == started /\ ok /\ Pam!AcctMgmt(verdict, changed)
           p == Pam!Authenticate(Pam!Start(helper.pam, started), verified)
<1>2. helper.pam \in HandleSet /\ ~helper.pam.session
  BY DEF TypeOK, HelperSet, GrantedByStage, Authenticated
<1>3. Pam!Start(helper.pam, started) \in HandleSet
  BY <1>2, HandleTyped
<1>4. p \in HandleSet
  BY <1>3, HandleTyped
<1>5. ~p.session
  BY <1>2 DEF HandleSet, Pam!Authenticate, Pam!Start
<1> HIDE DEF p
<1> QED
  BY <1>1, <1>4, <1>5 DEF p

\* OpenPam goes on to the start only with a session that is open and whose
\* user was authenticated.
LEMMA OpenPamResult ==
  ASSUME TypeOK, GrantedByStage, OpenPam
  PROVE  \E p \in HandleSet :
           LET h == [helper EXCEPT !.pam = p]
           IN /\ p.session => p.trusted /\ p.cred /\ p.open
              /\ helper' = [h EXCEPT !.pc = IF p.session THEN "start" ELSE "failed"]
<1>1. PICK cred, put, opened \in BOOLEAN :
        LET established == Pam!SetCred(helper.pam, TRUE, cred)
            p == IF cred /\ put THEN Pam!OpenSession(established, opened) ELSE established
            h == [helper EXCEPT !.pam = p]
        IN helper' = IF p.session THEN [h EXCEPT !.pc = "start"] ELSE [h EXCEPT !.pc = "failed"]
  BY DEF OpenPam
<1> DEFINE established == Pam!SetCred(helper.pam, TRUE, cred)
           p == IF cred /\ put THEN Pam!OpenSession(established, opened) ELSE established
<1>2. helper.pam \in HandleSet /\ helper.pam.trusted /\ ~helper.pam.session
  BY DEF TypeOK, HelperSet, GrantedByStage, OpenPam
<1>3. /\ established \in HandleSet /\ established.trusted /\ ~established.session
      /\ established.cred = (cred \/ helper.pam.cred)
  BY <1>2 DEF HandleSet, Pam!SetCred
<1> HIDE DEF established
<1>4. p \in HandleSet
  BY <1>3, HandleTyped
<1>5. p.session => p.trusted /\ p.cred /\ p.open
  BY <1>3 DEF HandleSet, Pam!OpenSession
<1>6. helper' = LET h == [helper EXCEPT !.pam = p]
                IN IF p.session THEN [h EXCEPT !.pc = "start"] ELSE [h EXCEPT !.pc = "failed"]
  BY <1>1 DEF established
<1> HIDE DEF p
<1> QED
  BY <1>4, <1>5, <1>6

\* closeSession and ~PamHandle leave neither a session nor a handle.
LEMMA ClosePamResult ==
  ASSUME NEW h \in HelperSet
  PROVE  /\ ClosePam(h) \in HelperSet
         /\ ClosePam(h) = [h EXCEPT !.pam = ClosePam(h).pam]
         /\ ~ClosePam(h).pam.handle
         /\ (h.pam.session => h.pam.open) => ~ClosePam(h).pam.session
<1> DEFINE closed == IF h.pam.open THEN Pam!SetCred(Pam!CloseSession(h.pam), FALSE, TRUE) ELSE h.pam
<1>1. h.pam \in HandleSet
  BY DEF HelperSet
<1>2. closed \in HandleSet /\ ((h.pam.session => h.pam.open) => ~closed.session)
  BY <1>1 DEF HandleSet, Pam!SetCred, Pam!CloseSession
<1>3. ClosePam(h) = [h EXCEPT !.pam = Pam!End(closed)]
  BY DEF ClosePam, HelperSet
<1> HIDE DEF closed
<1>4. /\ Pam!End(closed) \in HandleSet /\ ~Pam!End(closed).handle
      /\ (h.pam.session => h.pam.open) => ~Pam!End(closed).session
  BY <1>2 DEF HandleSet, Pam!End
<1> QED
  BY <1>3, <1>4 DEF HelperSet

\* Every step leaves a helper of its type.
LEMMA HelperTyped ==
  ASSUME TypeOK, GrantedByStage, [Next]_vars
  PROVE  helper' \in HelperSet
<1> USE HelperNames
<1>0. helper \in HelperSet /\ child.code \in Codes
  BY DEF TypeOK, ChildSet
<1>1. CASE UNCHANGED helper
  BY <1>0, <1>1
<1>2. CASE SetUp
  BY <1>0, <1>2 DEF SetUp, HelperSet
<1>3. CASE Authenticated
  <2>1. PICK h \in HelperSet, code \in Codes : helper' \in {Exit(h, code), [h EXCEPT !.pc = "told"]}
    BY <1>0, <1>3, AuthenticatedResult DEF HelperSet
  <2>2. [h EXCEPT !.pc = "told"] \in HelperSet
    BY DEF HelperSet
  <2> QED
    BY <2>1, <2>2, ExitTyped
<1>4. CASE OpenPam
  <2>1. PICK h \in HelperSet :
          helper' \in {[h EXCEPT !.pc = "start"], [h EXCEPT !.pc = "failed"]}
    BY <1>0, <1>4, OpenPamResult DEF HelperSet
  <2> QED
    BY <2>1 DEF HelperSet
<1>5. CASE Fork
  <2>1. PICK x \in {"none", "root", "user"} :
          helper' \in {[helper EXCEPT !.pc = "failed"],
                      [helper EXCEPT !.pc = "forked", !.xauth = x]}
    BY <1>5 DEF Fork
  <2> QED
    BY <1>0, <2>1 DEF HelperSet
<1>6. CASE Started
  <2>1. PICK pc \in {"failed", "opened"}, pid \in {0, Pid} :
          helper' = [helper EXCEPT !.pc = pc, !.cached = pid]
    BY <1>6 DEF Started
  <2> QED
    BY <1>0, <2>1 DEF HelperSet
<1>7. CASE SessionFinished \/ SigtermReceived
  BY <1>0, <1>7, ExitTyped DEF SessionFinished, SigtermReceived
<1>8. CASE StopSession \/ Terminate \/ Killed
  BY <1>0, <1>8 DEF StopSession, Terminate, Killed, HelperSet
<1>9. CASE CloseSession
  <2>1. helper' = [ClosePam(helper) EXCEPT !.pc = "gone", !.xauth = "none"]
    BY <1>9 DEF CloseSession
  <2> QED
    BY <1>0, <2>1, ClosePamResult DEF HelperSet
<1>10. CASE BecomeUser
  BY <1>0, <1>10 DEF BecomeUser, HelperSet
<1>11. CASE AsksUser \/ UserAnswers
  BY <1>0, <1>11 DEF AsksUser, UserAnswers, HelperSet
<1>12. CASE DaemonReplies
  <2>1. PICK pc \in {"open", "loop"} :
          helper' \in {Exit(helper, "SUCCESS"), Exit(helper, "SESSION_ERROR"),
                      [helper EXCEPT !.pc = pc]}
    BY <1>12 DEF DaemonReplies
  <2>2. [helper EXCEPT !.pc = pc] \in HelperSet
    BY <1>0 DEF HelperSet
  <2> QED
    BY <1>0, <2>1, <2>2, ExitTyped
<1> QED
  BY <1>1, <1>2, <1>3, <1>4, <1>5, <1>6, <1>7, <1>8, <1>9, <1>10, <1>11, <1>12
     DEF Next, HelperRuns, PamRuns, ForkedStep, Starter, vars, KillSession, TakeTerminal, Jumped,
         Exec, StarterEnds, ChildTerminated, ProgramEnds

\* Every step leaves a child of its type.
LEMMA ChildTyped ==
  ASSUME TypeOK, [Next]_vars
  PROVE  child' \in ChildSet
<1>0. child \in ChildSet /\ starter.code \in Codes
  BY DEF TypeOK, StarterSet
<1>1. {"unstarted", "program", "starter", "ended", "gone", "terminal", "jump", "user", "exec"}
        \subseteq Unstarted \cup {"unstarted", "program", "starter", "ended", "gone"}
  BY DEF Unstarted, AsRoot
<1> USE <1>1, HelperNames DEF ChildSet
<1>2. CASE UNCHANGED child
  BY <1>0, <1>2
<1>3. CASE Fork
  BY <1>0, <1>3 DEF Fork, NoChild
<1>4. CASE TakeTerminal
  <2>1. CASE child' = [child EXCEPT !.pc = "user"]
    BY <1>0, <2>1
  <2>2. CASE \E opened \in BOOLEAN : child' = [child EXCEPT !.pc = "jump", !.tty = opened]
    BY <1>0, <2>2
  <2>3. CASE \E code \in {"TTY_ERROR", "OTHER_ERROR"} :
               child' = [child EXCEPT !.pc = "ended", !.code = code]
    <3>1. PICK code \in Codes : child' = [child EXCEPT !.pc = "ended", !.code = code]
      BY <2>3
    <3> QED
      BY <1>0, <3>1
  <2> QED
    BY <1>4, <2>1, <2>2, <2>3 DEF TakeTerminal
<1>5. CASE Jumped \/ BecomeUser \/ Exec
  BY <1>0, <1>5 DEF Jumped, BecomeUser, Exec
<1>6. CASE StarterEnds \/ ChildTerminated
  BY <1>0, <1>6 DEF StarterEnds, ChildTerminated
<1>7. CASE ProgramEnds
  <2>1. PICK code \in Codes : child' = [child EXCEPT !.pc = "ended", !.code = code]
    BY <1>7 DEF ProgramEnds
  <2> QED
    BY <1>0, <2>1
<1>8. CASE SessionFinished \/ StopSession \/ KillSession
  BY <1>0, <1>8 DEF SessionFinished, StopSession, KillSession
<1> QED
  BY <1>2, <1>3, <1>4, <1>5, <1>6, <1>7, <1>8
     DEF Next, HelperRuns, PamRuns, AsksUser, UserAnswers, DaemonReplies, ForkedStep, Starter,
         vars, SetUp, Authenticated, OpenPam, Started, SigtermReceived, CloseSession, Terminate,
         Killed

\* What jumpToVt makes of the terminals, and that they can then be switched.
LEMMA PrepareJumpResult ==
  ASSUME NEW v \in VtSet, NEW opened \in BOOLEAN, NEW auto \in BOOLEAN
  PROVE  LET w == PrepareJump(v, "new", opened, auto, "child")
         IN /\ w \in VtSet
            /\ opened \/ ~auto => CanSwitch(w, "new")
<1>1. ASSUME NEW x \in VtSet, NEW t \in Vts
      PROVE  /\ HandleVtSwitches(x, t, "child") \in VtSet
             /\ CanSwitch(x, "new") \/ t = x.active
                  => CanSwitch(HandleVtSwitches(x, t, "child"), "new")
  BY DEF VtSet, HandleVtSwitches, CanSwitch
<1>2. ASSUME NEW x \in VtSet, NEW t \in Vts, NEW k \in {"text", "graphics"}
      PROVE  [x EXCEPT !.kd[t] = k] \in VtSet
  BY DEF VtSet
<1>3. ASSUME NEW x \in VtSet
      PROVE  FixVtMode(x, auto, "child") \in VtSet /\ CanSwitch(FixVtMode(x, auto, "child"), "new")
  <2>1. x.active \in Vts
    BY DEF VtSet
  <2>2. CASE x.mode[x.active] # "auto" \/ x.kd[x.active] = "text"
    <3>1. CanSwitch(x, "new")
      BY <2>1, <2>2 DEF VtSet, CanSwitch
    <3> QED
      BY <2>2, <3>1 DEF FixVtMode
  <2>3. CASE x.mode[x.active] = "auto" /\ x.kd[x.active] # "text" /\ auto
    <3> DEFINE w == [x EXCEPT !.kd[x.active] = "text"]
    <3>1. w \in VtSet /\ w.active = x.active /\ w.kd[x.active] = "text"
      BY <2>1, <1>2 DEF VtSet
    <3>2. FixVtMode(x, auto, "child") = w
      BY <2>3 DEF FixVtMode
    <3> HIDE DEF w
    <3> QED
      BY <3>1, <3>2 DEF CanSwitch
  <2>4. CASE x.mode[x.active] = "auto" /\ x.kd[x.active] # "text" /\ ~auto
    BY <1>1, <2>1, <2>4 DEF FixVtMode
  <2> QED
    BY <2>2, <2>3, <2>4
<1> DEFINE fixed == IF opened THEN FixVtMode([v EXCEPT !.kd["new"] = "graphics"], auto, "child") ELSE v
<1>4. "new" \in Vts
  BY UserSessionAssumption
<1>5. fixed \in VtSet /\ (opened => CanSwitch(fixed, "new"))
  BY <1>2, <1>3, <1>4
<1>6. fixed.active \in Vts
  BY <1>5 DEF VtSet
<1>7. PrepareJump(v, "new", opened, auto, "child") =
        IF auto THEN fixed ELSE HandleVtSwitches(fixed, IF opened THEN "new" ELSE fixed.active, "child")
  BY DEF PrepareJump
<1> HIDE DEF fixed
<1> QED
  BY <1>1, <1>4, <1>5, <1>6, <1>7

\* Every step leaves the terminals of their type.
LEMMA VtTyped ==
  ASSUME TypeOK, [Next]_vars
  PROVE  vt' \in VtSet
<1>0. vt \in VtSet
  BY DEF TypeOK
<1>1. CASE UNCHANGED vt
  BY <1>0, <1>1
<1>2. CASE TakeTerminal
  <2>1. PICK opened \in BOOLEAN :
          UNCHANGED vt \/ vt' = PrepareJump(vt, "new", opened, VtAuto, "child")
    BY <1>2 DEF TakeTerminal
  <2> QED
    BY <1>0, <2>1, PrepareJumpResult DEF VtAuto
<1>3. CASE Jumped
  <2>1. PICK alive : vt' = Switched(vt, "new", alive)
    BY <1>3 DEF Jumped
  <2>2. "new" \in Vts /\ vt.active \in Vts
    BY <1>0, UserSessionAssumption DEF VtSet
  <2>3. Switched(vt, "new", alive) \in VtSet
    BY <1>0, <2>2 DEF Switched, VtSet
  <2> QED
    BY <2>1, <2>3
<1> QED
  BY <1>1, <1>2, <1>3
     DEF Next, HelperRuns, PamRuns, AsksUser, UserAnswers, DaemonReplies, ForkedStep, Starter,
         vars, SetUp, Authenticated, OpenPam, Fork, Started, SessionFinished, SigtermReceived,
         StopSession, CloseSession, KillSession, Terminate, Killed, BecomeUser, Exec, StarterEnds,
         ChildTerminated, ProgramEnds

\* The record that a step may add.
LEMMA RecordsResult ==
  ASSUME TypeOK, [Next]_vars, records' # records
  PROVE  \/ Authenticated /\ records' = Append(records, <<"failed", 0>>)
         \/ DaemonReplies /\ records' = Append(records, <<"login", Pid>>) /\ kind.class = "user"
         \/ /\ CloseSession /\ records' = Append(records, <<"logout", helper.cached>>)
            /\ helper.cached \in {0, Pid} /\ kind.class = "user"
<1>1. CASE Authenticated
  BY <1>1 DEF Authenticated, UtmpLogin
<1>2. CASE DaemonReplies
  BY <1>2 DEF DaemonReplies, UtmpLogin
<1>3. CASE CloseSession
  <2>1. helper.cached \in {-1, 0, Pid}
    BY DEF TypeOK, HelperSet
  <2> QED
    BY <1>3, <2>1 DEF CloseSession, UtmpLogout, Pid
<1> QED
  BY <1>1, <1>2, <1>3
     DEF Next, HelperRuns, PamRuns, AsksUser, UserAnswers, Started, ForkedStep, Starter, vars,
         SetUp, OpenPam, Fork, SessionFinished, SigtermReceived, StopSession, KillSession,
         TakeTerminal, Jumped, Terminate, Killed, BecomeUser, Exec, StarterEnds, ChildTerminated,
         ProgramEnds

\* Every step leaves records of their type.
LEMMA RecordsTyped ==
  ASSUME TypeOK, [Next]_vars
  PROVE  records' \in Seq({"login", "failed", "logout"} \X {0, Pid})
<1>1. records \in Seq({"login", "failed", "logout"} \X {0, Pid})
  BY DEF TypeOK
<1>2. CASE UNCHANGED records
  BY <1>1, <1>2
<1>3. CASE ~UNCHANGED records
  <2>1. PICK r \in {"login", "failed", "logout"} \X {0, Pid} : records' = Append(records, r)
    BY <1>3, RecordsResult
  <2> QED
    BY <1>1, <2>1
<1> QED
  BY <1>2, <1>3

-----------------------------------------------------------------------------
(* The starter's children *)

\* No handler of the starter runs before the child is the starter.
LEMMA StarterWaits ==
  ASSUME starter.pc = "off"
  PROVE  ~StarterStep
BY DEF StarterStep, StartWayland, SocketFound, WatchTimesOut, StartX11, ReadNumber, WriteCookie,
       RunSetup, SlowScriptReaped, ServerReaped, ClientReaped, Terminated, StopClient,
       StopServer, StopScript, InLoop

\* Leaving the loop stops the client first, or the server first.
LEMMA QuitResult ==
  ASSUME NEW s \in StarterSet, NEW code
  PROVE  /\ Quit(s, code).pc = IF s.kind = "wayland" THEN "stopClient" ELSE "stopServer"
         /\ Quit(s, code).kind = s.kind
BY DEF Quit, StarterSet

\* No step of the starter goes past a child it has still to stop, and no other
\* step makes one run.
LEMMA ChildrenByStageStep ==
  ASSUME TypeOK, ChildByStage, ChildrenByStage, NoOrphans, [Next]_vars
  PROVE  ChildrenByStage' /\ NoOrphans'
<1>0. starter \in StarterSet /\ child \in ChildSet
  BY DEF TypeOK
<1> USE DEF ChildrenByStage, NoOrphans, Unstarted, AsRoot
<1>1. CASE UNCHANGED <<starter, child>>
  BY <1>1
<1>2. CASE StarterStep /\ UNCHANGED child
  <2>1. starter.pc # "off" /\ child.pc \notin Unstarted
    BY <1>2, StarterWaits
  <2> USE <1>0, <1>2, <2>1
  <2>2. CASE StartWayland
    BY <2>2 DEF StartWayland, StarterSet
  <2>3. CASE SocketFound
    BY <2>3 DEF SocketFound, InLoop, StarterSet
  <2>4. CASE WatchTimesOut
    <3>1. PICK s \in StarterSet : starter' \in {s, Quit(s, "SESSION_ERROR")} /\ s.pc = "loop"
      <4> DEFINE s == [starter EXCEPT !.timer = FALSE, !.watch = "Failed"]
      <4>1. s \in StarterSet /\ s.pc = "loop"
        BY <2>4 DEF WatchTimesOut, InLoop, StarterSet
      <4>2. starter' \in {s, Quit(s, "SESSION_ERROR")}
        BY <2>4 DEF WatchTimesOut
      <4> QED
        BY <4>1, <4>2
    <3>2. starter'.pc = "loop" \/ starter'.pc = IF starter'.kind = "wayland" THEN "stopClient"
                                                                            ELSE "stopServer"
      BY <3>1, QuitResult
    <3>3. /\ starter'.pc \notin {"off", "starting", "stopScript", "exited"}
          /\ ~(starter'.pc = "stopServer" /\ starter'.kind = "wayland")
      BY <3>2
    <3> QED
      BY <3>3
  <2>5. CASE StartX11
    BY <2>5 DEF StartX11, StarterSet
  <2>6. CASE ReadNumber
    <3>1. PICK c : starter' \in {[starter EXCEPT !.pc = "cookie", !.client = c],
                                [starter EXCEPT !.pc = "loop"]}
      BY <2>6 DEF ReadNumber
    <3>2. starter'.pc \in {"cookie", "loop"}
      BY <3>1 DEF StarterSet
    <3> QED
      BY <3>2
  <2>7. CASE WriteCookie
    BY <2>7 DEF WriteCookie, StarterSet
  <2>8. CASE RunSetup
    BY <2>8 DEF RunSetup, StarterSet
  <2>9. CASE SlowScriptReaped
    BY <2>9 DEF SlowScriptReaped, Quit, StarterSet
  <2>10. CASE ServerReaped
    BY <2>10 DEF ServerReaped, InLoop, Quit, StarterSet
  <2>11. CASE ClientReaped
    BY <2>11 DEF ClientReaped, Quit, StarterSet
  <2>12. CASE Terminated
    BY <2>12 DEF Terminated, Quit, StarterSet
  <2>13. CASE StopClient
    BY <2>13 DEF StopClient, StarterSet
  <2>14. CASE StopServer
    BY <2>14 DEF StopServer, StarterSet
  <2>15. CASE StopScript
    BY <2>15 DEF StopScript, StarterSet
  <2> QED
    BY <2>2, <2>3, <2>4, <2>5, <2>6, <2>7, <2>8, <2>9, <2>10, <2>11, <2>12, <2>13, <2>14,
       <2>15 DEF StarterStep
<1>3. CASE ChildStep /\ UNCHANGED child
  BY <1>0, <1>3 DEF ChildStep, SocketAppears, ServerEnds, ClientEnds, StarterSet
<1>4. CASE Fork \/ TakeTerminal \/ Jumped \/ BecomeUser
  <2>1. UNCHANGED starter /\ child.pc \in Unstarted
    <3>1. CASE Fork
      BY <3>1 DEF Fork, ChildByStage, Beginning
    <3>2. CASE TakeTerminal \/ Jumped \/ BecomeUser
      BY <3>2 DEF TakeTerminal, Jumped, BecomeUser
    <3> QED
      BY <1>4, <3>1, <3>2
  <2> QED
    BY <2>1
<1>5. CASE Exec
  BY <1>0, <1>5 DEF Exec, StarterSet, ChildSet
<1>6. CASE ProgramEnds \/ StarterEnds \/ SessionFinished \/ StopSession
  BY <1>0, <1>6 DEF ProgramEnds, StarterEnds, SessionFinished, StopSession, ChildSet
<1>7. CASE ChildTerminated
  BY <1>0, <1>7 DEF ChildTerminated, StarterSet, ChildSet
<1>8. CASE KillSession
  BY <1>0, <1>8 DEF KillSession, StarterSet, ChildSet
<1> QED
  BY <1>1, <1>2, <1>3, <1>4, <1>5, <1>6, <1>7, <1>8
     DEF Next, HelperRuns, PamRuns, AsksUser, UserAnswers, DaemonReplies, ForkedStep, Starter,
         vars, SetUp, Authenticated, OpenPam, Started, SigtermReceived, CloseSession, Terminate,
         Killed

-----------------------------------------------------------------------------
(* The helper and its child *)

\* A starter's step, and one of its children's, changes nothing else.
LEMMA ChildByStageStep ==
  ASSUME TypeOK, ChildByStage, [Next]_vars
  PROVE  ChildByStage'
<1>0. helper \in HelperSet /\ child \in ChildSet
  BY DEF TypeOK
<1> USE DEF ChildByStage, Beginning, Alive
<1>1. CASE UNCHANGED <<helper, child>>
  BY <1>1
<1>2. CASE SetUp
  BY <1>0, <1>2 DEF SetUp, HelperSet
<1>3. CASE Authenticated
  <2>1. child.pc = "none" /\ UNCHANGED child
    BY <1>3 DEF Authenticated
  <2> QED
    BY <2>1
<1>4. CASE OpenPam
  <2>1. child.pc = "none" /\ UNCHANGED child
    BY <1>4 DEF OpenPam
  <2> QED
    BY <2>1
<1>5. CASE Fork
  BY <1>0, <1>5 DEF Fork, Exit, HelperSet
<1>6. CASE Started
  <2>1. helper'.pc \in {"failed", "opened"}
    BY <1>0, <1>6 DEF Started, HelperSet
  <2> QED
    BY <2>1
<1>7. CASE SessionFinished \/ SigtermReceived \/ StopSession
  BY <1>0, <1>7 DEF SessionFinished, SigtermReceived, StopSession, Exit, HelperSet
<1>8. CASE CloseSession
  BY <1>0, <1>8, ClosePamResult DEF CloseSession, HelperSet
<1>9. CASE KillSession
  BY <1>0, <1>9 DEF KillSession, HelperSet, ChildSet
<1>10. CASE Terminate \/ Killed
  BY <1>0, <1>10 DEF Terminate, Killed, HelperSet
<1>11. CASE ForkedStep \/ ProgramEnds
  <2>1. child.pc # "none" /\ child'.pc # "none" /\ (~Alive => ~Alive')
    BY <1>0, <1>11 DEF ForkedStep, ProgramEnds, TakeTerminal, Jumped, BecomeUser, Exec, StarterEnds,
       ChildTerminated, ChildSet
  <2>2. helper'.pc = helper.pc /\ helper'.killed = helper.killed
    BY <1>0, <1>11 DEF ForkedStep, ProgramEnds, TakeTerminal, Jumped, BecomeUser, Exec, StarterEnds,
       ChildTerminated, HelperSet
  <2> QED
    BY <2>1, <2>2
<1>12. CASE AsksUser \/ UserAnswers \/ DaemonReplies
  <2>1. /\ UNCHANGED child
        /\ helper.pc \in Beginning \/ helper'.pc \notin Beginning
        /\ helper'.pc # "gone"
    BY <1>0, <1>12 DEF AsksUser, UserAnswers, DaemonReplies, Exit, HelperSet
  <2> QED
    BY <2>1
<1> QED
  BY <1>1, <1>2, <1>3, <1>4, <1>5, <1>6, <1>7, <1>8, <1>9, <1>10, <1>11, <1>12
     DEF Next, HelperRuns, PamRuns, Starter, vars

\* PAM has granted what the stage of the helper needs, after every step.
LEMMA GrantedByStageStep ==
  ASSUME TypeOK, ChildByStage, GrantedByStage, [Next]_vars
  PROVE  GrantedByStage'
<1>0. helper \in HelperSet /\ child \in ChildSet
  BY DEF TypeOK
<1> USE DEF GrantedByStage
<1>1. CASE UNCHANGED <<helper, child>>
  BY <1>1
<1>2. CASE SetUp
  BY <1>0, <1>2 DEF SetUp, HelperSet, ChildByStage, Beginning
<1>3. CASE Authenticated
  <2>1. child.pc = "none" /\ UNCHANGED child
    BY <1>3 DEF Authenticated, ChildByStage, Beginning
  <2>2. PICK p \in HandleSet :
          /\ ~p.session /\ helper'.pam = p
          /\ helper'.pc = "stopping" \/ (helper'.pc = "told" /\ p.trusted)
    BY <1>0, <1>3, AuthenticatedResult DEF Exit, HelperSet
  <2> QED
    BY <2>1, <2>2
<1>4. CASE OpenPam
  <2>1. child.pc = "none" /\ UNCHANGED child
    BY <1>4 DEF OpenPam, ChildByStage, Beginning
  <2>2. PICK p \in HandleSet :
          /\ p.session => p.trusted /\ p.cred /\ p.open
          /\ helper'.pam = p
          /\ helper'.pc = IF p.session THEN "start" ELSE "failed"
    BY <1>0, <1>4, OpenPamResult DEF HelperSet
  <2> QED
    BY <2>1, <2>2
<1>5. CASE Fork
  <2>1. helper'.pam = helper.pam /\ helper.pc = "start" /\ helper'.pc \in {"failed", "forked"}
    BY <1>0, <1>5 DEF Fork, HelperSet
  <2> QED
    BY <2>1
<1>6. CASE Started
  <2>1. helper'.pam = helper.pam /\ helper.pc = "forked" /\ helper'.pc \in {"failed", "opened"}
    BY <1>0, <1>6 DEF Started, HelperSet
  <2> QED
    BY <1>6, <2>1 DEF Started
<1>7. CASE SessionFinished \/ SigtermReceived \/ StopSession
  BY <1>0, <1>7 DEF SessionFinished, SigtermReceived, StopSession, Exit, HelperSet, ChildSet
<1>8. CASE CloseSession
  <2>1. helper'.pc = "gone" /\ helper'.pam = ClosePam(helper).pam /\ ~helper'.pam.session
    BY <1>0, <1>8, ClosePamResult DEF CloseSession, HelperSet
  <2> QED
    BY <2>1
<1>9. CASE KillSession
  BY <1>0, <1>9 DEF KillSession, ChildSet, Alive
<1>10. CASE Terminate \/ Killed
  BY <1>0, <1>10 DEF Terminate, Killed, HelperSet
<1>11. CASE ForkedStep \/ ProgramEnds
  <2>1. child.pc # "none"
    BY <1>0, <1>11 DEF ForkedStep, ProgramEnds, TakeTerminal, Jumped, BecomeUser, Exec, StarterEnds,
       ChildTerminated, ChildSet
  <2>2. helper'.pc = helper.pc /\ helper'.pam = helper.pam
    BY <1>0, <1>11 DEF ForkedStep, ProgramEnds, TakeTerminal, Jumped, BecomeUser, Exec, StarterEnds,
       ChildTerminated, HelperSet
  <2>3. helper.pc \notin Beginning
    BY <2>1 DEF ChildByStage, Beginning
  <2> QED
    BY <2>1, <2>2, <2>3
<1>12. CASE AsksUser \/ UserAnswers \/ DaemonReplies
  <2>1. /\ UNCHANGED child /\ helper'.pam = helper.pam /\ helper.pc # "gone"
        /\ \/ {helper.pc, helper'.pc} = {"auth", "asking"}
           \/ helper.pc = "told" /\ helper'.pc = "open"
           \/ helper'.pc \in {"stopping", "loop"}
    BY <1>0, <1>12 DEF AsksUser, UserAnswers, DaemonReplies, Exit, HelperSet
  <2> QED
    BY <2>1
<1> QED
  BY <1>1, <1>2, <1>3, <1>4, <1>5, <1>6, <1>7, <1>8, <1>9, <1>10, <1>11, <1>12
     DEF Next, HelperRuns, PamRuns, Starter, vars

\* Whose the child and the cookie file are follows the stage of the child,
\* after every step.
LEMMA OwnersByStageStep ==
  ASSUME TypeOK, ChildByStage, OwnersByStage, [Next]_vars
  PROVE  OwnersByStage'
<1>0. helper \in HelperSet /\ child \in ChildSet
  BY DEF TypeOK
<1>k. UNCHANGED kind
  BY DEF Next, HelperRuns, PamRuns, AsksUser, UserAnswers, DaemonReplies, ForkedStep, Starter,
     vars, SetUp, Authenticated, OpenPam, Fork, Started, SessionFinished, SigtermReceived,
     StopSession, CloseSession, KillSession, TakeTerminal, Jumped, BecomeUser, Exec, StarterEnds,
     ChildTerminated, ProgramEnds, Terminate, Killed
<1>n. NeedsCookie' = NeedsCookie
  BY <1>k DEF NeedsCookie
<1> USE <1>n DEF OwnersByStage, AsRoot
<1>1. CASE UNCHANGED <<helper, child>>
  BY <1>1
<1>2. CASE SetUp \/ Authenticated \/ OpenPam
  <2>1. child.pc = "none" /\ UNCHANGED child
    BY <1>2 DEF SetUp, Authenticated, OpenPam, ChildByStage, Beginning
  <2> QED
    BY <2>1
<1>3. CASE Fork
  <2>1. CASE UNCHANGED child
    <3>1. child.pc = "none"
      BY <1>3 DEF Fork, ChildByStage, Beginning
    <3> QED
      BY <2>1, <3>1
  <2>2. CASE child' # child
    <3>1. child'.pc = "terminal"
      BY <1>3, <2>2 DEF Fork, NoChild
    <3>2. NeedsCookie => helper'.xauth = "root"
      BY <1>0, <1>3, <2>2 DEF Fork, HelperSet
    <3> QED
      BY <3>1, <3>2
  <2> QED
    BY <2>1, <2>2
<1>4. CASE Started \/ SigtermReceived \/ Terminate \/ AsksUser \/ UserAnswers \/ DaemonReplies
  <2>1. helper'.xauth = helper.xauth /\ helper.pc # "gone" /\ UNCHANGED child
    BY <1>0, <1>4 DEF Started, SigtermReceived, Terminate, AsksUser, UserAnswers, DaemonReplies,
       Exit, HelperSet
  <2> QED
    BY <2>1
<1>5. CASE SessionFinished \/ StopSession \/ KillSession
  <2>1. /\ helper'.xauth = helper.xauth /\ helper.pc # "gone"
        /\ child'.pc \in {child.pc, "gone", "ended"}
        /\ child'.uid = child.uid /\ child'.groups = child.groups
    BY <1>0, <1>5 DEF SessionFinished, StopSession, KillSession, Exit, HelperSet, ChildSet
  <2> QED
    BY <2>1
<1>6. CASE CloseSession \/ Killed
  <2>1. helper'.pc = "gone" /\ UNCHANGED child
    BY <1>0, <1>6, ClosePamResult DEF CloseSession, Killed, HelperSet
  <2> QED
    BY <2>1
<1>7. CASE TakeTerminal \/ Jumped
  <2>1. /\ UNCHANGED helper /\ child.pc \in {"terminal", "jump"}
        /\ child'.pc \in {"jump", "user", "ended"}
    BY <1>0, <1>7 DEF TakeTerminal, Jumped, ChildSet
  <2> QED
    BY <2>1
<1>8. CASE BecomeUser
  BY <1>0, <1>8 DEF BecomeUser, HelperSet, ChildSet
<1>9. CASE Exec \/ StarterEnds \/ ChildTerminated \/ ProgramEnds
  <2>1. /\ UNCHANGED helper
        /\ \/ child'.pc \in {"unstarted", "ended"}
           \/ child.pc = "exec" /\ child'.pc \in {"program", "starter"}
           \/ child'.pc = child.pc
        /\ \/ child'.uid = child.uid /\ child'.groups = child.groups
    BY <1>0, <1>9 DEF Exec, StarterEnds, ChildTerminated, ProgramEnds, ChildSet
  <2> QED
    BY <2>1
<1> QED
  BY <1>1, <1>2, <1>3, <1>4, <1>5, <1>6, <1>7, <1>8, <1>9
     DEF Next, HelperRuns, PamRuns, ForkedStep, Starter, vars

-----------------------------------------------------------------------------
(* The records *)

\* One more record than before, at the end.
LEMMA OneMoreRecord ==
  ASSUME TypeOK, NEW r, records' = Append(records, r)
  PROVE  /\ DOMAIN records' = DOMAIN records \cup {Len(records) + 1}
         /\ \A i \in DOMAIN records : i < Len(records) + 1 /\ records'[i] = records[i]
         /\ records'[Len(records) + 1] = r
         /\ \A what : Recorded(what)' <=> (Recorded(what) \/ r = <<what, Pid>>)
<1>1. records \in Seq({"login", "failed", "logout"} \X {0, Pid})
  BY DEF TypeOK
<1>2. /\ DOMAIN records = 1 .. Len(records) /\ Len(records) \in Nat
      /\ DOMAIN records' = 1 .. Len(records) + 1
  BY <1>1
<1>3. /\ DOMAIN records' = DOMAIN records \cup {Len(records) + 1}
      /\ \A i \in DOMAIN records : i < Len(records) + 1
  BY <1>2
<1>4. /\ \A i \in DOMAIN records : records'[i] = records[i]
      /\ records'[Len(records) + 1] = r
  BY <1>1, <1>2
<1> QED
  BY <1>3, <1>4 DEF Recorded

\* The parts of RecordsAreBalanced.
LoginBeforeLogout ==
  helper.code # "SESSION_ERROR" =>
     \A j \in DOMAIN records : records[j] = <<"logout", Pid>> =>
        \E i \in DOMAIN records : i < j /\ records[i] = <<"login", Pid>>
NothingLeftOpen ==
  (helper.pc = "gone" /\ ~helper.killed) =>
     ~helper.pam.session /\ ~helper.pam.handle /\ (Recorded("login") => Recorded("logout"))

\* The property is these two parts.
LEMMA BalancedInParts == RecordsAreBalanced <=> LoginBeforeLogout /\ NothingLeftOpen
BY DEF RecordsAreBalanced, LoginBeforeLogout, NothingLeftOpen, Recorded

RecordsInv == RecordsByStage /\ LoginBeforeLogout /\ NothingLeftOpen

\* Where the records stay as they are.
LEMMA RecordsKept ==
  ASSUME TypeOK, RecordsInv, UNCHANGED <<records, kind>>,
         helper'.cached = helper.cached, helper'.killed = helper.killed,
         \/ /\ helper'.pc = helper.pc /\ helper'.code = helper.code /\ helper'.pam = helper.pam
         \/ /\ helper.pc \in Beginning
            /\ \/ /\ helper'.pc \in Beginning \cup {"forked", "failed", "loop"}
                  /\ helper'.code = helper.code
               \/ helper'.pc = "stopping"
         \/ /\ helper.pc = "loop" /\ helper'.pc = "stopping"
         \/ /\ helper.pc = "failed" /\ helper'.pc = "stopping" /\ helper'.code = "SESSION_ERROR"
         \/ /\ helper.pc = "stopping" /\ helper'.pc = "waiting" /\ helper'.code = helper.code
  PROVE  RecordsInv'
<1> USE DEF RecordsInv
<1>1. \A what : Recorded(what)' <=> Recorded(what)
  BY DEF Recorded
<1>2. CASE helper'.pc = helper.pc /\ helper'.code = helper.code /\ helper'.pam = helper.pam
  BY <1>1, <1>2 DEF RecordsByStage, LoginBeforeLogout, NothingLeftOpen
<1>3. CASE helper.pc # "gone" /\ helper'.pc # "gone"
  <2>1. ~Recorded("logout")
    BY <1>3 DEF RecordsByStage
  <2>2. LoginBeforeLogout' /\ NothingLeftOpen'
    BY <1>3, <2>1 DEF LoginBeforeLogout, NothingLeftOpen, Recorded
  <2>3. RecordsByStage'
    BY <1>1, <1>3 DEF RecordsByStage, Beginning, Pid
  <2> QED
    BY <2>2, <2>3
<1> QED
  BY <1>2, <1>3 DEF Beginning

\* What was recorded follows the stage of the helper, after every step.
LEMMA RecordsByStageStep ==
  ASSUME TypeOK, GrantedByStage, RecordsInv, [Next]_vars
  PROVE  RecordsInv'
<1>0. helper \in HelperSet
  BY DEF TypeOK
<1>k. UNCHANGED kind
  BY DEF Next, HelperRuns, PamRuns, AsksUser, UserAnswers, DaemonReplies, ForkedStep, Starter,
     vars, SetUp, Authenticated, OpenPam, Fork, Started, SessionFinished, SigtermReceived,
     StopSession, CloseSession, KillSession, TakeTerminal, Jumped, BecomeUser, Exec, StarterEnds,
     ChildTerminated, ProgramEnds, Terminate, Killed
<1>1. CASE UNCHANGED <<helper, records>>
  BY <1>1, <1>k, RecordsKept
<1>2. CASE SetUp \/ AsksUser \/ UserAnswers \/ Fork
  <2>1. /\ UNCHANGED records /\ helper.pc \in Beginning
        /\ helper'.cached = helper.cached /\ helper'.killed = helper.killed
        /\ helper'.pc \in {"auth", "asking", "forked", "failed", "loop"}
        /\ helper'.code = helper.code
    BY <1>0, <1>2 DEF SetUp, AsksUser, UserAnswers, Fork, HelperSet, Beginning
  <2> QED
    BY <1>k, <2>1, RecordsKept DEF Beginning
<1>3. CASE OpenPam
  <2>1. /\ UNCHANGED records /\ helper.pc \in Beginning
        /\ helper'.cached = helper.cached /\ helper'.killed = helper.killed
        /\ helper'.pc \in {"start", "failed"} /\ helper'.code = helper.code
    BY <1>0, <1>3, OpenPamResult DEF OpenPam, HelperSet, Beginning
  <2> QED
    BY <1>k, <2>1, RecordsKept DEF Beginning
<1>4. CASE Authenticated
  <2>1. /\ helper.pc \in Beginning
        /\ helper'.cached = helper.cached /\ helper'.killed = helper.killed
        /\ \/ helper'.pc = "told" /\ helper'.code = helper.code
           \/ helper'.pc = "stopping"
    BY <1>0, <1>4, AuthenticatedResult DEF Authenticated, Exit, HelperSet, Beginning
  <2>2. CASE UNCHANGED records
    BY <1>k, <2>1, <2>2, RecordsKept DEF Beginning
  <2>3. CASE records' # records
    <3>1. records' = Append(records, <<"failed", 0>>)
      BY <1>4, <2>3, AuthenticatedResult DEF UtmpLogin
    <3>2. /\ Recorded("login")' <=> Recorded("login")
          /\ Recorded("logout")' <=> Recorded("logout")
      <4>1. <<"failed", 0>> # <<"login", Pid>> /\ <<"failed", 0>> # <<"logout", Pid>>
        OBVIOUS
      <4> QED
        BY <3>1, <4>1, OneMoreRecord
    <3>3. ~Recorded("logout")' /\ helper'.pc # "gone"
      BY <2>1, <3>2 DEF RecordsInv, RecordsByStage, Beginning
    <3>4. LoginBeforeLogout' /\ NothingLeftOpen'
      BY <3>3 DEF LoginBeforeLogout, NothingLeftOpen, Recorded
    <3>5. RecordsByStage'
      BY <1>k, <2>1, <3>2 DEF RecordsInv, RecordsByStage, Beginning, Pid
    <3> QED
      BY <3>4, <3>5 DEF RecordsInv
  <2> QED
    BY <2>2, <2>3
<1>5. CASE Started
  <2>1. helper.pc = "forked" /\ ~Recorded("logout") /\ ~Recorded("login") /\ UNCHANGED records
    BY <1>5 DEF Started, RecordsInv, RecordsByStage, Pid
  <2>2. /\ helper'.pc \in {"failed", "opened"} /\ helper'.code = "SUCCESS"
        /\ (helper'.pc = "opened" /\ kind.class = "user") => helper'.cached = Pid
    <3>1. helper.code = "SUCCESS" /\ kind \in KindSet
      BY <2>1 DEF TypeOK, RecordsInv, RecordsByStage
    <3> QED
      BY <1>0, <1>5, <3>1 DEF Started, HelperSet, KindSet
  <2>3. \A what : Recorded(what)' <=> Recorded(what)
    BY <2>1 DEF Recorded
  <2>4. LoginBeforeLogout' /\ NothingLeftOpen'
    BY <2>1, <2>2, <2>3 DEF LoginBeforeLogout, NothingLeftOpen, Recorded
  <2>5. RecordsByStage'
    BY <1>k, <2>1, <2>2, <2>3 DEF RecordsByStage, Beginning
  <2> QED
    BY <2>4, <2>5 DEF RecordsInv
<1>11. CASE DaemonReplies
  <2>1. helper'.cached = helper.cached /\ helper'.killed = helper.killed /\ helper.code = "SUCCESS"
    BY <1>0, <1>11 DEF DaemonReplies, Exit, HelperSet, RecordsInv, RecordsByStage, Beginning
  <2>2. CASE helper.pc = "told"
    <3>1. /\ UNCHANGED records
          /\ helper'.pc = "stopping" \/ (helper'.pc = "open" /\ helper'.code = helper.code)
      BY <1>0, <1>11, <2>2 DEF DaemonReplies, Exit, HelperSet
    <3> QED
      BY <1>k, <2>1, <2>2, <3>1, RecordsKept DEF Beginning
  <2>3. CASE helper.pc = "failed"
    <3>1. UNCHANGED records /\ helper'.pc = "stopping" /\ helper'.code = "SESSION_ERROR"
      BY <1>0, <1>11, <2>3 DEF DaemonReplies, Exit, HelperSet
    <3> QED
      BY <1>k, <2>1, <2>3, <3>1, RecordsKept
  <2>4. CASE helper.pc = "opened"
    <3>1. /\ helper'.pc = "loop" /\ helper'.code = helper.code
          /\ records' = IF kind.class = "user" THEN Append(records, <<"login", Pid>>) ELSE records
      BY <1>0, <1>11, <2>4 DEF DaemonReplies, UtmpLogin, HelperSet
    <3>2. ~Recorded("login") /\ ~Recorded("logout") /\ (kind.class = "user" => helper.cached = Pid)
      BY <2>4 DEF RecordsInv, RecordsByStage
    <3>3. /\ Recorded("login")' <=> kind.class = "user"
          /\ ~Recorded("logout")'
      <4>1. CASE kind.class = "user"
        <5>1. <<"login", Pid>> # <<"logout", Pid>>
          OBVIOUS
        <5> QED
          BY <3>1, <3>2, <4>1, <5>1, OneMoreRecord
      <4>2. CASE kind.class # "user"
        BY <3>1, <3>2, <4>2 DEF Recorded
      <4> QED
        BY <4>1, <4>2
    <3>4. LoginBeforeLogout' /\ NothingLeftOpen'
      BY <3>1, <3>3 DEF LoginBeforeLogout, NothingLeftOpen, Recorded
    <3>5. RecordsByStage'
      BY <1>k, <2>1, <3>1, <3>2, <3>3 DEF RecordsByStage, Beginning
    <3> QED
      BY <3>4, <3>5 DEF RecordsInv
  <2> QED
    BY <1>11, <2>2, <2>3, <2>4 DEF DaemonReplies
<1>6. CASE SessionFinished \/ SigtermReceived \/ StopSession
  <2>1. /\ UNCHANGED records /\ helper'.cached = helper.cached /\ helper'.killed = helper.killed
        /\ \/ helper.pc = "loop" /\ helper'.pc = "stopping"
           \/ helper.pc = "stopping" /\ helper'.pc = "waiting" /\ helper'.code = helper.code
    BY <1>0, <1>6 DEF SessionFinished, SigtermReceived, StopSession, Exit, HelperSet
  <2> QED
    BY <1>k, <2>1, RecordsKept
<1>7. CASE BecomeUser \/ Terminate
  <2>1. /\ UNCHANGED records /\ helper'.cached = helper.cached /\ helper'.killed = helper.killed
        /\ helper'.pc = helper.pc /\ helper'.code = helper.code /\ helper'.pam = helper.pam
    BY <1>0, <1>7 DEF BecomeUser, Terminate, HelperSet
  <2> QED
    BY <1>k, <2>1, RecordsKept
<1>8. CASE Killed
  <2>1. /\ UNCHANGED records /\ helper'.cached = helper.cached /\ helper'.killed
        /\ helper'.pc = "gone" /\ helper.pc # "gone"
    BY <1>0, <1>8 DEF Killed, HelperSet
  <2>2. \A what : Recorded(what)' <=> Recorded(what)
    BY <2>1 DEF Recorded
  <2>3. ~Recorded("logout")'
    BY <2>1, <2>2 DEF RecordsInv, RecordsByStage
  <2>4. LoginBeforeLogout' /\ NothingLeftOpen'
    BY <2>1, <2>3 DEF LoginBeforeLogout, NothingLeftOpen, Recorded
  <2>5. RecordsByStage'
    BY <1>k, <2>1, <2>2 DEF RecordsInv, RecordsByStage, Beginning
  <2> QED
    BY <2>4, <2>5 DEF RecordsInv
<1>9. CASE CloseSession
  <2>1. /\ helper'.pc = "gone" /\ helper.pc = "waiting" /\ helper'.cached = helper.cached
        /\ helper'.code = helper.code /\ helper'.pam = ClosePam(helper).pam
    BY <1>0, <1>9, ClosePamResult DEF CloseSession, HelperSet
  <2>2. ~helper'.pam.session /\ ~helper'.pam.handle
    BY <1>0, <2>1, ClosePamResult DEF GrantedByStage
  <2>3. helper.cached \in {-1, 0, Pid} /\ ~Recorded("logout")
    BY <1>0, <2>1 DEF HelperSet, RecordsInv, RecordsByStage
  <2>4. CASE UNCHANGED records
    <3>1. \A what : Recorded(what)' <=> Recorded(what)
      BY <2>4 DEF Recorded
    <3>2. ~Recorded("login")
      <4>1. SUFFICES ASSUME helper.cached >= 0, kind.class = "user"
                     PROVE  FALSE
        BY DEF RecordsInv, RecordsByStage, Pid
      <4>2. records' = Append(records, <<"logout", helper.cached>>)
        BY <1>9, <4>1 DEF CloseSession, UtmpLogout
      <4>3. Len(records) + 1 \in DOMAIN records
        BY <2>4, <4>2, OneMoreRecord
      <4> QED
        BY <4>2, <4>3, OneMoreRecord
    <3>3. LoginBeforeLogout' /\ NothingLeftOpen'
      BY <2>2, <2>3, <3>1, <3>2 DEF LoginBeforeLogout, NothingLeftOpen, Recorded
    <3>4. RecordsByStage'
      BY <2>1, <3>1, <3>2 DEF RecordsByStage, Beginning
    <3> QED
      BY <3>3, <3>4 DEF RecordsInv
  <2>5. CASE records' # records
    <3>1. records' = Append(records, <<"logout", helper.cached>>) /\ kind.class = "user"
      BY <1>9, <2>5 DEF CloseSession, UtmpLogout
    <3>2. /\ Recorded("login")' <=> Recorded("login")
          /\ Recorded("logout")' <=> helper.cached = Pid
      <4>1. /\ <<"logout", helper.cached>> # <<"login", Pid>>
            /\ <<"logout", helper.cached>> = <<"logout", Pid>> <=> helper.cached = Pid
        OBVIOUS
      <4> QED
        <5>1. \A what : Recorded(what)'
                <=> (Recorded(what) \/ <<"logout", helper.cached>> = <<what, Pid>>)
          BY <3>1, OneMoreRecord
        <5> QED
          BY <2>3, <4>1, <5>1
    <3>3. LoginBeforeLogout'
      <4>1. SUFFICES ASSUME helper.code # "SESSION_ERROR",
                            NEW j \in DOMAIN records', records'[j] = <<"logout", Pid>>
                     PROVE  \E i \in DOMAIN records' : i < j /\ records'[i] = <<"login", Pid>>
        BY <2>1 DEF LoginBeforeLogout
      <4>2. j = Len(records) + 1 /\ helper.cached = Pid
        BY <2>3, <3>1, <4>1, OneMoreRecord DEF Recorded
      <4>3. PICK i \in DOMAIN records : records[i] = <<"login", Pid>>
        BY <2>1, <3>1, <4>1, <4>2 DEF RecordsInv, RecordsByStage, Recorded
      <4> QED
        BY <3>1, <4>2, <4>3, OneMoreRecord
    <3>4. NothingLeftOpen'
      BY <2>2, <3>2 DEF NothingLeftOpen, RecordsInv, RecordsByStage
    <3>5. RecordsByStage'
      BY <1>k, <2>1, <3>2 DEF RecordsInv, RecordsByStage, Beginning
    <3> QED
      BY <3>3, <3>4, <3>5 DEF RecordsInv
  <2> QED
    BY <2>4, <2>5
<1>10. CASE KillSession
  <2>1. UNCHANGED <<helper, records>>
    BY <1>10 DEF KillSession
  <2> QED
    BY <1>1, <2>1
<1> QED
  BY <1>1, <1>2, <1>3, <1>4, <1>5, <1>6, <1>7, <1>8, <1>9, <1>10, <1>11
     DEF Next, HelperRuns, PamRuns, ForkedStep, Starter, vars, TakeTerminal, Jumped, Exec,
         StarterEnds, ChildTerminated, ProgramEnds

-----------------------------------------------------------------------------
(* The theorems *)

\* Whose jump hangs is the child's that could not open its terminal's device.
LEMMA JumpReturnsStep ==
  ASSUME TypeOK, JumpReturns, [Next]_vars
  PROVE  JumpReturns'
<1>k. VtAuto' = VtAuto
  BY DEF Next, HelperRuns, PamRuns, AsksUser, UserAnswers, DaemonReplies, ForkedStep, Starter,
     vars, SetUp, Authenticated, OpenPam, Fork, Started, SessionFinished, SigtermReceived,
     StopSession, CloseSession, KillSession, TakeTerminal, Jumped, BecomeUser, Exec, StarterEnds,
     ChildTerminated, ProgramEnds, Terminate, Killed, VtAuto
<1>0. child \in ChildSet /\ vt \in VtSet
  BY DEF TypeOK
<1> USE DEF JumpReturns
<1>1. CASE child'.pc # "jump"
  BY <1>1
<1>2. CASE UNCHANGED vt /\ child.pc = "jump" /\ child'.tty = child.tty
  BY <1>k, <1>2 DEF CanSwitch
<1>3. CASE TakeTerminal /\ child'.pc = "jump"
  <2>1. PICK opened \in BOOLEAN :
          /\ child' = [child EXCEPT !.pc = "jump", !.tty = opened]
          /\ vt' = PrepareJump(vt, "new", opened, VtAuto, "child")
    BY <1>0, <1>3 DEF TakeTerminal, ChildSet
  <2>2. child'.tty = opened
    BY <1>0, <2>1 DEF ChildSet
  <2>3. opened \/ ~VtAuto => CanSwitch(vt', "new")
    BY <1>0, <2>1, PrepareJumpResult DEF VtAuto
  <2> QED
    BY <1>k, <2>2, <2>3 DEF CanSwitch
<1>4. CASE ~TakeTerminal /\ child'.pc = "jump"
  <2>1. ~Fork \/ UNCHANGED child
    BY <1>4 DEF Fork, NoChild
  <2>2. CASE UNCHANGED <<vt, child>>
    BY <1>2, <1>4, <2>2
  <2>3. CASE SessionFinished \/ StopSession \/ KillSession
    BY <1>0, <1>2, <1>4, <2>3 DEF SessionFinished, StopSession, KillSession, ChildSet
  <2>4. CASE Jumped \/ BecomeUser \/ Exec
    <3>1. CASE Jumped \/ BecomeUser
      <4>1. child'.pc \in {"user", "ended", "exec"}
        BY <1>0, <3>1 DEF Jumped, BecomeUser, ChildSet
      <4> QED
        BY <1>4, <4>1
    <3>2. CASE Exec
      <4>1. child'.pc \in {"unstarted", "starter", "program"}
        BY <1>0, <3>2 DEF Exec, ChildSet
      <4> QED
        BY <1>4, <4>1
    <3> QED
      BY <2>4, <3>1, <3>2
  <2>5. CASE StarterEnds \/ ProgramEnds
    <3>1. child'.pc = "ended"
      <4>1. CASE StarterEnds
        BY <1>0, <4>1 DEF StarterEnds, ChildSet
      <4>2. CASE ProgramEnds
        <5>1. PICK code : child' = [child EXCEPT !.pc = "ended", !.code = code]
          BY <4>2 DEF ProgramEnds
        <5> QED
          BY <1>0, <5>1 DEF ChildSet
      <4> QED
        BY <2>5, <4>1, <4>2
    <3> QED
      BY <1>4, <3>1
  <2>6. CASE ChildTerminated
    BY <1>0, <1>2, <1>4, <2>6 DEF ChildTerminated, ChildSet
  <2> QED
    BY <1>4, <2>1, <2>2, <2>3, <2>4, <2>5, <2>6
       DEF Next, HelperRuns, PamRuns, AsksUser, UserAnswers, DaemonReplies, ForkedStep, Starter,
           vars, SetUp, Authenticated, OpenPam, Fork, Started, SigtermReceived, CloseSession,
           Terminate, Killed
<1> QED
  BY <1>1, <1>3, <1>4

\* What covers the program follows from where the helper and the child are.
LEMMA CoveredByStage ==
  ASSUME ChildByStage, GrantedByStage, OwnersByStage
  PROVE  ProgramIsCovered
<1> SUFFICES ASSUME child.pc \in {"program", "starter"}, ~helper.killed
             PROVE  /\ helper.pam.trusted /\ helper.pam.cred /\ helper.pam.session
                    /\ child.uid = "user" /\ child.groups = "user"
                    /\ NeedsCookie => helper.xauth = "user"
  BY DEF ProgramIsCovered, NeedsCookie
<1>1. helper.pc # "gone"
  BY DEF ChildByStage, Alive
<1> QED
  BY <1>1 DEF GrantedByStage, OwnersByStage

\* The invariant holds at the start.
LEMMA InvInit ==
  ASSUME Init
  PROVE  Inv
<1>1. kind \in KindSet
  BY UserSessionAssumption DEF Init
<1>2. starter \in StarterSet /\ starter.pc = "off" /\ starter.server = "none" /\ starter.client = "none"
  BY <1>1 DEF Init, KindSet, NoStarter, StarterSet, Stages, Children, Codes
<1>3. helper \in HelperSet
  BY DEF Init, HelperSet, Beginning, HandleSet, Codes, Pam!NoHandle
<1>4. child \in ChildSet /\ child.pc = "none"
  BY DEF Init, NoChild, ChildSet, Unstarted, Codes
<1>5. vt \in VtSet
  BY UserSessionAssumption DEF Init, VtSet
<1>6. records = <<>> /\ records \in Seq({"login", "failed", "logout"} \X {0, Pid})
  BY DEF Init
<1>7. TypeOK
  BY <1>1, <1>2, <1>3, <1>4, <1>5, <1>6 DEF TypeOK
<1>8. ChildrenByStage /\ NoOrphans
  BY <1>2 DEF ChildrenByStage, NoOrphans
<1>9. helper.pc = "setUp" /\ helper.code = "SUCCESS" /\ helper.cached = -1
      /\ ~helper.pam.session
  BY DEF Init, Pam!NoHandle
<1>10. ChildByStage /\ GrantedByStage /\ OwnersByStage /\ JumpReturns
  BY <1>4, <1>9 DEF ChildByStage, GrantedByStage, OwnersByStage, AsRoot, JumpReturns
<1>11. DOMAIN records = {}
  BY <1>6
<1>12. RecordsInv
  BY <1>9, <1>11 DEF RecordsInv, RecordsByStage, LoginBeforeLogout, NothingLeftOpen, Recorded, Pid
<1> QED
  BY <1>7, <1>8, <1>10, <1>12, CoveredByStage, BalancedInParts DEF Inv, RecordsInv

\* Every step keeps the invariant.
LEMMA InvStep ==
  ASSUME Inv, [Next]_vars
  PROVE  Inv'
<1> USE DEF Inv
<1>1. RecordsInv
  BY BalancedInParts DEF RecordsInv
<1>2. UNCHANGED kind
  BY DEF Next, HelperRuns, PamRuns, AsksUser, UserAnswers, DaemonReplies, ForkedStep, Starter,
     vars, SetUp, Authenticated, OpenPam, Fork, Started, SessionFinished, SigtermReceived,
     StopSession, CloseSession, KillSession, TakeTerminal, Jumped, BecomeUser, Exec, StarterEnds,
     ChildTerminated, ProgramEnds, Terminate, Killed
<1>3. TypeOK'
  BY <1>2, StarterTyped, HelperTyped, ChildTyped, VtTyped, RecordsTyped DEF TypeOK
<1>4. ChildrenByStage' /\ NoOrphans'
  BY ChildrenByStageStep
<1>5. ChildByStage' /\ GrantedByStage' /\ OwnersByStage'
  BY ChildByStageStep, GrantedByStageStep, OwnersByStageStep
<1>6. RecordsInv'
  BY <1>1, RecordsByStageStep
<1>7. RecordsByStage' /\ RecordsAreBalanced'
  BY <1>6, BalancedInParts, PTL DEF RecordsInv
<1>8. ProgramIsCovered'
  BY <1>5, CoveredByStage, PTL
<1> QED
  BY <1>3, <1>4, <1>5, <1>7, <1>8, JumpReturnsStep

\* The invariant holds of every session, and with it the four properties.
LEMMA SessionInvariant == Spec => []Inv
BY InvInit, InvStep, PTL DEF Spec

\* A starter that was not killed leaves neither its server nor its client running.
THEOREM StarterLeavesNoOrphans == Spec => []NoOrphans
BY SessionInvariant, PTL DEF Inv

\* While the program runs under a living helper it is the user's, PAM's session
\* is open and the cookie file is the user's too.
THEOREM ProgramAlwaysCovered == Spec => []ProgramIsCovered
BY SessionInvariant, PTL DEF Inv

\* A login is followed by its logout, a logout preceded by its login, and a helper
\* that closes leaves neither a PAM session nor a handle behind.
THEOREM LoginsAndLogoutsBalanced == Spec => []RecordsAreBalanced
BY SessionInvariant, PTL DEF Inv

\* The switch to a new terminal returns, unless its device could not be opened.
THEOREM JumpAlwaysReturns == Spec => []JumpReturns
BY SessionInvariant, PTL DEF Inv
=============================================================================
