------------------------- MODULE LoginProtocolProofs -------------------------
(***************************************************************************)
(* What the operators of PamConversation return, for every set of texts;   *)
(* type correctness of LoginProtocol, that the daemon and its helpers stay *)
(* in lock step, whose answers PAM is given, and that the login path        *)
(* implements LoginService: for every set of PAM messages, every theme and  *)
(* every bound.                                                            *)
(***************************************************************************)
EXTENDS LoginProtocol, TLAPS, WellFoundedInduction, SequenceTheorems

-----------------------------------------------------------------------------
(* PamConversation *)

\* A nonempty set of naturals has a least element.
LEMMA LeastElement ==
  ASSUME NEW I \in SUBSET Nat, I # {}
  PROVE  Min(I) \in I
<1> DEFINE R == {ss \in Nat \X Nat : ss[1] < ss[2]}
<1>1. IsWellFoundedOn(R, Nat)
  BY NatLessThanWellFounded, Zenon DEF OpToRel
<1>2. \A a, b \in Nat : a < b => <<a, b>> \in R
  OBVIOUS
<1> HIDE DEF R
<1>3. PICK x \in I : \A y \in I : ~(<<y, x>> \in R)
  BY <1>1, WFMin, Zenon
<1>4. \A y \in I : x <= y
  <2> TAKE y \in I
  <2>1. x \in Nat /\ y \in Nat
    OBVIOUS
  <2>2. ~(y < x)
    BY <1>2, <1>3, <2>1, Zenon
  <2> QED
    BY <2>1, <2>2
<1> QED
  BY <1>4 DEF Min

\* The position findPrompt returns is 0 or that of a prompt that matches.
LEMMA FindPromptInRange ==
  ASSUME NEW d \in PamDatas, NEW m
  PROVE  /\ FindPrompt(d, m) \in 0 .. Len(d.prompts)
         /\ FindPrompt(d, m) # 0 => Matches(d.prompts[FindPrompt(d, m)], m)
<1> DEFINE I == {i \in 1 .. Len(d.prompts) : Matches(d.prompts[i], m)}
<1>1. Len(d.prompts) \in Nat
  BY DEF PamDatas
<1>2. FindPrompt(d, m) = IF I # {} THEN Min(I) ELSE 0
  BY Zenon DEF FindPrompt, SelectInSeq
<1>3. I \in SUBSET Nat
  BY <1>1
<1>4. I # {} => Min(I) \in I
  BY <1>3, LeastElement
<1> HIDE DEF I
<1>5. CASE I = {}
  BY <1>1, <1>2, <1>5
<1>6. CASE I # {}
  BY <1>1, <1>2, <1>4, <1>6 DEF I
<1> QED
  BY <1>5, <1>6

\* The three fixed requests are nonempty sequences of prompts.
LEMMA FixedRequestsType ==
  /\ LoginRequest \in Seq(Prompts) /\ LoginRequest # <<>>
  /\ ChangePassNoOldRequest \in Seq(Prompts) /\ ChangePassNoOldRequest # <<>>
  /\ ChangePassRequest \in Seq(Prompts) /\ ChangePassRequest # <<>>
<1>1. \A type \in PromptTypes, text \in Texts : Prompt(type, text) \in Prompts
  BY DEF Prompt, Prompts, Responses, NoResponse
<1>2. /\ Prompt("LOGIN_USER", "login:") \in Prompts
      /\ Prompt("LOGIN_PASSWORD", "Password: ") \in Prompts
      /\ Prompt("CHANGE_CURRENT", "(current) UNIX password: ") \in Prompts
      /\ Prompt("CHANGE_NEW", "New password: ") \in Prompts
      /\ Prompt("CHANGE_REPEAT", "Retype new password: ") \in Prompts
  <2>1. /\ "login:" \in Texts /\ "Password: " \in Texts
        /\ "(current) UNIX password: " \in Texts
        /\ "New password: " \in Texts /\ "Retype new password: " \in Texts
    BY TextsAssumption DEF PredictedTexts
  <2> QED
    BY <1>1, <2>1 DEF PromptTypes
<1>3. \A p, q \in Prompts : <<p, q>> \in Seq(Prompts) /\ <<p, q>> # <<>>
  OBVIOUS
<1>4. \A p \in Prompts, s \in Seq(Prompts) : <<p>> \o s \in Seq(Prompts) /\ <<p>> \o s # <<>>
  OBVIOUS
<1>5. LoginRequest \in Seq(Prompts) /\ LoginRequest # <<>>
  BY <1>2, <1>3, Zenon DEF LoginRequest
<1>6. ChangePassNoOldRequest \in Seq(Prompts) /\ ChangePassNoOldRequest # <<>>
  BY <1>2, <1>3, Zenon DEF ChangePassNoOldRequest
<1>7. ChangePassRequest \in Seq(Prompts) /\ ChangePassRequest # <<>>
  BY <1>2, <1>4, <1>6, Zenon DEF ChangePassRequest
<1> QED
  BY <1>5, <1>6, <1>7

\* A request the backend predicts is a nonempty sequence of prompts.
LEMMA PredictedType ==
  ASSUME NEW d \in PamDatas, NEW m \in Messages
  PROVE  Predicted(d, m) \in Seq(Prompts) /\ Predicted(d, m) # <<>>
<1>1. \A type \in PromptTypes, text \in Texts : Prompt(type, text) \in Prompts
  BY DEF Prompt, Prompts, Responses, NoResponse
<1>6. DetectPrompt(m) \in PromptTypes
  BY DEF DetectPrompt, PromptTypes, Messages, Styles
<1>7. Prompt(DetectPrompt(m), m.text) \in Prompts
  BY <1>1, <1>6 DEF Messages
<1>8. /\ Append(d.prompts, Prompt(DetectPrompt(m), m.text)) \in Seq(Prompts)
      /\ Append(d.prompts, Prompt(DetectPrompt(m), m.text)) # <<>>
  BY <1>7 DEF PamDatas
<1> QED
  BY FixedRequestsType, <1>8 DEF Predicted

\* insertPrompt keeps the data well formed.
LEMMA InsertPromptType ==
  ASSUME NEW d \in PamDatas, NEW m \in Messages
  PROVE  InsertPrompt(d, m) \in PamDatas
<1>1. NewPamData \in PamDatas
  BY DEF NewPamData, PamDatas
<1>2. FindPrompt(d, m) \in 0 .. Len(d.prompts)
  BY FindPromptInRange
<1>3. \A kept \in PamDatas : [kept EXCEPT !.prompts = Predicted(kept, m)] \in PamDatas
  BY PredictedType DEF PamDatas
<1>4. ASSUME NEW i \in 1 .. Len(d.prompts)
      PROVE  [d EXCEPT !.prompts[i].text = m.text] \in PamDatas
  <2>1. d.prompts \in Seq(Prompts)
    BY DEF PamDatas
  <2>2. [d.prompts[i] EXCEPT !.text = m.text] \in Prompts
    <3>1. d.prompts[i] \in Prompts /\ m.text \in Texts
      BY <2>1 DEF Messages
    <3> QED
      BY <3>1 DEF Prompts
  <2>3. [d.prompts EXCEPT ![i] = [d.prompts[i] EXCEPT !.text = m.text]] \in Seq(Prompts)
    BY <2>1, <2>2
  <2> QED
    BY <2>3 DEF PamDatas
<1> QED
  BY <1>1, <1>2, <1>3, <1>4 DEF InsertPrompt

\* handleInfo keeps the data well formed.
LEMMA HandleInfoType ==
  ASSUME NEW d \in PamDatas, NEW m \in Messages
  PROVE  HandleInfo(d, m) \in PamDatas
  BY FixedRequestsType DEF HandleInfo, PamDatas

\* getResponse returns a response and keeps the data well formed.
LEMMA ResponseType ==
  ASSUME NEW d \in PamDatas, NEW m
  PROVE  ResponseTo(d, m) \in Responses /\ AfterResponse(d, m) \in PamDatas
<1>1. FindPrompt(d, m) \in 0 .. Len(d.prompts) /\ d.prompts \in Seq(Prompts)
  BY FindPromptInRange DEF PamDatas
<1>2. ResponseTo(d, m) \in Responses
  <2>1. NoResponse \in Responses
    BY DEF NoResponse, Responses
  <2>2. \A p \in Prompts : p.resp \in Responses
    BY DEF Prompts
  <2>3. \A i \in 1 .. Len(d.prompts) : d.prompts[i] \in Prompts
    BY <1>1
  <2> QED
    BY <1>1, <2>1, <2>2, <2>3 DEF ResponseTo
<1>3. ASSUME NEW i \in 1 .. Len(d.prompts)
      PROVE  RemoveAt(d.prompts, i) \in Seq(Prompts)
  <2>1. SubSeq(d.prompts, 1, i - 1) \in Seq(Prompts)
    BY <1>1
  <2>2. SubSeq(d.prompts, i + 1, Len(d.prompts)) \in Seq(Prompts)
    BY <1>1
  <2> QED
    BY <2>1, <2>2 DEF RemoveAt
<1>4. AfterResponse(d, m) \in PamDatas
  BY <1>1, <1>3 DEF AfterResponse, PamDatas
<1> QED
  BY <1>2, <1>4

\* completeRequest keeps the data well formed.
LEMMA CompleteRequestType ==
  ASSUME NEW d \in PamDatas, NEW answered \in Seq(Prompts)
  PROVE  CompleteRequest(d, answered) \in PamDatas
  BY DEF CompleteRequest, PamDatas

-----------------------------------------------------------------------------
(* Components in their initial states *)

LEMMA NoGreeterType == NoGreeter \in Greeters /\ NewGreeter \in Greeters
<1>1. NoGreeter \in Greeters
  BY DEF NoGreeter, Greeters
<1> QED
  BY <1>1 DEF NewGreeter, Greeters

LEMMA NoDisplayType == NoDisplay \in Displays
  BY DEF NoDisplay, Displays

LEMMA NewAuthType == NewAuth \in Auths
  BY ConstantsAssumption DEF NewAuth, Auths

LEMMA NoHelperType == NoHelper \in Helpers
<1>1. /\ NewPamData \in PamDatas /\ NoResponse \in Responses
      /\ "off" \in HelperStages /\ "SUCCESS" \in ExitCodes
      /\ 0 \in 0 .. MaxLogins /\ 0 \in Nat
      /\ "none" \in {"none", "accepted", "refused"}
      /\ NoMessage \in Messages \cup {NoMessage}
  BY ConstantsAssumption DEF NewPamData, PamDatas, NoResponse, Responses,
                             HelperStages, ExitCodes
<1> QED
  BY <1>1 DEF NoHelper, Helpers

\* Changing a sequence outside its positions changes nothing.
LEMMA ExceptElsewhere ==
  ASSUME NEW S, NEW s \in Seq(S), NEW i, i \notin 1 .. Len(s), NEW e
  PROVE  [s EXCEPT ![i] = e] = s
<1>1. s \in [1 .. Len(s) -> S]
  OBVIOUS
<1> QED
  BY <1>1, Zenon

\* Numbers stay within their bounds when one more is given.
LEMMA CountTypes ==
  ASSUME count \in Counts
  PROVE  /\ count.logins \in Nat /\ count.requests \in Nat /\ count.displays \in Nat
         /\ [count EXCEPT !.requests = @ + 1] \in Counts
         /\ count.logins < MaxLogins =>
              /\ [count EXCEPT !.logins = @ + 1] \in Counts
              /\ count.logins + 1 \in Logins
         /\ count.displays < MaxDisplays => [count EXCEPT !.displays = @ + 1] \in Counts
<1>1. count.logins \in 0 .. MaxLogins /\ count.requests \in Nat
        /\ count.displays \in 0 .. MaxDisplays
  BY DEF Counts
<1>2. count.requests + 1 \in Nat
        /\ (count.logins < MaxLogins => count.logins + 1 \in 0 .. MaxLogins)
        /\ (count.displays < MaxDisplays => count.displays + 1 \in 0 .. MaxDisplays)
  BY <1>1, ConstantsAssumption
<1>3. [count EXCEPT !.requests = @ + 1] \in Counts
  BY <1>2 DEF Counts
<1>4. count.logins < MaxLogins => [count EXCEPT !.logins = @ + 1] \in Counts
  BY <1>2 DEF Counts
<1>5. count.displays < MaxDisplays => [count EXCEPT !.displays = @ + 1] \in Counts
  BY <1>2 DEF Counts
<1> QED
  BY <1>1, <1>3, <1>4, <1>5, ConstantsAssumption DEF Logins

-----------------------------------------------------------------------------
(* The pieces the handlers share *)

\* Taking a message from the greeter's queue.
LEMMA DaemonTakesType ==
  ASSUME TypeOK, NEW type, DaemonTakes(type)
  PROVE  /\ toDaemon' \in Seq(GreeterMessageTypes)
         /\ Head(toDaemon) \in GreeterMessageTypes /\ Head(toDaemon).type = type
  BY HeadTailProperties DEF TypeOK, DaemonTakes

\* Taking a message from the helper the daemon is connected to.
LEMMA DaemonReadsType ==
  ASSUME TypeOK, NEW type, DaemonReads(type)
  PROVE  /\ up' \in [Logins -> Seq(UpMessageTypes)]
         /\ FromHelper \in UpMessageTypes /\ FromHelper.type = type
<1>1. auth.conn \in Logins
  BY ConstantsAssumption DEF TypeOK, Auths, DaemonReads, Logins
<1>2. up[auth.conn] \in Seq(UpMessageTypes) /\ up[auth.conn] # <<>>
  BY <1>1 DEF TypeOK, DaemonReads
<1>3. /\ Head(up[auth.conn]) \in UpMessageTypes
      /\ Tail(up[auth.conn]) \in Seq(UpMessageTypes)
  BY <1>2, HeadTailProperties
<1> QED
  BY <1>3 DEF TypeOK, DaemonReads, FromHelper

\* Writing to the greeter, to the daemon, and to the helper.
LEMMA TellType ==
  ASSUME TypeOK, NEW msg \in DaemonMessageTypes, Tell(msg)
  PROVE  toGreeter' \in Seq(DaemonMessageTypes)
  BY DEF TypeOK, Tell

LEMMA SendType ==
  ASSUME TypeOK, NEW msgs \in Seq(UpMessageTypes), Send(msgs)
  PROVE  up' \in [Logins -> Seq(UpMessageTypes)]
<1>1. \A s \in Seq(UpMessageTypes) : s \o msgs \in Seq(UpMessageTypes)
  BY ConcatProperties
<1> QED
  BY <1>1 DEF TypeOK, Send

LEMMA ReplyType ==
  ASSUME TypeOK, NEW msg \in DownMessageTypes, Reply(msg)
  PROVE  down' \in Seq(DownMessageTypes)
  BY DEF TypeOK, Reply

\* The daemon fills requests with responses.
LEMMA FilledType ==
  ASSUME TypeOK, NEW prompts \in Seq(Prompts)
  PROVE  Filled(prompts) \in Seq(Prompts)
<1>1. /\ [kind |-> "user", of |-> auth.user] \in Responses
      /\ [kind |-> "password", of |-> display.pass] \in Responses
  BY DEF TypeOK, Auths, Displays, Responses
<1>2. \A p \in Prompts, r \in Responses : [p EXCEPT !.resp = r] \in Prompts
  BY DEF Prompts
<1>3. \A p \in Prompts : p.resp \in Responses
  BY DEF Prompts
<1>4. \A i \in DOMAIN prompts : Filled(prompts)[i] \in Prompts
  BY <1>1, <1>2, <1>3 DEF Filled
<1>5. DOMAIN Filled(prompts) = 1 .. Len(prompts)
  BY DEF Filled
<1> QED
  BY <1>4, <1>5, IsASeq DEF Filled

\* A finished request leaves the Auth without prompts.
LEMMA FinishType ==
  ASSUME TypeOK, NEW id \in Nat, NEW prompts \in Seq(Prompts), Finish(id, prompts)
  PROVE  down' \in Seq(DownMessageTypes) /\ auth' \in Auths
<1>1. [type |-> "REQUEST", prompts |-> prompts] \in DownMessageTypes
  BY DEF DownMessageTypes
<1>2. down' \in Seq(DownMessageTypes)
  BY <1>1, ReplyType DEF Finish
<1>3. auth \in Auths /\ <<>> \in Seq(Prompts)
  BY DEF TypeOK
<1>4. auth' \in Auths
  BY <1>3 DEF Finish, Auths
<1> QED
  BY <1>2, <1>4

\* A new helper process.
LEMMA StartHelperType ==
  ASSUME TypeOK, NEW n \in Logins, NEW reuse \in BOOLEAN, NEW autologin \in BOOLEAN,
         StartHelper(n, reuse, autologin)
  PROVE  auth' \in Auths /\ helper' \in Helpers /\ down' \in Seq(DownMessageTypes)
<1>1. n \in Nat /\ n \in 0 .. MaxLogins
  BY ConstantsAssumption DEF Logins
<1>2. auth' \in Auths
  BY <1>1 DEF StartHelper, TypeOK, Auths
<1>3. auth.path \in Nat
  BY DEF TypeOK, Auths
<1>4. helper' \in Helpers
  <2>1. "starting" \in HelperStages
    BY DEF HelperStages
  <2> HIDE DEF NoHelper
  <2> QED
    BY <1>1, <1>3, <2>1, NoHelperType DEF StartHelper, Helpers
<1> QED
  BY <1>2, <1>4 DEF StartHelper

-----------------------------------------------------------------------------
(* One lemma for each group of actions *)

\* Displays come and go with their types.
LEMMA SeatStepsType ==
  ASSUME TypeOK, SeatSteps
  PROVE  TypeOK'
<1>1. CASE NewDisplayWithGreeter
  <2>1. display' \in Displays
    BY <1>1, NoDisplayType DEF NewDisplayWithGreeter, Displays
  <2> QED
    BY <1>1, <2>1, NoGreeterType, CountTypes DEF NewDisplayWithGreeter, TypeOK
<1>2. CASE NewDisplayWithAutologin
  <2>1. count.logins + 1 \in Logins
    BY <1>2, CountTypes DEF NewDisplayWithAutologin, TypeOK
  <2>2. PICK reuse \in ReuseChoices :
          /\ StartHelper(count.logins + 1, reuse, TRUE)
          /\ display' = [NoDisplay EXCEPT !.running = TRUE, !.reuse = reuse]
    BY <1>2 DEF NewDisplayWithAutologin
  <2>3. reuse \in BOOLEAN
    BY DEF ReuseChoices
  <2>4. auth' \in Auths /\ helper' \in Helpers /\ down' \in Seq(DownMessageTypes)
    BY <2>1, <2>2, <2>3, StartHelperType
  <2>5. display' \in Displays
    BY <2>2, <2>3, NoDisplayType DEF Displays
  <2>6. count' \in Counts
    <3>1. count \in Counts /\ count.logins < MaxLogins /\ count.displays < MaxDisplays
      BY <1>2 DEF NewDisplayWithAutologin, TypeOK
    <3>2. [count EXCEPT !.displays = @ + 1] \in Counts /\ count.logins + 1 \in 0 .. MaxLogins
      BY <3>1, CountTypes, ConstantsAssumption DEF Logins
    <3>3. count' = [[count EXCEPT !.displays = @ + 1] EXCEPT !.logins = count.logins + 1]
      BY <1>2, <3>1 DEF NewDisplayWithAutologin, Counts
    <3> QED
      BY <3>2, <3>3 DEF Counts
  <2> QED
    BY <1>2, <2>4, <2>5, <2>6 DEF NewDisplayWithAutologin, TypeOK
<1> QED
  BY <1>1, <1>2 DEF SeatSteps

\* The display goes, and everything with it.
LEMMA StopDisplayType ==
  ASSUME TypeOK, StopDisplay
  PROVE  TypeOK'
  BY NewAuthType, NoHelperType, NoDisplayType, NoGreeterType DEF StopDisplay, TypeOK

\* The user types, the greeter reads, crashes or is stopped.
LEMMA GreeterSideType ==
  ASSUME TypeOK, UserSteps \/ GreeterSteps \/ GreeterCrash \/ GreeterStopTimer
  PROVE  TypeOK'
<1>1. CASE SubmitLogin
  <2>1. count.logins + 1 \in Logins
    BY <1>1, CountTypes DEF SubmitLogin, TypeOK
  <2>2. PICK what \in {"valid", "bad_session", "sddm_user"} :
          toDaemon' = Append(toDaemon, [type |-> "Login", n |-> count.logins + 1,
                                        what |-> what])
    BY <1>1 DEF SubmitLogin
  <2>3. [type |-> "Login", n |-> count.logins + 1, what |-> what] \in GreeterMessageTypes
    BY <2>1 DEF GreeterMessageTypes
  <2>4. toDaemon' \in Seq(GreeterMessageTypes)
    BY <2>2, <2>3, AppendProperties DEF TypeOK
  <2>5. greeter' \in Greeters
    <3>1. greeter \in Greeters /\ (Theme = "hash-theme") \in BOOLEAN
      BY DEF TypeOK
    <3> QED
      BY <1>1, <3>1 DEF SubmitLogin, Greeters
  <2>6. count' \in Counts
    BY <1>1, CountTypes DEF SubmitLogin, TypeOK
  <2> QED
    BY <1>1, <2>4, <2>5, <2>6 DEF SubmitLogin, TypeOK
<1>2. CASE AnswerPrompt
  <2>1. greeter.shown \in Nat
    BY DEF TypeOK, Greeters
  <2>2. [type |-> "PromptResponse", of |-> greeter.shown] \in GreeterMessageTypes
    BY <2>1 DEF GreeterMessageTypes
  <2>3. toDaemon' \in Seq(GreeterMessageTypes)
    BY <1>2, <2>2, AppendProperties DEF AnswerPrompt, TypeOK
  <2>4. greeter' \in Greeters
    <3>1. greeter.typed + 1 \in Nat
      BY DEF TypeOK, Greeters
    <3> QED
      BY <1>2, <3>1 DEF AnswerPrompt, TypeOK, Greeters
  <2> QED
    BY <1>2, <2>3, <2>4 DEF AnswerPrompt, TypeOK
<1>3. ASSUME NEW type, GreeterReads(type)
      PROVE  /\ toGreeter' \in Seq(DaemonMessageTypes)
             /\ Head(toGreeter) \in DaemonMessageTypes /\ Head(toGreeter).type = type
  BY <1>3, HeadTailProperties DEF GreeterReads, TypeOK
<1>4. CASE ReadLoginSucceeded
  BY <1>3, <1>4 DEF ReadLoginSucceeded, GreeterReads, TypeOK, Greeters
<1>5. CASE ReadLoginFailed
  BY <1>3, <1>5 DEF ReadLoginFailed, GreeterReads, TypeOK, Greeters
<1>6. CASE ReadPromptRequest
  <2>1. Head(toGreeter).id \in Nat
    BY <1>3, <1>6 DEF ReadPromptRequest, DaemonMessageTypes, Ids
  <2> QED
    BY <1>3, <1>6, <2>1 DEF ReadPromptRequest, GreeterReads, TypeOK, Greeters
<1>7. CASE GreeterCrash
  BY <1>7, NoGreeterType DEF GreeterCrash, TypeOK
<1>8. CASE GreeterStopTimer
  <2>1. display' \in Displays
    BY <1>8 DEF GreeterStopTimer, TypeOK, Displays
  <2> QED
    BY <1>8, <2>1, NoGreeterType DEF GreeterStopTimer, TypeOK
<1> QED
  BY <1>1, <1>2, <1>4, <1>5, <1>6, <1>7, <1>8 DEF UserSteps, GreeterSteps

\* The daemon handles what the greeter sends.
LEMMA DaemonHearsGreeterType ==
  ASSUME TypeOK, DaemonHearsGreeter
  PROVE  TypeOK'
<1>1. CASE LoginAsSddm
  <2>1. [type |-> "LoginFailed"] \in DaemonMessageTypes
    BY DEF DaemonMessageTypes
  <2>2. toGreeter' \in Seq(DaemonMessageTypes)
    BY <1>1, <2>1, TellType DEF LoginAsSddm
  <2> QED
    BY <1>1, <2>2, DaemonTakesType DEF LoginAsSddm, TypeOK, Displays
<1>2. CASE LoginNotStarted
  <2>1. Head(toDaemon).n \in Nat
    BY <1>2, DaemonTakesType DEF LoginNotStarted, GreeterMessageTypes, Logins
  <2>2. display' \in Displays
    BY <1>2, <2>1 DEF LoginNotStarted, TypeOK, Displays
  <2> QED
    BY <1>2, <2>2, DaemonTakesType DEF LoginNotStarted, TypeOK
<1>3. CASE LoginStarted
  <2>1. Head(toDaemon).n \in Logins
    BY <1>3, DaemonTakesType DEF LoginStarted, GreeterMessageTypes
  <2>2. PICK reuse \in ReuseChoices :
          /\ StartHelper(Head(toDaemon).n, reuse, auth.autologin)
          /\ display' = [display EXCEPT !.socket = TRUE, !.reuse = reuse,
                                        !.pass = Head(toDaemon).n]
    BY <1>3 DEF LoginStarted
  <2>3. reuse \in BOOLEAN /\ auth.autologin \in BOOLEAN
    BY DEF ReuseChoices, TypeOK, Auths
  <2>4. auth' \in Auths /\ helper' \in Helpers /\ down' \in Seq(DownMessageTypes)
    BY <2>1, <2>2, <2>3, StartHelperType
  <2>5. display' \in Displays
    <3>1. Head(toDaemon).n \in Nat
      BY <2>1, ConstantsAssumption DEF Logins
    <3>2. display \in Displays
      BY DEF TypeOK
    <3> QED
      BY <2>2, <2>3, <3>1, <3>2 DEF Displays
  <2> QED
    BY <1>3, <2>4, <2>5, DaemonTakesType DEF LoginStarted, TypeOK
<1>4. CASE PromptResponseIgnored
  BY <1>4, DaemonTakesType DEF PromptResponseIgnored, TypeOK
<1>5. CASE PromptResponseTaken
  <2> DEFINE i == Unrecognised(auth.prompts)
             typed == [kind |-> "typed", of |-> Head(toDaemon).of]
             answered == IF display.pending = auth.request /\ i # 0
                           THEN [auth.prompts EXCEPT ![i].resp = typed]
                           ELSE auth.prompts
  <2>1. auth.prompts \in Seq(Prompts) /\ auth.request \in Nat
    BY DEF TypeOK, Auths
  <2>2. Head(toDaemon).of \in Nat
    BY <1>5, DaemonTakesType DEF PromptResponseTaken, GreeterMessageTypes
  <2>3. typed \in Responses
    BY <2>2 DEF Responses
  <2>4. \A p \in Prompts : [p EXCEPT !.resp = typed] \in Prompts
    BY <2>3 DEF Prompts
  <2>5. [auth.prompts EXCEPT ![i].resp = typed] \in Seq(Prompts)
    <3> HIDE DEF i, typed
    <3>1. \A k \in 1 .. Len(auth.prompts) : auth.prompts[k] \in Prompts
      BY <2>1
    <3>2. CASE i \in 1 .. Len(auth.prompts)
      BY <2>1, <2>4, <3>1, <3>2, ExceptSeq
    <3>3. CASE i \notin 1 .. Len(auth.prompts)
      <4>1. [auth.prompts EXCEPT ![i].resp = typed] = auth.prompts
        BY <2>1, <3>3, ExceptElsewhere
      <4> QED
        BY <2>1, <4>1
    <3> QED
      BY <3>2, <3>3
  <2>6. answered \in Seq(Prompts)
    BY <2>1, <2>5
  <2>7. auth' \in Auths /\ down' \in Seq(DownMessageTypes)
    <3>1. CASE auth.finished
      BY <1>5, <3>1 DEF PromptResponseTaken, TypeOK
    <3>2. CASE ~auth.finished
      <4>1. Finish(auth.request, answered)
        BY <1>5, <3>2 DEF PromptResponseTaken
      <4> QED
        BY <2>1, <2>6, <4>1, FinishType
    <3> QED
      BY <3>1, <3>2
  <2>8. display' \in Displays
    BY <1>5 DEF PromptResponseTaken, TypeOK, Displays
  <2> QED
    BY <1>5, <2>7, <2>8, DaemonTakesType DEF PromptResponseTaken, TypeOK
<1>6. CASE GreeterDisconnected
  BY <1>6 DEF GreeterDisconnected, TypeOK, Displays
<1> QED
  BY <1>1, <1>2, <1>3, <1>4, <1>5, <1>6 DEF DaemonHearsGreeter

\* The daemon handles what the helper sends, and its end.
LEMMA DaemonHearsHelperType ==
  ASSUME TypeOK, DaemonHearsHelper
  PROVE  TypeOK'
<1>1. CASE ConnectHelper
  <2>1. PICK n \in Logins :
          /\ SaysHello(n)
          /\ auth' = [auth EXCEPT !.conn = n]
          /\ up' = [k \in Logins |-> CASE k = n -> Tail(up[k])
                                       [] k = auth.conn /\ k # n -> <<>>
                                       [] OTHER -> up[k]]
    BY <1>1 DEF ConnectHelper
  <2>2. auth' \in Auths
    <3>1. n \in 0 .. MaxLogins /\ auth \in Auths
      BY ConstantsAssumption DEF Logins, TypeOK
    <3> QED
      BY <2>1, <3>1 DEF Auths
  <2>3. \A k \in Logins : up[k] \in Seq(UpMessageTypes)
    BY DEF TypeOK
  <2>4. Tail(up[n]) \in Seq(UpMessageTypes)
    BY <2>1, <2>3, HeadTailProperties DEF SaysHello
  <2>5. up' \in [Logins -> Seq(UpMessageTypes)]
    BY <2>1, <2>3, <2>4
  <2> QED
    BY <1>1, <2>2, <2>5 DEF ConnectHelper, TypeOK
<1>2. /\ [type |-> "LoginFailed"] \in DaemonMessageTypes
      /\ [type |-> "LoginSucceeded"] \in DaemonMessageTypes
      /\ [type |-> "AUTHENTICATED"] \in DownMessageTypes
      /\ [type |-> "SESSION_STATUS"] \in DownMessageTypes
  BY DEF DaemonMessageTypes, DownMessageTypes
<1>3. CASE ReadError
  <2>1. toGreeter' \in Seq(DaemonMessageTypes)
    BY <1>2, <1>3, TellType DEF ReadError, TypeOK
  <2> QED
    BY <1>3, <2>1, DaemonReadsType DEF ReadError, DaemonReads, TypeOK
<1>4. ASSUME DaemonReads("REQUEST")
      PROVE  FromHelper.id \in Nat \ {0} /\ FromHelper.prompts \in Seq(Prompts)
  BY <1>4, DaemonReadsType DEF UpMessageTypes, Ids
<1>5. CASE ReadRequestAnswered
  <2>1. Filled(FromHelper.prompts) \in Seq(Prompts)
    BY <1>4, <1>5, FilledType DEF ReadRequestAnswered
  <2>2. auth' \in Auths /\ down' \in Seq(DownMessageTypes)
    BY <1>4, <1>5, <2>1, FinishType DEF ReadRequestAnswered
  <2> QED
    BY <1>5, <2>2, DaemonReadsType DEF ReadRequestAnswered, DaemonReads, TypeOK
<1>6. CASE ReadRequestRelayed
  <2>1. Filled(FromHelper.prompts) \in Seq(Prompts)
    BY <1>4, <1>6, FilledType DEF ReadRequestRelayed
  <2>2. FromHelper.id \in Nat /\ auth \in Auths /\ display \in Displays
    BY <1>4, <1>6 DEF ReadRequestRelayed, TypeOK
  <2>3. auth' \in Auths
    BY <1>6, <2>1, <2>2 DEF ReadRequestRelayed, Auths
  <2>4. display' \in Displays
    BY <1>6, <2>2 DEF ReadRequestRelayed, Displays
  <2>5. [type |-> "PromptRequest", id |-> FromHelper.id] \in DaemonMessageTypes
    BY <1>4, <1>6 DEF ReadRequestRelayed, DaemonMessageTypes, Ids
  <2>6. toGreeter' \in Seq(DaemonMessageTypes)
    BY <1>6, <2>5, TellType DEF ReadRequestRelayed
  <2> QED
    BY <1>6, <2>3, <2>4, <2>6, DaemonReadsType DEF ReadRequestRelayed, DaemonReads, TypeOK
<1>7. CASE ReadAccepted
  <2>1. FromHelper.user \in Nat
    BY <1>7, DaemonReadsType DEF ReadAccepted, UpMessageTypes
  <2>2. auth' \in Auths
    BY <1>7, <2>1 DEF ReadAccepted, TypeOK, Auths
  <2>3. display' \in Displays
    BY <1>7 DEF ReadAccepted, TypeOK, Displays
  <2>4. toGreeter' \in Seq(DaemonMessageTypes)
    BY <1>2, <1>7, TellType DEF ReadAccepted, TypeOK
  <2>5. down' \in Seq(DownMessageTypes)
    BY <1>2, <1>7, ReplyType DEF ReadAccepted
  <2> QED
    BY <1>7, <2>2, <2>3, <2>4, <2>5, DaemonReadsType DEF ReadAccepted, DaemonReads, TypeOK
<1>8. CASE ReadRefused
  <2>1. display' \in Displays
    BY <1>8 DEF ReadRefused, TypeOK, Displays
  <2>2. toGreeter' \in Seq(DaemonMessageTypes)
    BY <1>2, <1>8, TellType DEF ReadRefused, TypeOK
  <2> QED
    BY <1>8, <2>1, <2>2, DaemonReadsType DEF ReadRefused, DaemonReads, TypeOK
<1>9. CASE ReadAutologinRefused
  <2>1. auth' \in Auths
    BY <1>9 DEF ReadAutologinRefused, TypeOK, Auths
  <2> QED
    BY <1>9, <2>1, NoGreeterType, DaemonReadsType
       DEF ReadAutologinRefused, DaemonReads, TypeOK
<1>10. CASE ReadSessionStatus
  <2>1. FromHelper.ok \in BOOLEAN
    BY <1>10, DaemonReadsType DEF ReadSessionStatus, UpMessageTypes
  <2>2. display' \in Displays
    <3>1. display \in Displays /\ (display.timer \/ FromHelper.ok) \in BOOLEAN
      BY DEF TypeOK
    <3> QED
      BY <1>10, <3>1 DEF ReadSessionStatus, Displays
  <2>3. down' \in Seq(DownMessageTypes)
    BY <1>2, <1>10, ReplyType DEF ReadSessionStatus
  <2> QED
    BY <1>10, <2>2, <2>3, DaemonReadsType DEF ReadSessionStatus, DaemonReads, TypeOK
<1>11. CASE ReapRefusedHelper
  BY <1>11, NoHelperType DEF ReapRefusedHelper, TypeOK
<1>12. CASE ReapHelper
  BY <1>12, StopDisplayType DEF ReapHelper
<1> QED
  BY <1>1, <1>3, <1>5, <1>6, <1>7, <1>8, <1>9, <1>10, <1>11, <1>12
     DEF DaemonHearsHelper

\* Messages and stages of the helper.
LEMMA HelperMessagesType ==
  /\ \A n \in Nat : [type |-> "AUTHENTICATED", user |-> n] \in UpMessageTypes
  /\ \A b \in BOOLEAN : [type |-> "SESSION_STATUS", ok |-> b] \in UpMessageTypes
  /\ \A error \in {"AUTHENTICATION", "INTERNAL"} :
       /\ [type |-> "ERROR", error |-> error] \in UpMessageTypes
       /\ Refusal(error) \in Seq(UpMessageTypes)
  /\ [type |-> "HELLO"] \in UpMessageTypes
<1>1. \A n \in Nat : [type |-> "AUTHENTICATED", user |-> n] \in UpMessageTypes
  BY DEF UpMessageTypes
<1>2. \A b \in BOOLEAN : [type |-> "SESSION_STATUS", ok |-> b] \in UpMessageTypes
  BY DEF UpMessageTypes
<1>3. \A error \in {"AUTHENTICATION", "INTERNAL"} :
        [type |-> "ERROR", error |-> error] \in UpMessageTypes
  BY DEF UpMessageTypes
<1>4. [type |-> "HELLO"] \in UpMessageTypes
  BY DEF UpMessageTypes
<1>5. \A a, b \in UpMessageTypes : <<a, b>> \in Seq(UpMessageTypes)
  OBVIOUS
<1>6. ASSUME NEW error \in {"AUTHENTICATION", "INTERNAL"}
      PROVE  Refusal(error) \in Seq(UpMessageTypes)
  <2>1. [type |-> "AUTHENTICATED", user |-> 0] \in UpMessageTypes
    BY <1>1
  <2> QED
    BY <1>3, <1>5, <2>1, Zenon DEF Refusal
<1> QED
  BY <1>1, <1>2, <1>3, <1>4, <1>6

\* A helper that exits.
LEMMA ExitType ==
  ASSUME helper \in Helpers, NEW c \in ExitCodes
  PROVE  /\ Exit(c) \in Helpers
         /\ [Exit(c) EXCEPT !.verdict = "refused"] \in Helpers
<1>1. "exiting" \in HelperStages
  BY DEF HelperStages
<1>2. Exit(c) \in Helpers
  BY <1>1 DEF Exit, Helpers
<1> HIDE DEF Exit
<1> QED
  BY <1>2 DEF Helpers

\* What the helper does while PAM works.
LEMMA PamStepsType ==
  ASSUME TypeOK, HelperHello \/ PamStartFails \/ PamAccepts \/ PamRefuses
  PROVE  TypeOK'
<1>1. /\ "AUTH_ERROR" \in ExitCodes /\ "pam" \in HelperStages
      /\ "waitEnv" \in HelperStages
  BY DEF ExitCodes, HelperStages
<1>2. helper \in Helpers
  BY DEF TypeOK
<1>3. CASE HelperHello
  <2>1. helper' \in Helpers
    BY <1>1, <1>2, <1>3 DEF HelperHello, Helpers
  <2>2. <<[type |-> "HELLO"]>> \in Seq(UpMessageTypes)
    BY HelperMessagesType
  <2>3. up' \in [Logins -> Seq(UpMessageTypes)]
    BY <1>3, <2>2, SendType DEF HelperHello
  <2> QED
    BY <1>3, <2>1, <2>3 DEF HelperHello, HelperSteps, TypeOK
<1>4. CASE PamStartFails
  <2>1. helper' \in Helpers
    BY <1>1, <1>2, <1>4, ExitType DEF PamStartFails
  <2>2. <<[type |-> "HELLO"]>> \in Seq(UpMessageTypes)
    BY HelperMessagesType
  <2>3. <<[type |-> "HELLO"]>> \o Refusal("INTERNAL") \in Seq(UpMessageTypes)
    BY <2>2, HelperMessagesType, ConcatProperties
  <2>4. up' \in [Logins -> Seq(UpMessageTypes)]
    BY <1>4, <2>3, SendType DEF PamStartFails
  <2> QED
    BY <1>4, <2>1, <2>4 DEF PamStartFails, HelperSteps, TypeOK
<1>5. CASE PamAccepts
  <2>1. helper' \in Helpers
    BY <1>1, <1>2, <1>5 DEF PamAccepts, Helpers
  <2>2. helper.login \in Nat
    BY <1>2, ConstantsAssumption DEF Helpers
  <2>3. <<[type |-> "AUTHENTICATED", user |-> helper.login]>> \in Seq(UpMessageTypes)
    BY <2>2, HelperMessagesType
  <2>4. up' \in [Logins -> Seq(UpMessageTypes)]
    BY <1>5, <2>3, SendType DEF PamAccepts
  <2> QED
    BY <1>5, <2>1, <2>4 DEF PamAccepts, HelperSteps, TypeOK
<1>6. CASE PamRefuses
  <2>1. helper' \in Helpers
    BY <1>1, <1>2, <1>6, ExitType DEF PamRefuses
  <2>2. up' \in [Logins -> Seq(UpMessageTypes)]
    BY <1>6, HelperMessagesType, SendType DEF PamRefuses
  <2> QED
    BY <1>6, <2>1, <2>2 DEF PamRefuses, HelperSteps, TypeOK
<1> QED
  BY <1>3, <1>4, <1>5, <1>6

\* The conversation: PAM asks or tells.
LEMMA ConversationType ==
  ASSUME TypeOK, PamAsks \/ PamAsksAgain \/ PamTells
  PROVE  TypeOK'
<1>1. /\ helper \in Helpers /\ helper.data \in PamDatas /\ helper.msgs + 1 \in Nat
      /\ count \in Counts /\ count.requests + 1 \in Nat \ {0}
  <2>1. helper \in Helpers /\ count \in Counts
    BY DEF TypeOK
  <2>2. helper.data \in PamDatas /\ helper.msgs \in Nat
    BY <2>1 DEF Helpers
  <2> QED
    BY <2>1, <2>2, CountTypes
<1>2. /\ NoResponse \in Responses /\ "waitRequest" \in HelperStages
      /\ \A m \in PamMessages : m \in Messages
  BY ConstantsAssumption DEF NoResponse, Responses, HelperStages
<1>3. CASE PamAsks
  <2>1. PICK m \in PamMessages :
          /\ helper' = [helper EXCEPT !.pc = "waitRequest",
                          !.data = InsertPrompt(helper.data, m),
                          !.msg = m, !.given = NoResponse, !.msgs = @ + 1,
                          !.request = count.requests + 1]
          /\ Send(<<[type |-> "REQUEST", id |-> count.requests + 1,
                     prompts |-> InsertPrompt(helper.data, m).prompts]>>)
    BY <1>3 DEF PamAsks
  <2>2. InsertPrompt(helper.data, m) \in PamDatas
    BY <1>1, <1>2, InsertPromptType
  <2>3. helper' \in Helpers
    BY <1>1, <1>2, <2>1, <2>2 DEF Helpers
  <2>4. InsertPrompt(helper.data, m).prompts \in Seq(Prompts)
    BY <2>2 DEF PamDatas
  <2>5. [type |-> "REQUEST", id |-> count.requests + 1,
         prompts |-> InsertPrompt(helper.data, m).prompts] \in UpMessageTypes
    BY <1>1, <2>4 DEF UpMessageTypes, Ids
  <2>6. up' \in [Logins -> Seq(UpMessageTypes)]
    <3> DEFINE req == [type |-> "REQUEST", id |-> count.requests + 1,
                       prompts |-> InsertPrompt(helper.data, m).prompts]
    <3>1. req \in UpMessageTypes /\ Send(<<req>>)
      BY <2>1, <2>5
    <3> HIDE DEF req
    <3>2. <<req>> \in Seq(UpMessageTypes)
      BY <3>1
    <3> QED
      BY <3>1, <3>2, SendType
  <2>7. count' \in Counts
    BY <1>1, <1>3, CountTypes DEF PamAsks
  <2> QED
    BY <1>3, <2>3, <2>6, <2>7 DEF PamAsks, HelperSteps, TypeOK
<1>4. ASSUME NEW m \in PamMessages, NEW data \in PamDatas
      PROVE  [helper EXCEPT !.msgs = @ + 1, !.msg = m,
                 !.data = AfterResponse(data, m),
                 !.given = ResponseTo(data, m)] \in Helpers
  <2>1. AfterResponse(data, m) \in PamDatas /\ ResponseTo(data, m) \in Responses
    BY <1>2, ResponseType
  <2> QED
    BY <1>1, <1>2, <2>1 DEF Helpers
<1>5. CASE PamAsksAgain
  <2>1. PICK m \in PamMessages :
          helper' = [helper EXCEPT !.msgs = @ + 1, !.msg = m,
                       !.data = AfterResponse(InsertPrompt(helper.data, m), m),
                       !.given = ResponseTo(InsertPrompt(helper.data, m), m)]
    BY <1>5 DEF PamAsksAgain
  <2>2. helper' \in Helpers
    BY <1>1, <1>2, <1>4, <2>1, InsertPromptType
  <2> QED
    BY <1>5, <2>2 DEF PamAsksAgain, HelperSteps, TypeOK
<1>6. CASE PamTells
  <2>1. PICK m \in PamMessages :
          \/ /\ helper' = [helper EXCEPT !.msgs = @ + 1, !.msg = m,
                             !.data = AfterResponse(@, m),
                             !.given = ResponseTo(helper.data, m)]
             /\ Send(<<[type |-> "ERROR", error |-> "AUTHENTICATION"]>>)
          \/ /\ helper' = [helper EXCEPT !.msgs = @ + 1, !.msg = m,
                             !.data = AfterResponse(HandleInfo(helper.data, m), m),
                             !.given = ResponseTo(HandleInfo(helper.data, m), m)]
             /\ UNCHANGED up
    BY <1>6 DEF PamTells
  <2>2. helper' \in Helpers
    BY <1>1, <1>2, <1>4, <2>1, HandleInfoType
  <2>3. <<[type |-> "ERROR", error |-> "AUTHENTICATION"]>> \in Seq(UpMessageTypes)
    BY HelperMessagesType
  <2>4. up' \in [Logins -> Seq(UpMessageTypes)]
    BY <2>1, <2>3, SendType DEF TypeOK
  <2> QED
    BY <1>6, <2>2, <2>4 DEF PamTells, HelperSteps, TypeOK
<1> QED
  BY <1>3, <1>5, <1>6

\* The helper takes replies.
LEMMA ReceiveType ==
  ASSUME TypeOK, ReceiveAnswers \/ ReceiveEnvironment \/ ReceiveStatusAck
  PROVE  TypeOK'
<1>1. /\ helper \in Helpers
      /\ "SUCCESS" \in ExitCodes /\ "SESSION_ERROR" \in ExitCodes
      /\ "opening" \in HelperStages /\ "session" \in HelperStages
      /\ "pam" \in HelperStages
  BY DEF TypeOK, ExitCodes, HelperStages
<1>2. down # <<>> => /\ Head(down) \in DownMessageTypes
                     /\ Tail(down) \in Seq(DownMessageTypes)
  BY HeadTailProperties DEF TypeOK
<1>3. CASE ReceiveAnswers
  <2>1. [helper EXCEPT !.pc = "pam"] \in Helpers
    BY <1>1 DEF Helpers
  <2>2. ASSUME Head(down).type = "REQUEST"
        PROVE  LET data == CompleteRequest(helper.data, Head(down).prompts) IN
               [helper EXCEPT !.pc = "pam",
                  !.data = AfterResponse(data, helper.msg),
                  !.given = ResponseTo(data, helper.msg)] \in Helpers
    <3> DEFINE data == CompleteRequest(helper.data, Head(down).prompts)
    <3>1. Head(down).prompts \in Seq(Prompts)
      BY <1>2, <1>3, <2>2 DEF ReceiveAnswers, DownMessageTypes
    <3>2. helper.data \in PamDatas
      BY <1>1 DEF Helpers
    <3>3. data \in PamDatas
      BY <3>1, <3>2, CompleteRequestType
    <3> HIDE DEF data
    <3>4. AfterResponse(data, helper.msg) \in PamDatas /\ ResponseTo(data, helper.msg) \in Responses
      BY <3>3, ResponseType
    <3>5. [helper EXCEPT !.pc = "pam", !.data = AfterResponse(data, helper.msg),
                         !.given = ResponseTo(data, helper.msg)] \in Helpers
      BY <1>1, <3>4 DEF Helpers
    <3> QED
      BY <3>5 DEF data
  <2>3. helper' \in Helpers
    BY <1>3, <2>1, <2>2 DEF ReceiveAnswers
  <2> QED
    BY <1>2, <1>3, <2>3 DEF ReceiveAnswers, HelperSteps, TypeOK
<1>4. CASE ReceiveEnvironment
  <2>1. helper' \in Helpers
    BY <1>1, <1>4, ExitType DEF ReceiveEnvironment, Helpers
  <2> QED
    BY <1>2, <1>4, <2>1 DEF ReceiveEnvironment, HelperSteps, TypeOK
<1>5. CASE ReceiveStatusAck
  <2>1. helper' \in Helpers
    BY <1>1, <1>5, ExitType DEF ReceiveStatusAck, Helpers
  <2> QED
    BY <1>2, <1>5, <2>1 DEF ReceiveStatusAck, HelperSteps, TypeOK
<1> QED
  BY <1>3, <1>4, <1>5

\* The session opens or fails to, ends, and the helper exits or crashes.
LEMMA SessionStepsType ==
  ASSUME TypeOK,
         SessionOpens \/ SessionFailsToOpen \/ SessionEnds \/ HelperExits \/ HelperCrash
  PROVE  TypeOK'
<1>1. /\ helper \in Helpers
      /\ "waitStatus" \in HelperStages /\ "dead" \in HelperStages /\ "CRASH" \in ExitCodes
      /\ \A c \in {"SUCCESS", "AUTH_ERROR", "OTHER_ERROR"} : c \in ExitCodes
  BY DEF TypeOK, HelperStages, ExitCodes
<1>2. CASE SessionOpens
  <2>1. helper' \in Helpers
    BY <1>1, <1>2 DEF SessionOpens, Helpers
  <2>2. <<[type |-> "SESSION_STATUS", ok |-> TRUE]>> \in Seq(UpMessageTypes)
    <3>1. [type |-> "SESSION_STATUS", ok |-> TRUE] \in UpMessageTypes
      BY HelperMessagesType, Zenon
    <3> QED
      BY <3>1
  <2>3. up' \in [Logins -> Seq(UpMessageTypes)]
    BY <1>2, <2>2, SendType DEF SessionOpens
  <2> QED
    BY <1>2, <2>1, <2>3 DEF SessionOpens, HelperSteps, TypeOK
<1>3. CASE SessionFailsToOpen
  <2>1. helper' \in Helpers
    BY <1>1, <1>3 DEF SessionFailsToOpen, Helpers
  <2>2. PICK error \in {"AUTHENTICATION", "INTERNAL"} :
          Send(<<[type |-> "ERROR", error |-> error],
                 [type |-> "SESSION_STATUS", ok |-> FALSE]>>)
    BY <1>3 DEF SessionFailsToOpen
  <2>3. \A a, b \in UpMessageTypes : <<a, b>> \in Seq(UpMessageTypes)
    OBVIOUS
  <2>4. <<[type |-> "ERROR", error |-> error],
          [type |-> "SESSION_STATUS", ok |-> FALSE]>> \in Seq(UpMessageTypes)
    BY <2>3, HelperMessagesType, Zenon
  <2>5. up' \in [Logins -> Seq(UpMessageTypes)]
    BY <2>2, <2>4, SendType
  <2> QED
    BY <1>3, <2>1, <2>5 DEF SessionFailsToOpen, HelperSteps, TypeOK
<1>4. CASE SessionEnds
  <2>1. helper' \in Helpers
    BY <1>1, <1>4, ExitType DEF SessionEnds
  <2> QED
    BY <1>4, <2>1 DEF SessionEnds, HelperSteps, TypeOK
<1>5. CASE HelperExits
  <2>1. helper' \in Helpers
    BY <1>1, <1>5 DEF HelperExits, Helpers
  <2> QED
    BY <1>5, <2>1 DEF HelperExits, HelperSteps, TypeOK
<1>6. CASE HelperCrash
  <2>1. helper' \in Helpers
    BY <1>1, <1>6 DEF HelperCrash, Helpers
  <2> QED
    BY <1>6, <2>1 DEF HelperCrash, TypeOK
<1> QED
  BY <1>2, <1>3, <1>4, <1>5, <1>6

-----------------------------------------------------------------------------
LEMMA TypeInit == Init => TypeOK
BY NoGreeterType, NoDisplayType, NewAuthType, NoHelperType, ConstantsAssumption
   DEF Init, TypeOK, Counts

LEMMA TypeKept ==
  ASSUME TypeOK, [Next]_vars
  PROVE  TypeOK'
<1>1. CASE UNCHANGED vars
  BY <1>1 DEF vars, TypeOK
<1>2. CASE SeatSteps
  BY <1>2, SeatStepsType
<1>3. CASE UserSteps \/ GreeterSteps \/ GreeterCrash \/ GreeterStopTimer
  BY <1>3, GreeterSideType
<1>4. CASE DaemonHearsGreeter
  BY <1>4, DaemonHearsGreeterType
<1>5. CASE DaemonHearsHelper
  BY <1>5, DaemonHearsHelperType
<1>6. CASE HelperWorks
  BY <1>6, PamStepsType, ConversationType, ReceiveType, SessionStepsType DEF HelperWorks
<1>7. CASE SessionEnds \/ HelperCrash
  BY <1>7, SessionStepsType
<1> QED
  BY <1>1, <1>2, <1>3, <1>4, <1>5, <1>6, <1>7 DEF Next

\* TypeOK holds in every reachable state: each handler of greeter, daemon and
\* helper keeps the state well formed, whatever PAM says and however many
\* logins, displays and messages there are.
THEOREM TypeCorrect == Spec => []TypeOK
BY TypeInit, TypeKept, PTL DEF Spec

-----------------------------------------------------------------------------
(* Lock step.  The inductive invariant is built in layers: TypeOK,          *)
(* LoginsInOrder, HellosComeFirst, InPhase.                                 *)

\* Sending, and reading, one queue at a time.
LEMMA SendAt ==
  ASSUME TypeOK, helper.login # 0, NEW msgs, Send(msgs)
  PROVE  /\ helper.login \in Logins
         /\ up'[helper.login] = up[helper.login] \o msgs
         /\ \A k \in Logins \ {helper.login} : up'[k] = up[k]
<1>1. helper.login \in 0 .. MaxLogins
  BY DEF TypeOK, Helpers
<1>2. helper.login \in Logins
  BY <1>1, ConstantsAssumption DEF Logins
<1> QED
  BY <1>2 DEF TypeOK, Send

LEMMA ReadAt ==
  ASSUME TypeOK, NEW type, DaemonReads(type)
  PROVE  /\ auth.conn \in Logins
         /\ up[auth.conn] \in Seq(UpMessageTypes) /\ up[auth.conn] # <<>>
         /\ up'[auth.conn] = Tail(up[auth.conn])
         /\ \A k \in Logins \ {auth.conn} : up'[k] = up[k]
<1>1. auth.conn \in 0 .. MaxLogins
  BY DEF TypeOK, Auths
<1>2. auth.conn \in Logins
  BY <1>1, ConstantsAssumption DEF Logins, DaemonReads
<1> QED
  BY <1>2 DEF TypeOK, DaemonReads

-----------------------------------------------------------------------------
(* NothingWithoutDisplay *)

\* While no display runs only a new display can do anything.
LEMMA NothingWithoutDisplayStep ==
  ASSUME TypeOK, NothingWithoutDisplay, [Next]_vars
  PROVE  NothingWithoutDisplay'
<1>1. CASE UNCHANGED vars
  BY <1>1 DEF vars, NothingWithoutDisplay
<1>2. CASE display'.running
  BY <1>2 DEF NothingWithoutDisplay
<1>3. CASE StopDisplay
  BY <1>3 DEF StopDisplay, NothingWithoutDisplay, NoGreeter, NoHelper, NewAuth
<1>4. CASE Next /\ ~StopDisplay /\ ~display'.running /\ ~display.running
  <2>1. /\ ~greeter.up /\ toDaemon = <<>> /\ helper.pc = "off" /\ auth.conn = 0
        /\ \A k \in Logins : up[k] = <<>>
    BY <1>4 DEF NothingWithoutDisplay
  <2>2. ~UserSteps /\ ~GreeterCrash
    BY <2>1 DEF UserSteps, SubmitLogin, AnswerPrompt, GreeterCrash
  <2>3. ~DaemonHearsGreeter
    BY <1>4, <2>1 DEF DaemonHearsGreeter, LoginAsSddm, LoginNotStarted, LoginStarted,
       PromptResponseIgnored, PromptResponseTaken, GreeterDisconnected, DaemonTakes
  <2>4. ~DaemonHearsHelper
    BY <1>4, <2>1 DEF DaemonHearsHelper, ConnectHelper, SaysHello, ReadError,
       ReadRequestAnswered, ReadRequestRelayed, ReadAccepted, ReadRefused,
       ReadAutologinRefused, ReadSessionStatus, DaemonReads, ReapRefusedHelper, ReapHelper
  <2>5. ~HelperWorks /\ ~SessionEnds /\ ~HelperCrash
    BY <2>1 DEF HelperWorks, HelperSteps, HelperHello, PamStartFails, PamAsks,
       PamAsksAgain, PamTells, PamAccepts, PamRefuses, ReceiveAnswers,
       ReceiveEnvironment, SessionOpens, SessionFailsToOpen, ReceiveStatusAck,
       HelperExits, SessionEnds, HelperCrash
  <2>6. CASE SeatSteps
    <3>1. display'.running
      BY <2>6 DEF SeatSteps, NewDisplayWithGreeter, NewDisplayWithAutologin, NoDisplay
    <3> QED
      BY <1>4, <3>1
  <2>7. CASE GreeterSteps
    BY <2>1, <2>7 DEF GreeterSteps, ReadLoginSucceeded, ReadLoginFailed,
       ReadPromptRequest, GreeterReads, NothingWithoutDisplay, TypeOK, Greeters
  <2>8. CASE GreeterStopTimer
    BY <2>1, <2>8 DEF GreeterStopTimer, NothingWithoutDisplay, NoGreeter
  <2> QED
    BY <1>4, <2>2, <2>3, <2>4, <2>5, <2>6, <2>7, <2>8 DEF Next
<1>5. CASE Next /\ ~StopDisplay /\ ~display'.running /\ display.running
  <2>1. display \in Displays
    BY DEF TypeOK
  <2>2. ASSUME ~UNCHANGED display
        PROVE  FALSE
    <3>1. CASE SeatSteps
      BY <1>5, <3>1 DEF SeatSteps, NewDisplayWithGreeter, NewDisplayWithAutologin
    <3>2. CASE GreeterStopTimer
      BY <1>5, <2>1, <3>2 DEF GreeterStopTimer, Displays
    <3>3. CASE DaemonHearsGreeter
      BY <1>5, <2>1, <2>2, <3>3 DEF DaemonHearsGreeter, LoginAsSddm, LoginNotStarted,
         LoginStarted, PromptResponseIgnored, PromptResponseTaken, GreeterDisconnected,
         Displays
    <3>4. CASE DaemonHearsHelper
      BY <1>5, <2>1, <2>2, <3>4 DEF DaemonHearsHelper, ConnectHelper, ReadError,
         ReadRequestAnswered, ReadRequestRelayed, ReadAccepted, ReadRefused,
         ReadAutologinRefused, ReadSessionStatus, ReapRefusedHelper, ReapHelper, Displays
    <3>5. CASE UserSteps \/ GreeterSteps \/ GreeterCrash
      BY <2>2, <3>5 DEF UserSteps, SubmitLogin, AnswerPrompt, GreeterSteps,
         ReadLoginSucceeded, ReadLoginFailed, ReadPromptRequest, GreeterReads, GreeterCrash
    <3>6. CASE HelperWorks \/ SessionEnds \/ HelperCrash
      BY <2>2, <3>6 DEF HelperWorks, HelperSteps, HelperHello, PamStartFails, PamAsks,
         PamAsksAgain, PamTells, PamAccepts, PamRefuses, ReceiveAnswers,
         ReceiveEnvironment, SessionOpens, SessionFailsToOpen, ReceiveStatusAck,
         HelperExits, SessionEnds, HelperCrash
    <3> QED
      BY <1>5, <3>1, <3>2, <3>3, <3>4, <3>5, <3>6 DEF Next
  <2> QED
    BY <1>5, <2>2
<1> QED
  BY <1>1, <1>2, <1>3, <1>4, <1>5

-----------------------------------------------------------------------------
(* LoginsInOrder *)

\* What leaves the logins in order: nothing new in the greeter's queue, no
\* queue that fills but the present helper's, and the same helper or none.
LEMMA OrderKept ==
  ASSUME TypeOK, TypeOK', LoginsInOrder,
         toDaemon' = toDaemon \/ (toDaemon # <<>> /\ toDaemon' = Tail(toDaemon)),
         \A k \in Logins : up'[k] # <<>> => up[k] # <<>> \/ k = helper.login,
         auth'.conn = auth.conn \/ (auth'.conn \in Logins /\ up[auth'.conn] # <<>>),
         count'.logins = count.logins,
         \/ helper'.pc # "off" /\ helper.pc # "off" /\ helper'.login = helper.login
         \/ helper'.pc = "off" /\ helper'.login = 0
  PROVE  LoginsInOrder'
<1>1. /\ count.logins \in Nat /\ auth.conn \in Nat /\ helper.login \in Nat
      /\ auth'.conn \in Nat /\ helper'.login \in Nat
      /\ \A k \in Logins : k \in Nat
  BY ConstantsAssumption DEF TypeOK, Counts, Auths, Helpers, Logins
<1>2. helper'.login <= helper.login
  BY <1>1
<1>3. ASSUME NEW b \in Nat, auth.conn <= b, helper.login <= b,
             \A k \in Logins : up[k] # <<>> => k <= b
      PROVE  /\ auth'.conn <= b /\ helper'.login <= b
             /\ \A k \in Logins : up'[k] # <<>> => k <= b
  BY <1>1, <1>2, <1>3
<1>4. ASSUME NEW b \in Nat, auth.conn < b, helper.login < b,
             \A k \in Logins : up[k] # <<>> => k < b
      PROVE  /\ auth'.conn < b /\ helper'.login < b
             /\ \A k \in Logins : up'[k] # <<>> => k < b
  BY <1>1, <1>2, <1>4
<1>5. /\ helper'.login <= count'.logins /\ auth'.conn <= count'.logins
      /\ \A k \in Logins : up'[k] # <<>> => k <= count'.logins
  BY <1>1, <1>3 DEF LoginsInOrder
<1>6. IF helper'.pc = "off"
        THEN helper'.login = 0
        ELSE /\ helper'.login # 0 /\ auth'.conn <= helper'.login
             /\ \A k \in Logins : up'[k] # <<>> => k <= helper'.login
  <2>1. CASE helper'.pc = "off"
    BY <2>1
  <2>2. CASE helper'.pc # "off"
    <3>1. /\ helper.pc # "off" /\ helper'.login = helper.login
          /\ helper.login # 0 /\ auth.conn <= helper.login
          /\ \A k \in Logins : up[k] # <<>> => k <= helper.login
      BY <2>2 DEF LoginsInOrder
    <3> QED
      BY <1>1, <1>3, <2>2, <3>1
  <2> QED
    BY <2>1, <2>2
<1>7. ASSUME NEW i \in 1 .. Len(toDaemon'), toDaemon'[i].type = "Login"
      PROVE  /\ toDaemon'[i].n <= count'.logins /\ helper'.login < toDaemon'[i].n
             /\ auth'.conn < toDaemon'[i].n
             /\ \A k \in Logins : up'[k] # <<>> => k < toDaemon'[i].n
             /\ \A j \in 1 .. i - 1 : toDaemon'[j].type = "Login" =>
                  toDaemon'[j].n < toDaemon'[i].n
  <2>1. PICK d \in {0, 1} : \A j \in 1 .. Len(toDaemon') :
                              toDaemon'[j] = toDaemon[j + d] /\ j + d \in 1 .. Len(toDaemon)
    <3>1. CASE toDaemon' = toDaemon
      BY <3>1 DEF TypeOK
    <3>2. CASE toDaemon # <<>> /\ toDaemon' = Tail(toDaemon)
      BY <3>2, HeadTailProperties DEF TypeOK
    <3> QED
      BY <3>1, <3>2
  <2>2. /\ i + d \in 1 .. Len(toDaemon) /\ toDaemon'[i] = toDaemon[i + d]
        /\ toDaemon[i + d].type = "Login" /\ toDaemon[i + d] \in GreeterMessageTypes
    BY <1>7, <2>1 DEF TypeOK
  <2>3. toDaemon[i + d].n \in Nat
    BY <1>1, <2>2 DEF GreeterMessageTypes
  <2>4. /\ toDaemon[i + d].n <= count.logins /\ helper.login < toDaemon[i + d].n
        /\ auth.conn < toDaemon[i + d].n
        /\ \A k \in Logins : up[k] # <<>> => k < toDaemon[i + d].n
        /\ \A j \in 1 .. i + d - 1 : toDaemon[j].type = "Login" =>
             toDaemon[j].n < toDaemon[i + d].n
    BY <2>2 DEF LoginsInOrder
  <2>5. \A j \in 1 .. i - 1 : /\ j + d \in 1 .. i + d - 1
                              /\ toDaemon'[j] = toDaemon[j + d]
    BY <2>1 DEF TypeOK
  <2> QED
    BY <1>4, <2>2, <2>3, <2>4, <2>5
<1> QED
  BY <1>5, <1>6, <1>7 DEF LoginsInOrder

\* Every action that neither starts a helper, asks for a login nor stops the
\* display keeps the order as OrderKept says.
LEMMA OrderOthers ==
  ASSUME TypeOK, TypeOK', LoginsInOrder, [Next]_vars,
         ~SubmitLogin, ~AnswerPrompt, ~NewDisplayWithAutologin, ~LoginStarted,
         ~StopDisplay
  PROVE  LoginsInOrder'
<1>1. helper.pc = "off" => helper.login = 0
  BY DEF LoginsInOrder
<1>2. count \in Counts /\ helper \in Helpers /\ auth \in Auths
  BY DEF TypeOK
<1>3. up \in [Logins -> Seq(UpMessageTypes)]
  BY DEF TypeOK
<1>4. CASE UNCHANGED vars
  BY <1>1, <1>4, OrderKept DEF vars
<1>5. CASE NewDisplayWithGreeter
  BY <1>1, <1>2, <1>5, OrderKept DEF NewDisplayWithGreeter, Counts
<1>6. CASE GreeterSteps \/ GreeterCrash \/ GreeterStopTimer
  BY <1>1, <1>6, OrderKept DEF GreeterSteps, ReadLoginSucceeded, ReadLoginFailed,
     ReadPromptRequest, GreeterReads, GreeterCrash, GreeterStopTimer
<1>7. CASE LoginAsSddm \/ LoginNotStarted \/ PromptResponseIgnored \/ GreeterDisconnected
  BY <1>1, <1>7, OrderKept DEF LoginAsSddm, LoginNotStarted, PromptResponseIgnored,
     GreeterDisconnected, DaemonTakes
<1>8. CASE PromptResponseTaken
  <2>1. auth'.conn = auth.conn
    BY <1>2, <1>8 DEF PromptResponseTaken, Finish, Auths
  <2> QED
    BY <1>1, <1>8, <2>1, OrderKept DEF PromptResponseTaken, DaemonTakes
<1>9. CASE ConnectHelper
  <2>1. PICK n \in Logins : /\ SaysHello(n)
                            /\ auth' = [auth EXCEPT !.conn = n]
                            /\ up' = [k \in Logins |-> CASE k = n -> Tail(up[k])
                                    [] k = auth.conn /\ k # n -> <<>>
                                    [] OTHER -> up[k]]
    BY <1>9 DEF ConnectHelper
  <2>2. auth'.conn = n /\ up[n] # <<>>
    BY <1>2, <2>1 DEF Auths, SaysHello
  <2>3. \A k \in Logins : up'[k] # <<>> => up[k] # <<>>
    BY <2>1, <2>2
  <2> QED
    BY <1>1, <1>9, <2>2, <2>3, OrderKept DEF ConnectHelper
<1>10. CASE \E type : DaemonReads(type) /\ auth'.conn = auth.conn
                        /\ (toDaemon' = toDaemon)
  <2>1. PICK type : DaemonReads(type)
    BY <1>10
  <2>2. \A k \in Logins : up'[k] # <<>> => up[k] # <<>>
    BY <2>1, ReadAt
  <2> QED
    BY <1>1, <1>10, <2>1, <2>2, OrderKept DEF DaemonReads
<1>11. CASE DaemonHearsHelper /\ ~ConnectHelper /\ ~ReapHelper /\ ~ReapRefusedHelper
  <2>1. auth'.conn = auth.conn /\ toDaemon' = toDaemon
    BY <1>2, <1>11 DEF DaemonHearsHelper, ReadError, ReadRequestAnswered,
       ReadRequestRelayed, ReadAccepted, ReadRefused, ReadAutologinRefused,
       ReadSessionStatus, DaemonReads, Finish, Auths
  <2>2. \E type : DaemonReads(type)
    BY <1>11 DEF DaemonHearsHelper, ReadError, ReadRequestAnswered,
       ReadRequestRelayed, ReadAccepted, ReadRefused, ReadAutologinRefused,
       ReadSessionStatus
  <2> QED
    BY <1>10, <2>1, <2>2
<1>12. CASE ReapRefusedHelper
  BY <1>12, OrderKept DEF ReapRefusedHelper, NoHelper
<1>13. CASE HelperWorks \/ SessionEnds \/ HelperCrash
  <2>1. helper.pc # "off" /\ helper'.pc # "off" /\ helper'.login = helper.login
    BY <1>2, <1>13 DEF HelperWorks, HelperSteps, HelperHello, PamStartFails, PamAsks,
       PamAsksAgain, PamTells, PamAccepts, PamRefuses, ReceiveAnswers,
       ReceiveEnvironment, SessionOpens, SessionFailsToOpen, ReceiveStatusAck,
       HelperExits, SessionEnds, HelperCrash, Exit, Helpers
  <2>2. \A k \in Logins : up'[k] # <<>> => up[k] # <<>> \/ k = helper.login
    <3>1. UNCHANGED up \/ \E msgs : Send(msgs)
      BY <1>13 DEF HelperWorks, HelperHello, PamStartFails, PamAsks,
         PamAsksAgain, PamTells, PamAccepts, PamRefuses, ReceiveAnswers,
         ReceiveEnvironment, SessionOpens, SessionFailsToOpen, ReceiveStatusAck,
         HelperExits, SessionEnds, HelperCrash
    <3> QED
      BY <1>3, <3>1 DEF Send
  <2>3. /\ toDaemon' = toDaemon /\ auth' = auth
        /\ count'.logins = count.logins
    BY <1>2, <1>13 DEF HelperWorks, HelperSteps, HelperHello, PamStartFails, PamAsks,
       PamAsksAgain, PamTells, PamAccepts, PamRefuses, ReceiveAnswers,
       ReceiveEnvironment, SessionOpens, SessionFailsToOpen, ReceiveStatusAck,
       HelperExits, SessionEnds, HelperCrash, Counts
  <2> QED
    BY <2>1, <2>2, <2>3, OrderKept
<1> QED
  BY <1>4, <1>5, <1>6, <1>7, <1>8, <1>9, <1>11, <1>12, <1>13 DEF Next, SeatSteps,
     UserSteps, DaemonHearsGreeter, DaemonHearsHelper, ReapHelper

\* A login or an answer joins the greeter's queue.
LEMMA OrderSent ==
  ASSUME TypeOK, TypeOK', NothingWithoutDisplay, LoginsInOrder,
         SubmitLogin \/ AnswerPrompt
  PROVE  LoginsInOrder'
<1>1. /\ count \in Counts /\ toDaemon \in Seq(GreeterMessageTypes)
      /\ \A k \in Logins : k \in Nat
      /\ count.logins \in Nat /\ helper.login \in Nat /\ auth.conn \in Nat
  BY ConstantsAssumption DEF TypeOK, Counts, Helpers, Auths, Logins
<1>2. PICK m : toDaemon' = Append(toDaemon, m) /\
               (m.type = "Login" => /\ m.n = count.logins + 1
                                    /\ count'.logins = count.logins + 1)
  <2>1. CASE SubmitLogin
    <3>1. PICK what \in {"valid", "bad_session", "sddm_user"} :
            toDaemon' = Append(toDaemon, [type |-> "Login", n |-> count.logins + 1,
                                          what |-> what])
      BY <2>1 DEF SubmitLogin
    <3>2. count'.logins = count.logins + 1
      BY <1>1, <2>1 DEF SubmitLogin, Counts
    <3> QED
      BY <3>1, <3>2
  <2>2. CASE AnswerPrompt
    BY <2>2 DEF AnswerPrompt
  <2> QED
    BY <2>1, <2>2
<1>3. /\ up' = up /\ helper' = helper /\ auth' = auth
      /\ count.logins <= count'.logins /\ count'.logins \in Nat
  BY <1>1 DEF SubmitLogin, AnswerPrompt, Counts
<1>4. \A i \in 1 .. Len(toDaemon) : toDaemon'[i] = toDaemon[i]
  BY <1>1, <1>2
<1>5. Len(toDaemon') = Len(toDaemon) + 1 /\ toDaemon'[Len(toDaemon) + 1] = m
        /\ Len(toDaemon) \in Nat
  BY <1>1, <1>2
<1>6. \A i \in 1 .. Len(toDaemon) : toDaemon[i].type = "Login" =>
        toDaemon[i].n \in Nat /\ toDaemon[i].n <= count.logins
  <2>1. \A i \in 1 .. Len(toDaemon) : toDaemon[i] \in GreeterMessageTypes
    BY <1>1
  <2> QED
    BY <1>1, <2>1 DEF LoginsInOrder, GreeterMessageTypes
<1>7. ASSUME NEW i \in 1 .. Len(toDaemon'), toDaemon'[i].type = "Login"
      PROVE  /\ toDaemon'[i].n <= count'.logins /\ helper'.login < toDaemon'[i].n
             /\ auth'.conn < toDaemon'[i].n
             /\ \A k \in Logins : up'[k] # <<>> => k < toDaemon'[i].n
             /\ \A j \in 1 .. i - 1 : toDaemon'[j].type = "Login" =>
                  toDaemon'[j].n < toDaemon'[i].n
  <2>1. CASE i \in 1 .. Len(toDaemon)
    <3>1. toDaemon[i].type = "Login"
      BY <1>4, <1>7, <2>1
    <3>2. \A j \in 1 .. i - 1 : toDaemon'[j] = toDaemon[j]
      BY <1>4, <1>5, <2>1
    <3>3. /\ toDaemon[i].n \in Nat /\ toDaemon[i].n <= count.logins
          /\ toDaemon'[i] = toDaemon[i]
      BY <1>4, <1>6, <2>1, <3>1
    <3>4. /\ helper.login < toDaemon[i].n /\ auth.conn < toDaemon[i].n
          /\ \A k \in Logins : up[k] # <<>> => k < toDaemon[i].n
          /\ \A j \in 1 .. i - 1 : toDaemon[j].type = "Login" => toDaemon[j].n < toDaemon[i].n
      BY <2>1, <3>1 DEF LoginsInOrder
    <3>5. toDaemon'[i].n <= count'.logins
      BY <1>1, <1>3, <3>3
    <3> QED
      BY <1>3, <3>2, <3>3, <3>4, <3>5
  <2>2. CASE i = Len(toDaemon) + 1
    <3>1. toDaemon'[i].n = count.logins + 1 /\ count'.logins = count.logins + 1
      BY <1>2, <1>5, <1>7, <2>2
    <3>2. \A j \in 1 .. i - 1 : j \in 1 .. Len(toDaemon) /\ toDaemon'[j] = toDaemon[j]
      BY <1>4, <1>5, <2>2
    <3>3. /\ helper.login <= count.logins /\ auth.conn <= count.logins
          /\ \A k \in Logins : up[k] # <<>> => k <= count.logins
      BY DEF LoginsInOrder
    <3>4. \A j \in 1 .. i - 1 : toDaemon'[j].type = "Login" =>
            toDaemon'[j].n < count.logins + 1
      BY <1>1, <1>6, <3>2
    <3>5. /\ helper.login < count.logins + 1 /\ auth.conn < count.logins + 1
          /\ \A k \in Logins : up[k] # <<>> => k < count.logins + 1
      BY <1>1, <3>3
    <3> QED
      BY <1>1, <1>3, <3>1, <3>4, <3>5
  <2> QED
    BY <1>5, <2>1, <2>2
<1>8. /\ helper.login <= count.logins /\ auth.conn <= count.logins
      /\ \A k \in Logins : up[k] # <<>> => k <= count.logins
      /\ IF helper.pc = "off"
           THEN helper.login = 0
           ELSE /\ helper.login # 0 /\ auth.conn <= helper.login
                /\ \A k \in Logins : up[k] # <<>> => k <= helper.login
  BY DEF LoginsInOrder
<1>9. /\ helper'.login <= count'.logins /\ auth'.conn <= count'.logins
      /\ \A k \in Logins : up'[k] # <<>> => k <= count'.logins
  BY <1>1, <1>3, <1>8
<1> QED
  BY <1>3, <1>7, <1>8, <1>9 DEF LoginsInOrder

\* The next login gets its helper.
LEMMA OrderStarted ==
  ASSUME TypeOK, TypeOK', NothingWithoutDisplay, LoginsInOrder,
         NewDisplayWithAutologin \/ LoginStarted
  PROVE  LoginsInOrder'
<1>1. /\ count \in Counts /\ toDaemon \in Seq(GreeterMessageTypes) /\ auth \in Auths
      /\ \A k \in Logins : k \in Nat /\ k # 0
      /\ count.logins \in Nat /\ helper.login \in Nat /\ auth.conn \in Nat
  BY ConstantsAssumption DEF TypeOK, Counts, Helpers, Auths, Logins
<1>2. CASE NewDisplayWithAutologin
  <2>1. toDaemon = <<>> /\ auth.conn = 0 /\ \A k \in Logins : up[k] = <<>>
    BY <1>2 DEF NewDisplayWithAutologin, NothingWithoutDisplay
  <2>2. /\ toDaemon' = <<>> /\ up' = up
        /\ helper'.login = count.logins + 1 /\ helper'.pc = "starting"
        /\ count'.logins = count.logins + 1 /\ auth'.conn = 0
    BY <1>1, <1>2, <2>1 DEF NewDisplayWithAutologin, StartHelper, NoHelper, Counts, Auths
  <2>3. Len(toDaemon') = 0 /\ \A k \in Logins : up'[k] = <<>>
    BY <2>1, <2>2
  <2>4. helper'.login <= count'.logins /\ auth'.conn <= count'.logins /\ helper'.login # 0
          /\ auth'.conn <= helper'.login
    BY <1>1, <2>2
  <2> QED
    BY <2>2, <2>3, <2>4 DEF LoginsInOrder
<1>3. CASE LoginStarted
  <2> DEFINE n == Head(toDaemon).n
  <2>1. /\ toDaemon # <<>> /\ Head(toDaemon) = toDaemon[1] /\ toDaemon[1].type = "Login"
        /\ toDaemon' = Tail(toDaemon) /\ 1 \in 1 .. Len(toDaemon)
    <3>1. toDaemon # <<>> /\ Head(toDaemon).type = "Login" /\ toDaemon' = Tail(toDaemon)
      BY <1>3 DEF LoginStarted, DaemonTakes
    <3> QED
      BY <1>1, <3>1
  <2>2. n \in Nat /\ n # 0
    <3>1. toDaemon[1] \in GreeterMessageTypes
      BY <1>1, <2>1
    <3> QED
      BY <1>1, <2>1, <3>1 DEF GreeterMessageTypes
  <2>3. /\ n <= count.logins /\ auth.conn < n
        /\ \A k \in Logins : up[k] # <<>> => k < n
    BY <2>1 DEF LoginsInOrder
  <2>4. /\ up' = up /\ count' = count /\ auth'.conn = auth.conn
        /\ helper'.login = n /\ helper'.pc = "starting"
    BY <1>1, <1>3 DEF LoginStarted, StartHelper, NoHelper, Auths
  <2>5. /\ Len(toDaemon') = Len(toDaemon) - 1
        /\ \A i \in 1 .. Len(toDaemon') :
             toDaemon'[i] = toDaemon[i + 1] /\ i + 1 \in 1 .. Len(toDaemon) /\ i \in Nat
    BY <1>1, <2>1, HeadTailProperties
  <2>6. ASSUME NEW i \in 1 .. Len(toDaemon'), toDaemon'[i].type = "Login"
        PROVE  /\ toDaemon'[i].n <= count'.logins /\ helper'.login < toDaemon'[i].n
               /\ auth'.conn < toDaemon'[i].n
               /\ \A k \in Logins : up'[k] # <<>> => k < toDaemon'[i].n
               /\ \A j \in 1 .. i - 1 : toDaemon'[j].type = "Login" =>
                    toDaemon'[j].n < toDaemon'[i].n
    <3>1. toDaemon[i + 1].type = "Login" /\ i + 1 \in 1 .. Len(toDaemon) /\ 1 \in 1 .. i + 1 - 1
      BY <2>5, <2>6
    <3>2. /\ toDaemon[i + 1].n <= count.logins /\ auth.conn < toDaemon[i + 1].n
          /\ \A k \in Logins : up[k] # <<>> => k < toDaemon[i + 1].n
          /\ \A j \in 1 .. i + 1 - 1 : toDaemon[j].type = "Login" =>
               toDaemon[j].n < toDaemon[i + 1].n
      BY <3>1 DEF LoginsInOrder
    <3>3. n < toDaemon[i + 1].n
      BY <2>1, <3>1, <3>2
    <3>4. \A j \in 1 .. i - 1 : /\ j + 1 \in 1 .. i + 1 - 1 /\ toDaemon'[j] = toDaemon[j + 1]
      BY <2>5, <2>6
    <3> QED
      BY <2>4, <2>5, <3>2, <3>3, <3>4
  <2>7. /\ helper'.login <= count'.logins /\ auth'.conn <= count'.logins
        /\ helper'.login # 0 /\ auth'.conn <= helper'.login
        /\ \A k \in Logins : up'[k] # <<>> => k <= count'.logins /\ k <= helper'.login
    BY <1>1, <2>2, <2>3, <2>4
  <2> QED
    BY <2>4, <2>6, <2>7 DEF LoginsInOrder
<1> QED
  BY <1>2, <1>3

\* LoginsInOrder is inductive.
LEMMA LoginsInOrderStep ==
  ASSUME TypeOK, TypeOK', NothingWithoutDisplay, LoginsInOrder, [Next]_vars
  PROVE  LoginsInOrder'
<1>1. CASE StopDisplay
  <2>1. count.logins \in Nat /\ count' = count
    BY <1>1 DEF TypeOK, Counts, StopDisplay
  <2>2. /\ helper'.login = 0 /\ helper'.pc = "off" /\ auth'.conn = 0 /\ toDaemon' = <<>>
        /\ \A k \in Logins : up'[k] = <<>>
    BY <1>1 DEF StopDisplay, NoHelper, NewAuth
  <2>3. Len(toDaemon') = 0
    BY <2>2
  <2> QED
    BY <2>1, <2>2, <2>3 DEF LoginsInOrder
<1> QED
  BY <1>1, OrderOthers, OrderSent, OrderStarted

-----------------------------------------------------------------------------
(* HellosComeFirst *)

\* What keeps greetings first: queues that stay, lose their head, or get more
\* of anything but greetings once the helper has started.
LEMMA HellosKept ==
  ASSUME TypeOK, TypeOK', HellosComeFirst,
         helper'.pc = "starting" => helper.pc = "starting" /\ helper'.login = helper.login,
         helper'.pc = "starting" => helper.login \in Logins,
         auth'.conn = auth.conn,
         \A k \in Logins :
           \/ up'[k] = up[k]
           \/ up[k] # <<>> /\ up'[k] = Tail(up[k])
           \/ /\ ~(helper.pc = "starting" /\ k = helper.login)
              /\ \E a, b : \/ up'[k] = up[k] \o <<a>> /\ a.type # "HELLO"
                           \/ up'[k] = up[k] \o <<a, b>> /\ a.type # "HELLO" /\ b.type # "HELLO"
  PROVE  HellosComeFirst'
<1>1. /\ \A k \in Logins : k \in Nat
      /\ \A k \in Logins : up[k] \in Seq(UpMessageTypes) /\ up'[k] \in Seq(UpMessageTypes)
  BY ConstantsAssumption DEF TypeOK, Logins
<1>2. helper'.pc = "starting" => up'[helper'.login] = <<>> /\ auth'.conn # helper'.login
  BY DEF HellosComeFirst
<1>3. ASSUME NEW k \in Logins, NEW i \in 1 .. Len(up'[k]), up'[k][i].type = "HELLO"
      PROVE  i = 1 /\ auth'.conn < k
  <2>1. CASE up'[k] = up[k]
    BY <1>3, <2>1 DEF HellosComeFirst
  <2>2. CASE up[k] # <<>> /\ up'[k] = Tail(up[k])
    <3>1. up'[k][i] = up[k][i + 1] /\ i + 1 \in 1 .. Len(up[k]) /\ i + 1 # 1
      BY <1>1, <1>3, <2>2, HeadTailProperties
    <3> QED
      BY <1>3, <3>1 DEF HellosComeFirst
  <2>3. ASSUME NEW a, up'[k] = up[k] \o <<a>>, a.type # "HELLO"
        PROVE  i = 1 /\ auth'.conn < k
    <3>1. i \in 1 .. Len(up[k]) /\ up'[k][i] = up[k][i]
      BY <1>1, <1>3, <2>3
    <3> QED
      BY <1>3, <3>1 DEF HellosComeFirst
  <2>4. ASSUME NEW a, NEW b, up'[k] = up[k] \o <<a, b>>, a.type # "HELLO", b.type # "HELLO"
        PROVE  i = 1 /\ auth'.conn < k
    <3>1. i \in 1 .. Len(up[k]) /\ up'[k][i] = up[k][i]
      BY <1>1, <1>3, <2>4
    <3> QED
      BY <1>3, <3>1 DEF HellosComeFirst
  <2> QED
    BY <2>1, <2>2, <2>3, <2>4
<1> QED
  BY <1>2, <1>3 DEF HellosComeFirst

\* A new helper has sent nothing yet.
LEMMA HellosAtStart ==
  ASSUME TypeOK, TypeOK', NothingWithoutDisplay, LoginsInOrder, HellosComeFirst,
         NewDisplayWithAutologin \/ LoginStarted
  PROVE  HellosComeFirst'
<1>1. PICK n \in Logins : /\ helper'.login = n /\ auth.conn < n
                          /\ up[n] = <<>> /\ up' = up /\ auth'.conn = auth.conn
  <2>1. auth \in Auths /\ helper \in Helpers
    BY DEF TypeOK
  <2>2. CASE NewDisplayWithAutologin
    <3>1. count \in Counts /\ count.logins < MaxLogins
      BY <2>2 DEF NewDisplayWithAutologin, TypeOK
    <3>2. count.logins + 1 \in Logins /\ count.logins \in Nat
      BY <3>1, CountTypes
    <3>3. helper'.login = count.logins + 1 /\ up' = up /\ auth'.conn = auth.conn
      BY <2>1, <2>2 DEF NewDisplayWithAutologin, StartHelper, NoHelper, Auths
    <3>4. auth.conn = 0 /\ \A k \in Logins : up[k] = <<>>
      BY <2>2 DEF NewDisplayWithAutologin, NothingWithoutDisplay
    <3> QED
      BY <3>2, <3>3, <3>4
  <2>3. CASE LoginStarted
    <3>1. toDaemon \in Seq(GreeterMessageTypes)
      BY DEF TypeOK
    <3>2. toDaemon # <<>> /\ Head(toDaemon).type = "Login"
      BY <2>3 DEF LoginStarted, DaemonTakes
    <3>3. toDaemon[1] \in GreeterMessageTypes /\ Head(toDaemon) = toDaemon[1]
            /\ 1 \in 1 .. Len(toDaemon)
      BY <3>1, <3>2
    <3>4. Head(toDaemon).n \in Logins
      BY <3>2, <3>3 DEF GreeterMessageTypes
    <3>5. /\ auth.conn < Head(toDaemon).n
          /\ \A k \in Logins : up[k] # <<>> => k < Head(toDaemon).n
      BY <3>2, <3>3 DEF LoginsInOrder
    <3>6. up[Head(toDaemon).n] = <<>>
      BY <3>4, <3>5, ConstantsAssumption DEF Logins
    <3>7. helper'.login = Head(toDaemon).n /\ up' = up /\ auth'.conn = auth.conn
      BY <2>1, <2>3 DEF LoginStarted, StartHelper, NoHelper, Auths
    <3> QED
      BY <3>4, <3>5, <3>6, <3>7
  <2> QED
    BY <2>2, <2>3
<1>2. auth.conn \in Nat /\ n \in Nat
  BY ConstantsAssumption DEF TypeOK, Auths, Logins
<1>3. up'[helper'.login] = <<>> /\ auth'.conn # helper'.login
  BY <1>1, <1>2
<1> QED
  BY <1>1, <1>3 DEF HellosComeFirst

\* The greeting, and its reading.
LEMMA HellosSent ==
  ASSUME TypeOK, TypeOK', LoginsInOrder, HellosComeFirst, HelperHello \/ PamStartFails
  PROVE  HellosComeFirst'
<1> DEFINE n == helper.login
<1>1. n \in Logins /\ auth.conn < n /\ up[n] = <<>>
  <2>1. helper.pc = "starting" /\ n \in 0 .. MaxLogins /\ auth.conn \in 0 .. MaxLogins
    BY DEF HelperHello, PamStartFails, HelperSteps, TypeOK, Helpers, Auths
  <2>2. n # 0 /\ auth.conn <= n /\ auth.conn # n /\ up[n] = <<>>
    BY <2>1 DEF LoginsInOrder, HellosComeFirst
  <2> QED
    BY <2>1, <2>2, ConstantsAssumption DEF Logins
<1>2. PICK msgs : /\ Send(msgs)
                  /\ \/ msgs = <<[type |-> "HELLO"]>>
                     \/ msgs = <<[type |-> "HELLO"]>> \o Refusal("INTERNAL")
  BY DEF HelperHello, PamStartFails
<1>3. up'[n] = <<>> \o msgs /\ \A k \in Logins \ {n} : up'[k] = up[k]
  BY <1>1, <1>2, SendAt, 0 \notin Logins DEF Logins
<1>4. \A i \in 1 .. Len(up'[n]) : up'[n][i].type = "HELLO" => i = 1
  BY <1>2, <1>3 DEF Refusal
<1>5. auth' = auth /\ helper'.pc # "starting"
  BY DEF HelperHello, PamStartFails, HelperSteps, Exit, TypeOK, Helpers
<1> QED
  BY <1>1, <1>3, <1>4, <1>5 DEF HellosComeFirst

LEMMA HellosRead ==
  ASSUME TypeOK, TypeOK', LoginsInOrder, HellosComeFirst, ConnectHelper
  PROVE  HellosComeFirst'
<1>1. PICK n \in Logins : /\ SaysHello(n) /\ \A k \in 1 .. n - 1 : ~SaysHello(k)
                          /\ auth' = [auth EXCEPT !.conn = n]
                          /\ up' = [k \in Logins |-> CASE k = n -> Tail(up[k])
                                    [] k = auth.conn /\ k # n -> <<>>
                                    [] OTHER -> up[k]]
  BY DEF ConnectHelper
<1>2. /\ auth'.conn = n /\ up[n] # <<>> /\ helper' = helper
      /\ \A k \in Logins : k \in Nat /\ k # 0
      /\ \A k \in Logins : up[k] \in Seq(UpMessageTypes)
  <2>1. auth \in Auths /\ helper' = helper /\ up \in [Logins -> Seq(UpMessageTypes)]
    BY DEF TypeOK, ConnectHelper
  <2>2. auth'.conn = n
    BY <1>1, <2>1 DEF Auths
  <2>3. up[n] # <<>>
    BY <1>1 DEF SaysHello
  <2>4. \A k \in Logins : k \in Nat /\ k # 0
    BY ConstantsAssumption DEF Logins
  <2> QED
    BY <2>1, <2>2, <2>3, <2>4
<1>3. ASSUME helper.pc = "starting"
      PROVE  up'[helper.login] = <<>> /\ auth'.conn # helper.login
  <2>1. up[helper.login] = <<>> /\ helper.login # 0 /\ helper.login \in 0 .. MaxLogins
    BY <1>3 DEF HellosComeFirst, LoginsInOrder, TypeOK, Helpers
  <2>2. helper.login \in Logins /\ n # helper.login
    BY <1>2, <2>1, ConstantsAssumption DEF Logins
  <2>3. up'[helper.login] = <<>>
    BY <1>1, <2>1, <2>2
  <2> QED
    BY <1>2, <2>2, <2>3
<1>4. ASSUME NEW k \in Logins, NEW i \in 1 .. Len(up'[k]), up'[k][i].type = "HELLO"
      PROVE  i = 1 /\ auth'.conn < k
  <2>1. CASE k = n
    <3>1. up'[k] = Tail(up[k])
      BY <1>1, <2>1
    <3>2. up'[k][i] = up[k][i + 1] /\ i + 1 \in 1 .. Len(up[k]) /\ i + 1 # 1
      BY <1>2, <1>4, <2>1, <3>1, HeadTailProperties
    <3> QED
      BY <1>4, <3>2 DEF HellosComeFirst
  <2>2. CASE k = auth.conn /\ k # n
    <3>1. up'[k] = <<>>
      BY <1>1, <2>2
    <3> QED
      BY <1>4, <3>1
  <2>3. CASE k # auth.conn /\ k # n
    <3>1. up'[k] = up[k]
      BY <1>1, <2>3
    <3>2. i = 1 /\ up[k] # <<>> /\ up[k][1].type = "HELLO"
      BY <1>2, <1>4, <3>1 DEF HellosComeFirst
    <3>3. SaysHello(k)
      BY <1>2, <3>2 DEF SaysHello
    <3>4. ~(k \in 1 .. n - 1)
      BY <1>1, <3>3
    <3> QED
      BY <1>2, <2>3, <3>2, <3>4
  <2> QED
    BY <2>1, <2>2, <2>3
<1> QED
  BY <1>2, <1>3, <1>4 DEF HellosComeFirst

\* What a helper sends after its greeting, and the queue that gets it.
SendsNoHello ==
  \E a, b : \/ Send(<<a>>) /\ a.type # "HELLO"
            \/ Send(<<a, b>>) /\ a.type # "HELLO" /\ b.type # "HELLO"

GetsNoHello(k) ==
  \E a, b : \/ up'[k] = up[k] \o <<a>> /\ a.type # "HELLO"
            \/ up'[k] = up[k] \o <<a, b>> /\ a.type # "HELLO" /\ b.type # "HELLO"

LEMMA SendsOne ==
  ASSUME NEW a, Send(<<a>>), a.type # "HELLO"
  PROVE  SendsNoHello
BY Zenon DEF SendsNoHello

LEMMA SendsTwo ==
  ASSUME NEW a, NEW b, Send(<<a, b>>), a.type # "HELLO", b.type # "HELLO"
  PROVE  SendsNoHello
BY Zenon DEF SendsNoHello

\* HellosComeFirst is inductive.
LEMMA HellosComeFirstStep ==
  ASSUME TypeOK, TypeOK', NothingWithoutDisplay, LoginsInOrder, HellosComeFirst, [Next]_vars
  PROVE  HellosComeFirst'
<1>1. count \in Counts /\ helper \in Helpers /\ auth \in Auths
  BY DEF TypeOK
<1>2. helper.pc # "off" => helper.login \in Logins
  <2>1. helper.login \in 0 .. MaxLogins
    BY <1>1 DEF Helpers
  <2> QED
    BY <2>1, ConstantsAssumption DEF LoginsInOrder, Logins
<1>3. CASE UNCHANGED vars
  BY <1>3 DEF vars, HellosComeFirst
<1>4. CASE NewDisplayWithGreeter \/ UserSteps \/ GreeterSteps \/ GreeterCrash \/ GreeterStopTimer
  BY <1>4 DEF NewDisplayWithGreeter, UserSteps, SubmitLogin, AnswerPrompt,
     GreeterSteps, ReadLoginSucceeded, ReadLoginFailed, ReadPromptRequest, GreeterReads,
     GreeterCrash, GreeterStopTimer, HellosComeFirst
<1>5. CASE LoginAsSddm \/ LoginNotStarted \/ PromptResponseIgnored \/ GreeterDisconnected
  BY <1>5 DEF LoginAsSddm, LoginNotStarted, PromptResponseIgnored, GreeterDisconnected,
     HellosComeFirst
<1>6. CASE PromptResponseTaken
  <2>1. auth'.conn = auth.conn /\ helper' = helper /\ up' = up
    BY <1>1, <1>6 DEF PromptResponseTaken, Finish, Auths
  <2> QED
    BY <2>1 DEF HellosComeFirst
<1>7. CASE NewDisplayWithAutologin \/ LoginStarted
  BY <1>7, HellosAtStart
<1>8. CASE ConnectHelper
  BY <1>8, HellosRead
<1>9. CASE DaemonHearsHelper /\ ~ConnectHelper /\ ~ReapHelper /\ ~ReapRefusedHelper
  <2>1. auth'.conn = auth.conn
    BY <1>1, <1>9 DEF DaemonHearsHelper, ReadError, ReadRequestAnswered,
       ReadRequestRelayed, ReadAccepted, ReadRefused, ReadAutologinRefused,
       ReadSessionStatus, Finish, Auths
  <2>2. PICK type : DaemonReads(type)
    BY <1>9 DEF DaemonHearsHelper, ReadError, ReadRequestAnswered,
       ReadRequestRelayed, ReadAccepted, ReadRefused, ReadAutologinRefused,
       ReadSessionStatus
  <2>3. helper' = helper
    BY <2>2 DEF DaemonReads
  <2>4. \A k \in Logins : up'[k] = up[k] \/ (up[k] # <<>> /\ up'[k] = Tail(up[k]))
    BY <2>2, ReadAt
  <2> QED
    BY <1>2, <2>1, <2>3, <2>4, HellosKept
<1>10. CASE ReapRefusedHelper
  BY <1>10 DEF ReapRefusedHelper, NoHelper, HellosComeFirst
<1>11. CASE StopDisplay
  BY <1>11 DEF StopDisplay, NoHelper, HellosComeFirst
<1>12. CASE HelperHello \/ PamStartFails
  BY <1>12, HellosSent
<1>13. CASE (HelperWorks /\ ~HelperHello /\ ~PamStartFails) \/ SessionEnds
  <2>1. /\ helper.pc # "off" /\ helper.pc # "starting" /\ helper'.pc # "starting"
        /\ auth' = auth
    BY <1>1, <1>13 DEF HelperWorks, HelperSteps, PamAsks,
       PamAsksAgain, PamTells, PamAccepts, PamRefuses, ReceiveAnswers,
       ReceiveEnvironment, SessionOpens, SessionFailsToOpen, ReceiveStatusAck,
       HelperExits, SessionEnds, Exit, Helpers
  <2>2. UNCHANGED up \/ SendsNoHello
    <3>1. CASE PamAsksAgain \/ ReceiveAnswers \/ ReceiveEnvironment
                 \/ ReceiveStatusAck \/ HelperExits \/ SessionEnds
      BY <3>1 DEF PamAsksAgain, ReceiveAnswers, ReceiveEnvironment, ReceiveStatusAck,
         HelperExits, SessionEnds
    <3>2. CASE PamAsks
      BY <3>2, SendsOne DEF PamAsks
    <3>3. CASE PamTells
      BY <3>3, SendsOne DEF PamTells
    <3>4. CASE PamAccepts \/ SessionOpens
      BY <3>4, SendsOne DEF PamAccepts, SessionOpens
    <3>5. CASE PamRefuses \/ SessionFailsToOpen
      BY <3>5, SendsTwo DEF PamRefuses, SessionFailsToOpen, Refusal
    <3> QED
      BY <1>13, <3>1, <3>2, <3>3, <3>4, <3>5 DEF HelperWorks
  <2>3. \A k \in Logins : up'[k] = up[k] \/ GetsNoHello(k)
    <3>1. helper.login # 0
      BY <1>2, <2>1 DEF Logins
    <3>2. ASSUME SendsNoHello
          PROVE  /\ GetsNoHello(helper.login)
                 /\ \A k \in Logins \ {helper.login} : up'[k] = up[k]
      BY <3>1, <3>2, SendAt DEF SendsNoHello, GetsNoHello
    <3> QED
      BY <2>2, <3>2
  <2> QED
    BY <2>1, <2>3, HellosKept DEF GetsNoHello
<1>14. CASE HelperCrash
  BY <1>1, <1>14 DEF HelperCrash, Helpers, HellosComeFirst
<1> QED
  BY <1>3, <1>4, <1>5, <1>6, <1>7, <1>8, <1>9, <1>10, <1>11, <1>12, <1>13, <1>14
     DEF Next, SeatSteps, DaemonHearsGreeter, DaemonHearsHelper, ReapHelper, HelperWorks

-----------------------------------------------------------------------------
(* InPhase *)

IInv == TypeOK /\ NothingWithoutDisplay /\ LoginsInOrder /\ HellosComeFirst /\ InPhase

NoRequests(s) == \A i \in 1 .. Len(s) : s[i].type # "REQUEST"

\* The facts about a live or dead helper that every case below starts from.
LEMMA HelperFacts ==
  ASSUME TypeOK, LoginsInOrder
  PROVE  /\ \A k \in Logins : k \in Nat /\ k # 0
         /\ \A k \in Logins : up[k] \in Seq(UpMessageTypes)
         /\ down \in Seq(DownMessageTypes)
         /\ helper.pc # "off" => helper.login \in Logins
         /\ helper.pc = "off" => helper.login \notin Logins
         /\ auth.conn # 0 => auth.conn \in Logins
         /\ helper.pc \in HelperStages
         /\ helper \in Helpers /\ auth \in Auths /\ display \in Displays
<1>1. /\ helper.login \in 0 .. MaxLogins /\ auth.conn \in 0 .. MaxLogins
      /\ helper.pc \in HelperStages
  BY DEF TypeOK, Helpers, Auths
<1>2. helper.pc = "off" <=> helper.login = 0
  BY DEF LoginsInOrder
<1>3. up \in [Logins -> Seq(UpMessageTypes)] /\ down \in Seq(DownMessageTypes)
        /\ helper \in Helpers /\ auth \in Auths /\ display \in Displays
  BY DEF TypeOK
<1> QED
  BY <1>1, <1>2, <1>3, ConstantsAssumption DEF Logins

\* Reading a queue: what is left of a queue without calls, of one that ends
\* with a call, and of any.
LEMMA TailFacts ==
  ASSUME NEW s \in Seq(UpMessageTypes), s # <<>>
  PROVE  /\ Tail(s) \in Seq(UpMessageTypes) /\ Len(Tail(s)) = Len(s) - 1
         /\ Len(s) \in Nat /\ Len(s) # 0 /\ Head(s) = s[1]
         /\ \A i \in 1 .. Len(Tail(s)) : Tail(s)[i] = s[i + 1] /\ i + 1 \in 2 .. Len(s)
         /\ NoRequests(s) => NoRequests(Tail(s))
         /\ Quiet(s) => Quiet(Tail(s))
<1>1. /\ Tail(s) \in Seq(UpMessageTypes) /\ Len(Tail(s)) = Len(s) - 1
      /\ Len(s) \in Nat /\ Len(s) # 0 /\ Head(s) = s[1]
  BY HeadTailProperties
<1>2. \A i \in 1 .. Len(Tail(s)) : /\ Tail(s)[i] = s[i + 1] /\ i + 1 \in 2 .. Len(s)
                                   /\ i + 1 \in 1 .. Len(s)
  BY HeadTailProperties
<1>3. NoRequests(s) => NoRequests(Tail(s))
  BY <1>2 DEF NoRequests
<1>4. Quiet(s) => Quiet(Tail(s))
  BY <1>2 DEF Quiet
<1> QED
  BY <1>1, <1>2, <1>3, <1>4

LEMMA TailEnds ==
  ASSUME NEW s \in Seq(UpMessageTypes), s # <<>>
  PROVE  /\ Len(s) = 1 => Tail(s) = <<>>
         /\ Len(s) # 1 => /\ Tail(s) # <<>> /\ Tail(s)[Len(s) - 1] = s[Len(s)]
                          /\ Len(s) - 1 \in 1 .. Len(Tail(s))
         /\ \A i \in 1 .. Len(s) - 2 : Tail(s)[i] = s[i + 1] /\ i + 1 \in 1 .. Len(s) - 1
<1>1. /\ Tail(s) \in Seq(UpMessageTypes) /\ Len(Tail(s)) = Len(s) - 1
      /\ Len(s) \in Nat /\ Len(s) # 0
      /\ \A i \in 1 .. Len(Tail(s)) : Tail(s)[i] = s[i + 1]
  BY TailFacts
<1>2. Tail(s) = <<>> <=> Len(s) = 1
  <2>1. Tail(s) = <<>> <=> Len(Tail(s)) = 0
    BY <1>1, EmptySeq
  <2> QED
    BY <1>1, <2>1
<1>3. ASSUME Len(s) # 1
      PROVE  /\ Tail(s) # <<>> /\ Tail(s)[Len(s) - 1] = s[Len(s)]
             /\ Len(s) - 1 \in 1 .. Len(Tail(s))
  <2>1. Len(s) - 1 \in 1 .. Len(Tail(s)) /\ (Len(s) - 1) + 1 = Len(s)
    BY <1>1, <1>3
  <2>2. Tail(s)[Len(s) - 1] = s[(Len(s) - 1) + 1]
    BY <1>1, <2>1
  <2>3. Tail(s) # <<>>
    BY <1>2, <1>3
  <2> QED
    BY <2>1, <2>2, <2>3
<1>4. \A i \in 1 .. Len(s) - 2 : i \in 1 .. Len(Tail(s)) /\ i + 1 \in 1 .. Len(s) - 1
  BY <1>1
<1> QED
  BY <1>1, <1>2, <1>3, <1>4

LEMMA QuietHasNoRequests ==
  ASSUME NEW s, Quiet(s)
  PROVE  NoRequests(s)
BY DEF Quiet, IsCall, NoRequests

\* Nothing of the conversation moves.
LEMMA PhaseStays ==
  ASSUME InPhase, UNCHANGED <<helper, up, down>>,
         display'.pending = display.pending, auth'.conn = auth.conn,
         auth'.request = auth.request, auth'.finished = auth.finished
  PROVE  InPhase'
BY DEF InPhase, Exited, Crashed, Working, Calling, Asking, Replied, PromptHeld, Sent, Awaited

\* A new helper starts to work, the queue of its login still empty.
LEMMA PhaseStarts ==
  ASSUME TypeOK, TypeOK', NothingWithoutDisplay, LoginsInOrder, HellosComeFirst,
         HellosComeFirst', InPhase, NewDisplayWithAutologin \/ LoginStarted
  PROVE  InPhase'
<1>1. helper.pc = "off" /\ up' = up
  BY DEF NewDisplayWithAutologin, LoginStarted, NothingWithoutDisplay, Active
<1>2. display.pending = 0 /\ \A k \in Logins : NoRequests(up[k])
  BY <1>1, HelperFacts DEF InPhase, NoRequests
<1>3. display'.pending = 0
  BY <1>2 DEF NewDisplayWithAutologin, LoginStarted, NoDisplay, TypeOK, Displays
<1>4. /\ helper'.pc = "starting" /\ helper'.code = "SUCCESS" /\ down' = <<>>
  BY DEF NewDisplayWithAutologin, LoginStarted, StartHelper, NoHelper
<1>5. up'[helper'.login] = <<>>
  BY <1>4 DEF HellosComeFirst
<1>6. Working'
  BY <1>3, <1>4, <1>5 DEF Working, Awaited, Sent, Quiet
<1> QED
  BY <1>1, <1>2, <1>4, <1>6 DEF InPhase, NoRequests

\* The answer to the relayed prompt becomes the reply.
LEMMA PhaseAnswered ==
  ASSUME TypeOK, TypeOK', LoginsInOrder, InPhase, PromptResponseTaken
  PROVE  InPhase'
<1>1. /\ display.pending # 0 /\ helper' = helper /\ up' = up
      /\ display'.pending = 0
  BY DEF PromptResponseTaken, TypeOK, Displays
<1>2. helper.pc # "off"
  BY <1>1 DEF InPhase
<1>3. PromptHeld /\ Sent = <<>>
        /\ (helper.pc = "dead" => helper.code = "CRASH")
        /\ (helper.pc # "dead" => Asking)
  BY <1>1, <1>2 DEF InPhase, Exited, Crashed, Working, Calling, Replied, Asking
<1>4. PICK prompts : down' = Append(down, [type |-> "REQUEST", prompts |-> prompts])
  <2>1. ~auth.finished /\ auth.conn = helper.login
    BY <1>3 DEF PromptHeld
  <2> QED
    BY <2>1 DEF PromptResponseTaken, Finish, Reply
<1>5. CASE helper.pc = "dead"
  <2>1. Crashed'
    BY <1>1, <1>3, <1>5 DEF Crashed, Sent
  <2> QED
    BY <1>1, <1>5, <2>1 DEF InPhase
<1>6. CASE helper.pc # "dead"
  <2>1. down = <<>> /\ Awaited = "REQUEST"
    BY <1>3, <1>6 DEF Asking
  <2>2. Len(down') = 1 /\ down'[1].type = "REQUEST"
    BY <1>4, <2>1
  <2>3. Replied'
    BY <1>1, <1>3, <2>1, <2>2 DEF Replied, Sent, Awaited
  <2> QED
    BY <1>1, <1>2, <1>6, <2>3 DEF InPhase
<1> QED
  BY <1>5, <1>6

\* A greeting is read, by a connection that never was the present helper's.
LEMMA PhaseConnects ==
  ASSUME TypeOK, TypeOK', LoginsInOrder, HellosComeFirst, InPhase, ConnectHelper
  PROVE  InPhase'
<1>1. PICK n \in Logins : /\ SaysHello(n)
                          /\ auth' = [auth EXCEPT !.conn = n]
                          /\ up' = [k \in Logins |-> CASE k = n -> Tail(up[k])
                                    [] k = auth.conn /\ k # n -> <<>>
                                    [] OTHER -> up[k]]
  BY DEF ConnectHelper
<1>2. /\ helper' = helper /\ down' = down /\ display' = display
  BY DEF ConnectHelper
<1>3. /\ auth'.conn = n /\ auth'.request = auth.request /\ auth'.finished = auth.finished
  BY <1>1, HelperFacts DEF Auths
<1>4. up[n] # <<>> /\ up[n] \in Seq(UpMessageTypes) /\ up[n][1].type = "HELLO"
        /\ Head(up[n]) = up[n][1] /\ 1 \in 1 .. Len(up[n])
  <2>1. up[n] # <<>> /\ Head(up[n]).type = "HELLO" /\ up[n] \in Seq(UpMessageTypes)
    BY <1>1, HelperFacts DEF SaysHello
  <2> QED
    BY <2>1
<1>5. auth.conn < n /\ n \in Nat /\ auth.conn \in Nat
  <2>1. auth.conn \in 0 .. MaxLogins
    BY DEF TypeOK, Auths
  <2> QED
    BY <1>4, <2>1, HelperFacts, ConstantsAssumption DEF HellosComeFirst
<1>6. ASSUME NEW k \in Logins, NoRequests(up[k])
      PROVE  NoRequests(up'[k])
  <2>1. CASE k = n
    BY <1>1, <1>4, <1>6, <2>1, TailFacts
  <2>2. CASE k # n /\ k = auth.conn
    BY <1>1, <2>2 DEF NoRequests
  <2>3. CASE k # n /\ k # auth.conn
    BY <1>1, <1>6, <2>3
  <2> QED
    BY <2>1, <2>2, <2>3
<1>7. \A k \in Logins \ {helper.login} : NoRequests(up'[k])
  BY <1>6 DEF InPhase, NoRequests
<1>8. CASE helper.pc = "off"
  BY <1>2, <1>7, <1>8 DEF InPhase, NoRequests
<1>9. CASE helper.pc # "off"
  <2>1. helper.login \in Logins /\ n <= helper.login /\ auth.conn # helper.login
    BY <1>4, <1>5, <1>9, HelperFacts DEF LoginsInOrder
  <2>2. ~PromptHeld
    BY <2>1 DEF PromptHeld
  <2>3. CASE n # helper.login
    <3>1. up'[helper.login] = up[helper.login]
      BY <1>1, <2>1, <2>3
    <3> QED
      BY <1>2, <1>7, <1>9, <2>2, <3>1 DEF InPhase, Exited, Crashed, Working, Calling,
         Asking, Replied, Sent, Awaited, NoRequests
  <2>4. CASE n = helper.login
    <3>1. /\ up'[helper.login] = Tail(Sent) /\ Sent # <<>> /\ Sent \in Seq(UpMessageTypes)
          /\ ~IsCall(Sent[1]) /\ Sent[1].type # "REQUEST"
      BY <1>1, <1>4, <2>4 DEF Sent, IsCall
    <3>2. /\ Len(Tail(Sent)) = Len(Sent) - 1 /\ Len(Sent) \in Nat
          /\ \A i \in 1 .. Len(Tail(Sent)) :
               Tail(Sent)[i] = Sent[i + 1] /\ i + 1 \in 2 .. Len(Sent)
          /\ Quiet(Sent) => Quiet(Tail(Sent))
      BY <3>1, TailFacts
    <3>3. ASSUME Working PROVE Working'
      BY <1>2, <3>1, <3>2, <3>3 DEF Working, Awaited, Sent
    <3>4. ASSUME Exited PROVE Exited'
      BY <1>2, <3>1, <3>2, <3>4 DEF Exited, Sent
    <3>5. ASSUME Calling PROVE Calling'
      <4>1. Len(Sent) # 1 /\ Len(Sent) # 0
        BY <3>1, <3>5 DEF Calling
      <4>2. /\ Tail(Sent)[Len(Sent) - 1] = Sent[Len(Sent)] /\ Tail(Sent) # <<>>
            /\ \A i \in 1 .. Len(Sent) - 2 :
                 Tail(Sent)[i] = Sent[i + 1] /\ i + 1 \in 1 .. Len(Sent) - 1
        BY <3>1, <4>1, TailEnds
      <4>3. \A i \in 1 .. Len(Sent) - 2 : ~IsCall(Tail(Sent)[i])
        BY <3>5, <4>2 DEF Calling
      <4>4. Sent' = Tail(Sent) /\ Len(Sent') = Len(Sent) - 1
              /\ Len(Sent') - 1 = Len(Sent) - 2
        BY <1>2, <3>1, <3>2 DEF Sent
      <4>5. Awaited' = Awaited
        BY <1>2 DEF Awaited
      <4> QED
        BY <1>2, <3>5, <4>2, <4>3, <4>4, <4>5 DEF Calling
    <3>6. ASSUME Crashed PROVE Crashed'
      <4>1. display.pending = 0
        BY <2>2, <3>6 DEF Crashed
      <4>2. \A i \in 1 .. Len(Tail(Sent)) : Tail(Sent)[i].type = "REQUEST" =>
              i = Len(Tail(Sent)) /\ Tail(Sent)[i].id = helper.request
        BY <2>2, <3>2, <3>6 DEF Crashed
      <4> QED
        BY <1>2, <3>1, <3>6, <4>1, <4>2 DEF Crashed, Sent
    <3>7. ~Asking /\ ~Replied
      BY <3>1 DEF Asking, Replied
    <3> QED
      BY <1>2, <1>7, <1>9, <3>3, <3>4, <3>5, <3>6, <3>7 DEF InPhase, NoRequests
  <2> QED
    BY <2>3, <2>4
<1> QED
  BY <1>8, <1>9

\* A message that is no call is read, from whichever connection.
LEMMA PhaseReadsNoCall ==
  ASSUME TypeOK, TypeOK', LoginsInOrder, InPhase, NEW type, DaemonReads(type),
         ~IsCall(FromHelper), down' = down,
         display'.pending = display.pending, auth'.conn = auth.conn,
         auth'.request = auth.request, auth'.finished = auth.finished
  PROVE  InPhase'
<1> DEFINE c == auth.conn
<1>1. /\ c \in Logins /\ up[c] \in Seq(UpMessageTypes) /\ up[c] # <<>>
      /\ up'[c] = Tail(up[c]) /\ \A k \in Logins \ {c} : up'[k] = up[k]
  BY ReadAt
<1>2. helper' = helper
  BY DEF DaemonReads
<1>3. \A k \in Logins : NoRequests(up[k]) => NoRequests(up'[k])
  BY <1>1, TailFacts
<1>4. \A k \in Logins \ {helper.login} : NoRequests(up'[k])
  BY <1>3 DEF InPhase, NoRequests
<1>5. CASE helper.pc = "off"
  BY <1>2, <1>4, <1>5 DEF InPhase, NoRequests
<1>6. CASE helper.pc # "off" /\ c # helper.login
  <2>1. up'[helper.login] = up[helper.login]
    BY <1>1, <1>6, HelperFacts
  <2> QED
    BY <1>2, <1>4, <1>6, <2>1 DEF InPhase, Exited, Crashed, Working, Calling,
       Asking, Replied, PromptHeld, Sent, Awaited, NoRequests
<1>7. CASE helper.pc # "off" /\ c = helper.login
  <2>1. /\ Sent # <<>> /\ Sent \in Seq(UpMessageTypes) /\ up'[helper.login] = Tail(Sent)
        /\ Head(Sent) = FromHelper
    BY <1>1, <1>7 DEF Sent, FromHelper
  <2>2. /\ Len(Tail(Sent)) = Len(Sent) - 1 /\ Len(Sent) \in Nat
        /\ \A i \in 1 .. Len(Tail(Sent)) :
             Tail(Sent)[i] = Sent[i + 1] /\ i + 1 \in 2 .. Len(Sent)
        /\ Quiet(Sent) => Quiet(Tail(Sent))
        /\ ~IsCall(Sent[1])
    BY <2>1, TailFacts
  <2>3. ASSUME Working PROVE Working'
    BY <1>2, <2>1, <2>2, <2>3 DEF Working, Awaited, Sent
  <2>4. ASSUME Exited PROVE Exited'
    BY <1>2, <2>1, <2>2, <2>4 DEF Exited, Sent
  <2>5. ASSUME Calling PROVE Calling'
    <3>1. Len(Sent) # 1 /\ Len(Sent) # 0
      BY <2>1, <2>2, <2>5 DEF Calling
    <3>2. /\ Tail(Sent)[Len(Sent) - 1] = Sent[Len(Sent)] /\ Tail(Sent) # <<>>
          /\ \A i \in 1 .. Len(Sent) - 2 :
               Tail(Sent)[i] = Sent[i + 1] /\ i + 1 \in 1 .. Len(Sent) - 1
      BY <2>1, <3>1, TailEnds
    <3>3. \A i \in 1 .. Len(Sent) - 2 : ~IsCall(Tail(Sent)[i])
      BY <2>5, <3>2 DEF Calling
    <3>4. Sent' = Tail(Sent) /\ Len(Sent') = Len(Sent) - 1
            /\ Len(Sent') - 1 = Len(Sent) - 2
      BY <1>2, <2>1, <2>2 DEF Sent
    <3>5. Awaited' = Awaited
      BY <1>2 DEF Awaited
    <3> QED
      BY <1>2, <2>5, <3>2, <3>3, <3>4, <3>5 DEF Calling
  <2>6. ASSUME Crashed PROVE Crashed'
    <3>1. display.pending = 0
      BY <2>1, <2>6 DEF Crashed
    <3>2. \A i \in 1 .. Len(Tail(Sent)) : Tail(Sent)[i].type = "REQUEST" =>
            i = Len(Tail(Sent)) /\ Tail(Sent)[i].id = helper.request
      <4>1. \A i \in 1 .. Len(Sent) : Sent[i].type = "REQUEST" =>
              i = Len(Sent) /\ Sent[i].id = helper.request
        BY <2>1, <2>6 DEF Crashed
      <4>2. \A i \in 1 .. Len(Tail(Sent)) :
              i + 1 \in 1 .. Len(Sent) /\ (i + 1 = Len(Sent) => i = Len(Tail(Sent)))
        BY <2>2
      <4> QED
        BY <2>2, <4>1, <4>2
    <3> QED
      BY <1>2, <2>1, <2>6, <3>1, <3>2 DEF Crashed, Sent
  <2>7. ~Asking /\ ~Replied
    BY <2>1 DEF Asking, Replied
  <2> QED
    BY <1>2, <1>4, <1>7, <2>3, <2>4, <2>5, <2>6, <2>7 DEF InPhase, NoRequests
<1> QED
  BY <1>5, <1>6, <1>7

\* Reading the call a helper waits on leaves its queue empty; a dead helper's
\* queue keeps at most its last request.
LEMMA CallIsLast ==
  ASSUME TypeOK, LoginsInOrder, InPhase, NEW type, DaemonReads(type),
         IsCall(FromHelper), auth.conn = helper.login
  PROVE  /\ helper.pc # "off" /\ display.pending = 0
         /\ up'[helper.login] = Tail(Sent) /\ Sent \in Seq(UpMessageTypes) /\ Sent # <<>>
         /\ helper.pc # "dead" =>
              /\ Calling /\ Tail(Sent) = <<>> /\ Awaited = FromHelper.type
              /\ FromHelper.type = "REQUEST" => FromHelper.id = helper.request
         /\ helper.pc = "dead" =>
              /\ helper.code = "CRASH"
              /\ \A i \in 1 .. Len(Sent) : Sent[i].type = "REQUEST" =>
                   i = Len(Sent) /\ Sent[i].id = helper.request
              /\ FromHelper.type = "REQUEST" =>
                   Tail(Sent) = <<>> /\ FromHelper.id = helper.request
<1>1. /\ helper.login \in Logins /\ Sent \in Seq(UpMessageTypes) /\ Sent # <<>>
      /\ up'[helper.login] = Tail(Sent) /\ Head(Sent) = FromHelper
  BY ReadAt DEF Sent, FromHelper
<1>2. /\ Len(Tail(Sent)) = Len(Sent) - 1 /\ Len(Sent) \in Nat /\ Len(Sent) # 0
      /\ Head(Sent) = Sent[1] /\ Tail(Sent) \in Seq(UpMessageTypes)
      /\ 1 \in 1 .. Len(Sent)
  <2>1. /\ Len(Tail(Sent)) = Len(Sent) - 1 /\ Len(Sent) \in Nat /\ Len(Sent) # 0
        /\ Head(Sent) = Sent[1] /\ Tail(Sent) \in Seq(UpMessageTypes)
    BY <1>1, TailFacts
  <2> QED
    BY <2>1
<1>3. ~Quiet(Sent)
  BY <1>1, <1>2 DEF Quiet
<1>4. helper.pc # "off"
  BY <1>1, HelperFacts
<1>5. CASE helper.pc # "dead"
  <2>1. Calling
    BY <1>1, <1>3, <1>4, <1>5 DEF InPhase, Working, Asking, Replied
  <2>2. Len(Sent) = 1
    BY <1>1, <1>2, <2>1 DEF Calling
  <2>3. Tail(Sent) = <<>>
    BY <1>1, <2>2, TailEnds
  <2> QED
    BY <1>1, <1>2, <1>4, <1>5, <2>1, <2>2, <2>3 DEF Calling
<1>6. CASE helper.pc = "dead"
  <2>1. /\ helper.code = "CRASH" /\ display.pending = 0
        /\ \A i \in 1 .. Len(Sent) : Sent[i].type = "REQUEST" =>
             i = Len(Sent) /\ Sent[i].id = helper.request
    BY <1>1, <1>3, <1>6 DEF InPhase, Exited, Crashed
  <2>2. Sent[1].type = "REQUEST" => Len(Sent) = 1
    BY <1>2, <2>1
  <2>3. FromHelper.type = "REQUEST" => Tail(Sent) = <<>> /\ FromHelper.id = helper.request
    BY <1>1, <1>2, <2>1, <2>2, TailEnds
  <2> QED
    BY <1>1, <1>2, <1>4, <1>6, <2>1, <2>3
<1> QED
  BY <1>5, <1>6

\* The daemon reads a call: it replies at once, or holds the request.
LEMMA PhaseReadsRequest ==
  ASSUME TypeOK, TypeOK', LoginsInOrder, InPhase,
         ReadRequestAnswered \/ ReadRequestRelayed
  PROVE  InPhase'
<1> DEFINE c == auth.conn
<1>1. DaemonReads("REQUEST") /\ FromHelper.type = "REQUEST" /\ IsCall(FromHelper)
  BY DEF ReadRequestAnswered, ReadRequestRelayed, DaemonReads, FromHelper, IsCall
<1>2. /\ c \in Logins /\ up[c] \in Seq(UpMessageTypes) /\ up[c] # <<>>
      /\ \A k \in Logins \ {c} : up'[k] = up[k]
  BY <1>1, ReadAt
<1>3. c = helper.login
  <2>1. Head(up[c]) = up[c][1] /\ 1 \in 1 .. Len(up[c])
    BY <1>2
  <2> QED
    BY <1>1, <1>2, <2>1 DEF FromHelper, InPhase
<1>4. /\ helper.pc # "off" /\ display.pending = 0
      /\ up'[helper.login] = Tail(Sent)
      /\ Tail(Sent) = <<>> /\ FromHelper.id = helper.request
      /\ helper.pc # "dead" => Awaited = "REQUEST" /\ down = <<>>
      /\ helper.pc = "dead" => helper.code = "CRASH"
  BY <1>1, <1>3, CallIsLast DEF Calling
<1>5. helper' = helper
  BY <1>1 DEF DaemonReads
<1>6. Sent' = <<>> /\ Awaited' = Awaited
  BY <1>4, <1>5 DEF Sent, Awaited
<1>7. \A k \in Logins \ {helper.login} : NoRequests(up'[k])
  BY <1>2, <1>3 DEF InPhase, NoRequests
<1>8. CASE ReadRequestAnswered
  <2>1. display' = display
    BY <1>8 DEF ReadRequestAnswered
  <2>2. CASE helper.pc = "dead"
    <3>1. Crashed'
      BY <1>4, <1>5, <1>6, <2>1, <2>2 DEF Crashed
    <3> QED
      BY <1>5, <1>7, <2>2, <3>1 DEF InPhase, NoRequests
  <2>3. CASE helper.pc # "dead"
    <3>1. PICK prompts : down' = Append(down, [type |-> "REQUEST", prompts |-> prompts])
      BY <1>3, <1>8 DEF ReadRequestAnswered, Finish, Reply
    <3>2. Len(down') = 1 /\ down'[1].type = "REQUEST"
      BY <1>4, <2>3, <3>1
    <3>3. Replied'
      BY <1>4, <1>6, <2>1, <2>3, <3>2 DEF Replied
    <3>4. helper'.code = "CRASH" => helper'.pc = "dead"
      BY <1>5 DEF InPhase
    <3> QED
      BY <1>4, <1>5, <1>7, <2>3, <3>3, <3>4 DEF InPhase, NoRequests
  <2> QED
    BY <2>2, <2>3
<1>9. CASE ReadRequestRelayed
  <2>1. /\ down' = down /\ auth'.conn = auth.conn /\ auth'.request = FromHelper.id
        /\ ~auth'.finished /\ display'.pending = FromHelper.id
    BY <1>9, HelperFacts DEF ReadRequestRelayed, Auths, Displays
  <2>2. FromHelper.id # 0
    <3>1. FromHelper \in UpMessageTypes
      BY <1>2 DEF FromHelper
    <3> QED
      BY <1>1, <3>1 DEF UpMessageTypes, Ids
  <2>3. PromptHeld'
    BY <1>3, <1>4, <1>5, <2>1, <2>2 DEF PromptHeld
  <2>4. CASE helper.pc = "dead"
    <3>1. Crashed'
      BY <1>4, <1>5, <1>6, <2>3, <2>4 DEF Crashed
    <3> QED
      BY <1>5, <1>7, <2>4, <3>1 DEF InPhase, NoRequests
  <2>5. CASE helper.pc # "dead"
    <3>1. Asking'
      BY <1>4, <1>6, <2>1, <2>3, <2>5 DEF Asking
    <3>2. helper'.code = "CRASH" => helper'.pc = "dead"
      BY <1>5 DEF InPhase
    <3> QED
      BY <1>4, <1>5, <1>7, <2>5, <3>1, <3>2 DEF InPhase, NoRequests
  <2> QED
    BY <2>4, <2>5
<1> QED
  BY <1>8, <1>9

LEMMA PhaseReadsResult ==
  ASSUME TypeOK, TypeOK', LoginsInOrder, InPhase, ReadAccepted \/ ReadSessionStatus
  PROVE  InPhase'
<1> DEFINE c == auth.conn
<1>1. PICK type \in {"AUTHENTICATED", "SESSION_STATUS"} :
        /\ DaemonReads(type) /\ FromHelper.type = type /\ IsCall(FromHelper)
        /\ Reply([type |-> type])
  BY DEF ReadAccepted, ReadSessionStatus, DaemonReads, FromHelper, IsCall
<1>2. /\ display'.pending = display.pending /\ auth'.conn = auth.conn
      /\ auth'.request = auth.request /\ auth'.finished = auth.finished
  BY HelperFacts DEF ReadAccepted, ReadSessionStatus, Displays, Auths
<1>3. /\ c \in Logins /\ up[c] \in Seq(UpMessageTypes) /\ up[c] # <<>>
      /\ up'[c] = Tail(up[c]) /\ \A k \in Logins \ {c} : up'[k] = up[k]
  BY <1>1, ReadAt
<1>4. helper' = helper
  BY <1>1 DEF DaemonReads
<1>5. \A k \in Logins \ {helper.login} : NoRequests(up'[k])
  <2>1. \A k \in Logins : NoRequests(up[k]) => NoRequests(up'[k])
    BY <1>3, TailFacts
  <2> QED
    BY <2>1 DEF InPhase, NoRequests
<1>6. CASE c # helper.login
  <2>1. down' = down
    BY <1>1, <1>6 DEF Reply
  <2>2. CASE helper.pc = "off"
    BY <1>2, <1>4, <1>5, <2>1, <2>2 DEF InPhase, NoRequests
  <2>3. CASE helper.pc # "off"
    <3>1. up'[helper.login] = up[helper.login]
      BY <1>3, <1>6, <2>3, HelperFacts
    <3> QED
      BY <1>2, <1>4, <1>5, <2>1, <2>3, <3>1 DEF InPhase, Exited, Crashed, Working,
         Calling, Asking, Replied, PromptHeld, Sent, Awaited, NoRequests
  <2> QED
    BY <2>2, <2>3
<1>7. CASE c = helper.login
  <2>1. /\ helper.pc # "off" /\ display.pending = 0
        /\ up'[helper.login] = Tail(Sent) /\ Sent \in Seq(UpMessageTypes) /\ Sent # <<>>
        /\ helper.pc # "dead" => Tail(Sent) = <<>> /\ Awaited = type /\ down = <<>>
        /\ helper.pc = "dead" =>
             /\ helper.code = "CRASH"
             /\ \A i \in 1 .. Len(Sent) : Sent[i].type = "REQUEST" =>
                  i = Len(Sent) /\ Sent[i].id = helper.request
    BY <1>1, <1>7, CallIsLast DEF Calling
  <2>2. Sent' = Tail(Sent) /\ Awaited' = Awaited
    BY <1>4, <2>1 DEF Sent, Awaited
  <2>3. CASE helper.pc = "dead"
    <3>1. \A i \in 1 .. Len(Tail(Sent)) : Tail(Sent)[i].type = "REQUEST" =>
            i = Len(Tail(Sent)) /\ Tail(Sent)[i].id = helper.request
      <4>1. /\ Len(Tail(Sent)) = Len(Sent) - 1 /\ Len(Sent) \in Nat
            /\ \A i \in 1 .. Len(Tail(Sent)) :
                 Tail(Sent)[i] = Sent[i + 1] /\ i + 1 \in 2 .. Len(Sent)
        BY <2>1, TailFacts
      <4>2. \A i \in 1 .. Len(Tail(Sent)) :
              i + 1 \in 1 .. Len(Sent) /\ (i + 1 = Len(Sent) => i = Len(Tail(Sent)))
        BY <4>1
      <4>3. \A i \in 1 .. Len(Sent) : Sent[i].type = "REQUEST" =>
              i = Len(Sent) /\ Sent[i].id = helper.request
        BY <2>1, <2>3
      <4> QED
        BY <4>1, <4>2, <4>3
    <3>2. Crashed'
      BY <1>2, <1>4, <2>1, <2>2, <2>3, <3>1 DEF Crashed
    <3> QED
      BY <1>4, <1>5, <2>3, <3>2 DEF InPhase, NoRequests
  <2>4. CASE helper.pc # "dead"
    <3>1. down' = Append(down, [type |-> type])
      BY <1>1, <1>7 DEF Reply
    <3>2. Len(down') = 1 /\ down'[1].type = type
      BY <2>1, <2>4, <3>1
    <3>3. Replied'
      BY <1>1, <1>2, <2>1, <2>2, <2>4, <3>2 DEF Replied
    <3>4. helper'.code = "CRASH" => helper'.pc = "dead"
      BY <1>4 DEF InPhase
    <3> QED
      BY <1>4, <1>5, <2>1, <2>4, <3>3, <3>4 DEF InPhase, NoRequests
  <2> QED
    BY <2>3, <2>4
<1> QED
  BY <1>6, <1>7

\* The helper's process is reaped; the unread rest of its queue holds no call.
LEMMA PhaseReaped ==
  ASSUME TypeOK, LoginsInOrder, InPhase, ReapRefusedHelper
  PROVE  InPhase'
<1>1. /\ helper.pc = "dead" /\ helper.code = "AUTH_ERROR" /\ helper'.pc = "off"
      /\ helper'.code = "SUCCESS" /\ UNCHANGED <<display, up, down>>
  BY DEF ReapRefusedHelper, NoHelper
<1>2. Quiet(up[helper.login]) /\ down = <<>> /\ display.pending = 0
  BY <1>1 DEF InPhase, Exited, Crashed, Sent
<1>3. \A k \in Logins : NoRequests(up[k])
  BY <1>2, QuietHasNoRequests DEF InPhase, NoRequests
<1> QED
  BY <1>1, <1>2, <1>3 DEF InPhase, NoRequests

LEMMA PhaseStops ==
  ASSUME StopDisplay
  PROVE  InPhase'
<1>1. /\ helper'.pc = "off" /\ helper'.code = "SUCCESS" /\ down' = <<>>
      /\ display'.pending = 0 /\ \A k \in Logins : up'[k] = <<>>
  BY DEF StopDisplay, NoHelper, NoDisplay
<1> QED
  BY <1>1 DEF InPhase

-----------------------------------------------------------------------------
(* InPhase: the helper's own steps *)

\* A helper that works sends something that is no call, or nothing, and works
\* on or is done.
LEMMA PhaseWorksOn ==
  ASSUME TypeOK, LoginsInOrder, InPhase, Working, helper.pc # "off", helper.pc # "dead",
         helper'.login = helper.login, helper'.code # "CRASH",
         helper'.pc \in {"pam", "opening", "session", "exiting", "dead"},
         down' = down, display' = display,
         \/ up' = up
         \/ \E a : Send(<<a>>) /\ ~IsCall(a)
         \/ \E a, b : Send(<<a, b>>) /\ ~IsCall(a) /\ ~IsCall(b)
         \/ \E a, b, c : Send(<<a, b, c>>) /\ ~IsCall(a) /\ ~IsCall(b) /\ ~IsCall(c)
  PROVE  InPhase'
<1>1. helper.login \in Logins /\ helper.login # 0 /\ up[helper.login] \in Seq(UpMessageTypes)
  BY HelperFacts
<1>2. Quiet(up[helper.login]) /\ down = <<>> /\ display.pending = 0
  BY DEF Working, Sent
<1> DEFINE StaysQuiet == /\ Quiet(up'[helper.login])
                         /\ \A k \in Logins \ {helper.login} : up'[k] = up[k]
<1>3. StaysQuiet
  <2>1. CASE up' = up
    BY <1>2, <2>1
  <2>2. ASSUME NEW a, Send(<<a>>), ~IsCall(a)
        PROVE  StaysQuiet
    <3>1. /\ up'[helper.login] = up[helper.login] \o <<a>>
          /\ \A k \in Logins \ {helper.login} : up'[k] = up[k]
      BY <1>1, <2>2, SendAt
    <3>2. \A i \in 1 .. Len(up'[helper.login]) :
            up'[helper.login][i] = a \/ (i \in 1 .. Len(up[helper.login]) /\
              up'[helper.login][i] = up[helper.login][i])
      BY <1>1, <3>1
    <3> QED
      BY <1>2, <2>2, <3>1, <3>2 DEF Quiet
  <2>3. ASSUME NEW a, NEW b, Send(<<a, b>>), ~IsCall(a), ~IsCall(b)
        PROVE  StaysQuiet
    <3>1. /\ up'[helper.login] = up[helper.login] \o <<a, b>>
          /\ \A k \in Logins \ {helper.login} : up'[k] = up[k]
      BY <1>1, <2>3, SendAt
    <3>2. \A i \in 1 .. Len(up'[helper.login]) :
            \/ up'[helper.login][i] = a \/ up'[helper.login][i] = b
            \/ i \in 1 .. Len(up[helper.login]) /\
                 up'[helper.login][i] = up[helper.login][i]
      BY <1>1, <3>1
    <3> QED
      BY <1>2, <2>3, <3>1, <3>2 DEF Quiet
  <2>4. ASSUME NEW a, NEW b, NEW c, Send(<<a, b, c>>), ~IsCall(a), ~IsCall(b), ~IsCall(c)
        PROVE  StaysQuiet
    <3>1. /\ up'[helper.login] = up[helper.login] \o <<a, b, c>>
          /\ \A k \in Logins \ {helper.login} : up'[k] = up[k]
      BY <1>1, <2>4, SendAt
    <3>2. \A i \in 1 .. Len(up'[helper.login]) :
            \/ up'[helper.login][i] = a \/ up'[helper.login][i] = b
            \/ up'[helper.login][i] = c
            \/ i \in 1 .. Len(up[helper.login]) /\
                 up'[helper.login][i] = up[helper.login][i]
      BY <1>1, <3>1
    <3> QED
      BY <1>2, <2>4, <3>1, <3>2 DEF Quiet
  <2> QED
    BY <2>1, <2>2, <2>3, <2>4
<1>4. \A k \in Logins \ {helper.login} : NoRequests(up'[k])
  BY <1>3 DEF InPhase, NoRequests
<1>5. CASE helper'.pc = "dead"
  <2>1. Exited'
    BY <1>2, <1>3 DEF Exited, Sent
  <2> QED
    BY <1>4, <1>5, <2>1 DEF InPhase, NoRequests
<1>6. CASE helper'.pc # "dead"
  <2>1. Working'
    BY <1>2, <1>3, <1>6 DEF Working, Sent, Awaited
  <2> QED
    BY <1>4, <1>6, <2>1 DEF InPhase, NoRequests
<1> QED
  BY <1>5, <1>6

\* A helper that works ends what it sends with a call, and waits.
LEMMA PhaseCalls ==
  ASSUME TypeOK, LoginsInOrder, InPhase, Working, helper.pc # "off", helper.pc # "dead",
         helper'.login = helper.login, helper'.code # "CRASH",
         NEW call, IsCall(call),
         \/ helper'.pc = "waitRequest" /\ call.type = "REQUEST" /\ call.id = helper'.request
         \/ helper'.pc = "waitEnv" /\ call.type = "AUTHENTICATED"
         \/ helper'.pc = "waitStatus" /\ call.type = "SESSION_STATUS",
         down' = down, display' = display,
         Send(<<call>>) \/ \E a : Send(<<a, call>>) /\ ~IsCall(a)
  PROVE  InPhase'
<1>1. helper.login \in Logins /\ helper.login # 0 /\ up[helper.login] \in Seq(UpMessageTypes)
  BY HelperFacts
<1>2. Quiet(up[helper.login]) /\ down = <<>> /\ display.pending = 0
  BY DEF Working, Sent
<1> DEFINE s == up'[helper.login]
<1> DEFINE EndsWithCall == /\ s # <<>> /\ s[Len(s)] = call
                           /\ \A i \in 1 .. Len(s) - 1 : ~IsCall(s[i])
                           /\ \A k \in Logins \ {helper.login} : up'[k] = up[k]
<1>3. EndsWithCall
  <2>1. CASE Send(<<call>>)
    <3>1. /\ s = up[helper.login] \o <<call>>
          /\ \A k \in Logins \ {helper.login} : up'[k] = up[k]
      BY <1>1, <2>1, SendAt
    <3>2. /\ s # <<>> /\ s[Len(s)] = call
          /\ \A i \in 1 .. Len(s) - 1 :
               i \in 1 .. Len(up[helper.login]) /\ s[i] = up[helper.login][i]
      BY <1>1, <3>1
    <3> QED
      BY <1>2, <3>1, <3>2 DEF Quiet
  <2>2. ASSUME NEW a, Send(<<a, call>>), ~IsCall(a)
        PROVE  EndsWithCall
    <3>1. /\ s = up[helper.login] \o <<a, call>>
          /\ \A k \in Logins \ {helper.login} : up'[k] = up[k]
      BY <1>1, <2>2, SendAt
    <3>2. /\ s # <<>> /\ s[Len(s)] = call
          /\ \A i \in 1 .. Len(s) - 1 :
               s[i] = a \/ (i \in 1 .. Len(up[helper.login]) /\ s[i] = up[helper.login][i])
      BY <1>1, <3>1
    <3> QED
      BY <1>2, <2>2, <3>1, <3>2 DEF Quiet
  <2> QED
    BY <2>1, <2>2
<1>4. \A k \in Logins \ {helper.login} : NoRequests(up'[k])
  BY <1>3 DEF InPhase, NoRequests
<1>5. Awaited' = call.type /\ Awaited' # "nothing"
  BY DEF Awaited
<1>6. call.type = "REQUEST" => call.id = helper'.request
  OBVIOUS
<1>7. Sent' = s
  BY DEF Sent
<1>8. Calling'
  BY <1>2, <1>3, <1>5, <1>6, <1>7 DEF Calling
<1> QED
  BY <1>4, <1>8 DEF InPhase, NoRequests

\* A helper that waits takes its reply.
LEMMA PhaseReceives ==
  ASSUME TypeOK, LoginsInOrder, InPhase,
         helper.pc \in {"waitRequest", "waitEnv", "waitStatus"},
         down # <<>>, down' = Tail(down), up' = up, display' = display,
         helper'.login = helper.login, helper'.code # "CRASH",
         helper'.pc \in {"pam", "opening", "session", "exiting"}
  PROVE  InPhase'
<1>1. Replied
  BY DEF InPhase, Working, Calling, Asking, Awaited
<1>2. down' = <<>>
  <2>1. down \in Seq(DownMessageTypes) /\ Len(down) = 1
    BY <1>1 DEF Replied, TypeOK
  <2> QED
    BY <2>1
<1>3. Working'
  BY <1>1, <1>2 DEF Replied, Working, Sent, Awaited, Quiet
<1> QED
  BY <1>3 DEF InPhase

\* The helper dies in the middle of whatever it did.
LEMMA PhaseCrashes ==
  ASSUME TypeOK, LoginsInOrder, InPhase, HelperCrash
  PROVE  InPhase'
<1>1. /\ helper'.pc = "dead" /\ helper'.code = "CRASH" /\ helper'.login = helper.login
      /\ helper'.request = helper.request
      /\ UNCHANGED <<display, auth, up, down>>
      /\ helper.pc # "off" /\ helper.pc # "dead"
  BY HelperFacts DEF HelperCrash, Helpers
<1>2. Working \/ Calling \/ Asking \/ Replied
  BY <1>1 DEF InPhase
<1>3. Sent \in Seq(UpMessageTypes)
  BY <1>1, HelperFacts DEF Sent
<1>4. Sent' = Sent
  BY <1>1 DEF Sent
<1>5. CASE Working \/ Replied
  <2>1. display.pending = 0 /\ NoRequests(Sent)
    BY <1>5, QuietHasNoRequests DEF Working, Replied, NoRequests
  <2> QED
    BY <1>1, <1>4, <2>1 DEF Crashed, InPhase, NoRequests
<1>6. CASE Calling
  <2>1. Len(Sent) \in Nat /\ display.pending = 0
    BY <1>3, <1>6 DEF Calling
  <2>2. \A i \in 1 .. Len(Sent) - 1 : Sent[i].type # "REQUEST"
    BY <1>6 DEF Calling, IsCall
  <2>3. Sent[Len(Sent)].type = "REQUEST" => Sent[Len(Sent)].id = helper.request
    BY <1>6 DEF Calling
  <2>4. \A i \in 1 .. Len(Sent) : i = Len(Sent) \/ i \in 1 .. Len(Sent) - 1
    BY <2>1
  <2>5. Crashed'
    BY <1>1, <1>4, <2>1, <2>2, <2>3, <2>4 DEF Crashed
  <2> QED
    BY <1>1, <2>5 DEF InPhase
<1>7. CASE Asking
  <2>1. Crashed'
    BY <1>1, <1>4, <1>7 DEF Asking, Crashed, PromptHeld
  <2> QED
    BY <1>1, <2>1 DEF InPhase
<1> QED
  BY <1>2, <1>5, <1>6, <1>7

\* One message put in front of two makes a sequence of three.
LEMMA JoinThree ==
  ASSUME NEW x, NEW y, NEW z
  PROVE  <<x>> \o <<y, z>> = <<x, y, z>>
<1> DEFINE S == {x, y, z}
           left == <<x>>
           right == <<y, z>>
           joined == left \o right
           three == <<x, y, z>>
<1>1. left \in Seq(S) /\ right \in Seq(S) /\ Len(left) = 1 /\ Len(right) = 2
  OBVIOUS
<1>2. left[1] = x /\ right[1] = y /\ right[2] = z
  OBVIOUS
<1>3. three \in Seq(S) /\ Len(three) = 3 /\ three[1] = x /\ three[2] = y /\ three[3] = z
  OBVIOUS
<1> HIDE DEF S, left, right, three
<1>4. /\ joined \in Seq(S)
      /\ Len(joined) = Len(left) + Len(right)
      /\ \A i \in 1 .. Len(left) + Len(right) :
           joined[i] = IF i <= Len(left) THEN left[i] ELSE right[i - Len(left)]
  <2> HIDE DEF joined
  <2> QED
    BY <1>1, ConcatProperties DEF joined
<1> HIDE DEF joined
<1>5. joined[1] = x /\ joined[2] = y /\ joined[3] = z
  BY <1>1, <1>2, <1>4
<1>6. Len(joined) = 3
  BY <1>1, <1>4
<1>7. three = [i \in 1 .. 3 |-> three[i]]
  BY <1>3
<1>8. joined = [i \in 1 .. 3 |-> joined[i]]
  <2>1. \A q \in Seq(S) : q = [i \in 1 .. Len(q) |-> q[i]]
    OBVIOUS
  <2> QED
    BY <1>4, <1>6, <2>1
<1>9. \A i \in 1 .. 3 : joined[i] = three[i]
  BY <1>3, <1>5
<1> QED
  BY <1>7, <1>8, <1>9 DEF left, right, three, joined

\* The helper's steps, one by one.
LEMMA PhaseHelperSteps ==
  ASSUME TypeOK, LoginsInOrder, InPhase, HelperWorks \/ SessionEnds \/ HelperCrash
  PROVE  InPhase'
<1>1. helper \in Helpers /\ (helper.pc # "dead" => helper.code # "CRASH")
  BY HelperFacts DEF InPhase
<1>2. helper.pc \in {"starting", "pam", "opening", "session", "exiting"} => Working
  BY DEF InPhase, Working, Calling, Asking, Replied, Awaited
<1>3. CASE HelperHello
  <2>1. /\ helper.pc = "starting" /\ helper'.pc = "pam" /\ helper'.login = helper.login
        /\ helper'.code = helper.code /\ down' = down /\ display' = display
        /\ Send(<<[type |-> "HELLO"]>>) /\ ~IsCall([type |-> "HELLO"])
    BY <1>1, <1>3 DEF HelperHello, HelperSteps, Helpers, IsCall
  <2> QED
    BY <1>1, <1>2, <2>1, PhaseWorksOn
<1>4. CASE PamStartFails
  <2> DEFINE a == [type |-> "HELLO"]
             b == [type |-> "ERROR", error |-> "INTERNAL"]
             c == [type |-> "AUTHENTICATED", user |-> 0]
  <2>1. /\ helper.pc = "starting" /\ helper'.pc = "exiting" /\ helper'.login = helper.login
        /\ helper'.code # "CRASH" /\ down' = down /\ display' = display
    BY <1>1, <1>4 DEF PamStartFails, HelperSteps, Exit, Helpers
  <2>2. ~IsCall(a) /\ ~IsCall(b) /\ ~IsCall(c)
    BY DEF IsCall
  <2>3. Send(<<a, b, c>>)
    <3>1. <<a>> \o <<b, c>> = <<a, b, c>>
      BY JoinThree
    <3> QED
      BY <1>4, <3>1 DEF PamStartFails, Refusal
  <2> HIDE DEF a, b, c
  <2> QED
    BY <1>2, <2>1, <2>2, <2>3, PhaseWorksOn
<1>5. CASE PamAsks
  <2>1. PICK m \in PamMessages :
          LET asked == InsertPrompt(helper.data, m) IN
            /\ helper' = [helper EXCEPT !.pc = "waitRequest", !.data = asked,
                             !.msg = m, !.given = NoResponse, !.msgs = @ + 1,
                             !.request = count.requests + 1]
            /\ Send(<<[type |-> "REQUEST", id |-> count.requests + 1,
                       prompts |-> asked.prompts]>>)
    BY <1>5 DEF PamAsks
  <2> DEFINE call == [type |-> "REQUEST", id |-> count.requests + 1,
                      prompts |-> InsertPrompt(helper.data, m).prompts]
  <2>2. /\ helper.pc = "pam" /\ helper'.pc = "waitRequest" /\ helper'.login = helper.login
        /\ helper'.code = helper.code /\ helper'.request = count.requests + 1
        /\ down' = down /\ display' = display
    BY <1>1, <1>5, <2>1 DEF PamAsks, HelperSteps, Helpers
  <2>3. Send(<<call>>)
    BY <2>1
  <2>4. call.type = "REQUEST" /\ call.id = helper'.request /\ IsCall(call)
    BY <2>2 DEF IsCall
  <2> HIDE DEF call
  <2> QED
    BY <1>1, <1>2, <2>2, <2>3, <2>4, PhaseCalls
<1>6. CASE PamAsksAgain
  <2>1. /\ helper.pc = "pam" /\ helper'.pc = "pam" /\ helper'.login = helper.login
        /\ helper'.code = helper.code /\ down' = down /\ display' = display /\ up' = up
    BY <1>1, <1>6 DEF PamAsksAgain, HelperSteps, Helpers
  <2> QED
    BY <1>1, <1>2, <2>1, PhaseWorksOn
<1>7. CASE PamTells
  <2>1. /\ helper.pc = "pam" /\ helper'.pc = "pam" /\ helper'.login = helper.login
        /\ helper'.code = helper.code /\ down' = down /\ display' = display
    BY <1>1, <1>7 DEF PamTells, HelperSteps, Helpers
  <2>2. up' = up \/ Send(<<[type |-> "ERROR", error |-> "AUTHENTICATION"]>>)
    BY <1>7 DEF PamTells
  <2>3. ~IsCall([type |-> "ERROR", error |-> "AUTHENTICATION"])
    BY DEF IsCall
  <2> QED
    BY <1>1, <1>2, <2>1, <2>2, <2>3, PhaseWorksOn
<1>8. CASE ReceiveAnswers
  <2>1. /\ helper.pc = "waitRequest" /\ helper'.pc = "pam" /\ helper'.login = helper.login
        /\ helper'.code = helper.code /\ down # <<>> /\ down' = Tail(down)
        /\ display' = display /\ up' = up
    BY <1>1, <1>8 DEF ReceiveAnswers, HelperSteps, Helpers
  <2> QED
    BY <1>1, <2>1, PhaseReceives
<1>9. CASE PamAccepts
  <2> DEFINE call == [type |-> "AUTHENTICATED", user |-> helper.login]
  <2>1. /\ helper.pc = "pam" /\ helper'.pc = "waitEnv" /\ helper'.login = helper.login
        /\ helper'.code = helper.code /\ down' = down /\ display' = display
        /\ Send(<<call>>)
    BY <1>1, <1>9 DEF PamAccepts, HelperSteps, Helpers
  <2>2. call.type = "AUTHENTICATED" /\ IsCall(call)
    BY <2>1, HelperFacts DEF IsCall
  <2> HIDE DEF call
  <2> QED
    BY <1>1, <1>2, <2>1, <2>2, PhaseCalls
<1>10. CASE PamRefuses
  <2> DEFINE a == [type |-> "ERROR", error |-> "AUTHENTICATION"]
             b == [type |-> "AUTHENTICATED", user |-> 0]
  <2>1. /\ helper.pc = "pam" /\ helper'.pc = "exiting" /\ helper'.login = helper.login
        /\ helper'.code # "CRASH" /\ down' = down /\ display' = display
        /\ Send(<<a, b>>)
    BY <1>1, <1>10 DEF PamRefuses, HelperSteps, Exit, Helpers, Refusal
  <2>2. ~IsCall(a) /\ ~IsCall(b)
    BY DEF IsCall
  <2> HIDE DEF a, b
  <2> QED
    BY <1>2, <2>1, <2>2, PhaseWorksOn
<1>11. CASE ReceiveEnvironment \/ ReceiveStatusAck
  <2>1. /\ helper.pc \in {"waitEnv", "waitStatus"}
        /\ helper'.pc \in {"opening", "session", "exiting"}
        /\ helper'.login = helper.login /\ helper'.code # "CRASH"
        /\ down # <<>> /\ down' = Tail(down) /\ display' = display /\ up' = up
    BY <1>1, <1>11 DEF ReceiveEnvironment, ReceiveStatusAck, HelperSteps, Exit, Helpers
  <2> QED
    BY <2>1, PhaseReceives
<1>12. CASE SessionOpens
  <2> DEFINE call == [type |-> "SESSION_STATUS", ok |-> TRUE]
  <2>1. /\ helper.pc = "opening" /\ helper'.pc = "waitStatus" /\ helper'.login = helper.login
        /\ helper'.code = helper.code /\ down' = down /\ display' = display
        /\ Send(<<call>>)
    BY <1>1, <1>12 DEF SessionOpens, HelperSteps, Helpers
  <2>2. call.type = "SESSION_STATUS" /\ IsCall(call)
    BY DEF IsCall
  <2> HIDE DEF call
  <2> QED
    BY <1>1, <1>2, <2>1, <2>2, PhaseCalls
<1>13. CASE SessionFailsToOpen
  <2> DEFINE call == [type |-> "SESSION_STATUS", ok |-> FALSE]
             a(error) == [type |-> "ERROR", error |-> error]
  <2>1. PICK error : Send(<<a(error), call>>)
    BY <1>13 DEF SessionFailsToOpen
  <2>2. /\ helper.pc = "opening" /\ helper'.pc = "waitStatus" /\ helper'.login = helper.login
        /\ helper'.code = helper.code /\ down' = down /\ display' = display
    BY <1>1, <1>13 DEF SessionFailsToOpen, HelperSteps, Helpers
  <2>3. call.type = "SESSION_STATUS" /\ IsCall(call) /\ ~IsCall(a(error))
    BY DEF IsCall
  <2> HIDE DEF call, a
  <2> QED
    BY <1>1, <1>2, <2>1, <2>2, <2>3, PhaseCalls
<1>14. CASE SessionEnds \/ HelperExits
  <2>1. /\ helper.pc \in {"session", "exiting"} /\ helper'.pc \in {"exiting", "dead"}
        /\ helper'.login = helper.login /\ helper'.code # "CRASH"
        /\ down' = down /\ display' = display /\ up' = up
    BY <1>1, <1>14 DEF SessionEnds, HelperExits, HelperSteps, Exit, Helpers
  <2> QED
    BY <1>2, <2>1, PhaseWorksOn
<1>15. CASE HelperCrash
  BY <1>15, PhaseCrashes
<1> QED
  BY <1>3, <1>4, <1>5, <1>6, <1>7, <1>8, <1>9, <1>10, <1>11, <1>12, <1>13, <1>14, <1>15
     DEF HelperWorks

\* InPhase is inductive.
LEMMA InPhaseStep ==
  ASSUME TypeOK, TypeOK', NothingWithoutDisplay, LoginsInOrder, HellosComeFirst,
         HellosComeFirst', InPhase, [Next]_vars
  PROVE  InPhase'
<1>1. display \in Displays /\ auth \in Auths
  BY HelperFacts
<1>2. CASE UNCHANGED vars
  BY <1>2, PhaseStays DEF vars
<1>3. CASE NewDisplayWithGreeter
  <2>1. display.pending = 0 /\ display'.pending = 0
    BY <1>3 DEF NewDisplayWithGreeter, NothingWithoutDisplay, InPhase, NoDisplay
  <2> QED
    BY <1>3, <2>1, PhaseStays DEF NewDisplayWithGreeter
<1>4. CASE NewDisplayWithAutologin \/ LoginStarted
  BY <1>4, PhaseStarts
<1>5. CASE UserSteps \/ GreeterSteps \/ GreeterCrash
  BY <1>5, PhaseStays DEF UserSteps, SubmitLogin, AnswerPrompt, GreeterSteps,
     ReadLoginSucceeded, ReadLoginFailed, ReadPromptRequest, GreeterReads, GreeterCrash
<1>6. CASE GreeterStopTimer \/ LoginAsSddm \/ LoginNotStarted \/ PromptResponseIgnored
             \/ GreeterDisconnected
  BY <1>1, <1>6, PhaseStays DEF GreeterStopTimer, LoginAsSddm, LoginNotStarted,
     PromptResponseIgnored, GreeterDisconnected, Displays
<1>7. CASE PromptResponseTaken
  BY <1>7, PhaseAnswered
<1>8. CASE ConnectHelper
  BY <1>8, PhaseConnects
<1>9. CASE ReadError \/ ReadRefused \/ ReadAutologinRefused
  <2>1. PICK type : DaemonReads(type) /\ FromHelper.type = type /\ ~IsCall(FromHelper)
    BY <1>9 DEF ReadError, ReadRefused, ReadAutologinRefused, DaemonReads, FromHelper, IsCall
  <2>2. /\ down' = down /\ display'.pending = display.pending /\ auth'.conn = auth.conn
        /\ auth'.request = auth.request /\ auth'.finished = auth.finished
    BY <1>1, <1>9 DEF ReadError, ReadRefused, ReadAutologinRefused, Displays, Auths
  <2> QED
    BY <2>1, <2>2, PhaseReadsNoCall
<1>10. CASE ReadRequestAnswered \/ ReadRequestRelayed
  BY <1>10, PhaseReadsRequest
<1>11. CASE ReadAccepted \/ ReadSessionStatus
  BY <1>11, PhaseReadsResult
<1>12. CASE ReapRefusedHelper
  BY <1>12, PhaseReaped
<1>13. CASE ReapHelper
  BY <1>13, PhaseStops DEF ReapHelper
<1>14. CASE HelperWorks \/ SessionEnds \/ HelperCrash
  BY <1>14, PhaseHelperSteps
<1> QED
  BY <1>2, <1>3, <1>4, <1>5, <1>6, <1>7, <1>8, <1>9, <1>10, <1>11, <1>12, <1>13, <1>14
     DEF Next, SeatSteps, DaemonHearsGreeter, DaemonHearsHelper

-----------------------------------------------------------------------------
(* The theorems *)

LEMMA InvariantHolds == Spec => []IInv
<1>1. Init => IInv
  <2> SUFFICES ASSUME Init
               PROVE  IInv
    OBVIOUS
  <2>1. TypeOK
    BY TypeInit
  <2>2. /\ helper.pc = "off" /\ helper.login = 0 /\ helper.code = "SUCCESS"
        /\ auth.conn = 0 /\ toDaemon = <<>> /\ down = <<>>
        /\ ~greeter.up /\ ~display.running /\ display.pending = 0
        /\ \A k \in Logins : up[k] = <<>>
        /\ count.logins \in Nat
    BY DEF Init, NoHelper, NewAuth, NoGreeter, NoDisplay
  <2>3. \A k \in Logins : Len(up[k]) = 0
    BY <2>2
  <2>4. NothingWithoutDisplay
    BY <2>2 DEF NothingWithoutDisplay
  <2>5. LoginsInOrder
    BY <2>2 DEF LoginsInOrder
  <2>6. HellosComeFirst
    BY <2>2, <2>3 DEF HellosComeFirst
  <2>7. InPhase
    BY <2>2, <2>3 DEF InPhase
  <2> QED
    BY <2>1, <2>4, <2>5, <2>6, <2>7 DEF IInv
<1>2. IInv /\ [Next]_vars => IInv'
  BY TypeKept, NothingWithoutDisplayStep, LoginsInOrderStep, HellosComeFirstStep,
     InPhaseStep DEF IInv
<1> QED
  BY <1>1, <1>2, PTL DEF Spec

\* A blocked helper has its message unread, held for the user's answer or
\* answered exactly once with the reply it waits for, and no reply is under way
\* for a helper that does not wait: HelperApp's calls and the daemon's handlers
\* stay in lock step for any number of logins and any PAM stack.
THEOREM HelperAndDaemonInLockStep == Spec => []LockStep
<1>1. IInv => LockStep
  <2> SUFFICES ASSUME IInv, helper.pc # "dead"
               PROVE  /\ Awaited # "nothing" => Unread \/ Held \/ Answered
                      /\ down # <<>> => Answered
    BY DEF LockStep
  <2>1. CASE helper.pc = "off"
    BY <2>1 DEF IInv, InPhase, Awaited
  <2>2. CASE helper.pc # "off"
    <3>1. Working \/ Calling \/ Asking \/ Replied
      BY <2>2 DEF IInv, InPhase
    <3>2. Sent \in Seq(UpMessageTypes)
      BY <2>2, HelperFacts DEF IInv, Sent
    <3>3. Sent # <<>> => Last(Sent) = Sent[Len(Sent)]
      BY DEF Last
    <3>4. CASE Working
      BY <3>4 DEF Working
    <3>5. CASE Calling
      BY <3>3, <3>5 DEF Calling, Unread, Sent
    <3>6. CASE Asking
      BY <3>6 DEF Asking, Held, PromptHeld, Sent
    <3>7. CASE Replied
      BY <3>7 DEF Replied, Answered, Sent
    <3> QED
      BY <3>1, <3>4, <3>5, <3>6, <3>7
  <2> QED
    BY <2>1, <2>2
<1> QED
  BY <1>1, InvariantHolds, PTL

\* The prompt the daemon holds is the open request of the helper it is
\* connected to, which still waits for it or has crashed: an answer never
\* completes another helper's request or one that is finished.
THEOREM PendingPromptIsAwaited == Spec => []PendingIsAwaited
<1>1. IInv => PendingIsAwaited
  <2> SUFFICES ASSUME IInv, display.pending # 0
               PROVE  /\ PromptHeld /\ helper.pc \in {"waitRequest", "dead"}
    BY DEF PendingIsAwaited, PromptHeld
  <2>1. helper.pc # "off"
    BY DEF IInv, InPhase
  <2>2. CASE helper.pc = "dead"
    BY <2>2 DEF IInv, InPhase, Exited, Crashed
  <2>3. CASE helper.pc # "dead"
    BY <2>1, <2>3 DEF IInv, InPhase, Working, Calling, Replied, Asking, Awaited
  <2> QED
    BY <2>2, <2>3
<1> QED
  BY <1>1, InvariantHolds, PTL

-----------------------------------------------------------------------------
(* How far the login being served is *)

\* The verdict and the session are what the helper's stage says.
VerdictByStage ==
  /\ helper.pc \in {"starting", "pam", "waitRequest"} => helper.verdict = "none"
  /\ helper.pc \in {"waitEnv", "opening", "waitStatus", "session"} => helper.verdict = "accepted"
  /\ helper.pc \in {"starting", "pam", "waitRequest", "waitEnv", "opening"} => ~helper.open
  /\ helper.pc = "session" => helper.open
  /\ helper.open => helper.verdict = "accepted"

\* What the helper's unread calls say of it; whoever came before it left none.
CallsByStage ==
  /\ \A k \in Logins \ {helper.login} : Quiet(up[k])
  /\ helper.pc # "off" => \A i \in 1 .. Len(Sent) :
       /\ Sent[i].type = "REQUEST" => helper.verdict = "none"
       /\ (Sent[i].type = "AUTHENTICATED" /\ Sent[i].user # 0) =>
            /\ Sent[i].user = helper.login
            /\ helper.verdict = "accepted" /\ ~helper.open
  /\ display.pending # 0 => helper.verdict = "none"

-----------------------------------------------------------------------------
(* Whose answers *)

\* The texts of questions that are asked with echo, the predicted one included.
EchoTexts == {"login:"} \cup {m.text : m \in {x \in PamMessages : x.style # "ECHO_OFF"}}

\* A prompt of login n holds an answer of the kind that its type asks for.
Fits(p, n) ==
  /\ p.resp.kind \in {"user", "password"} => p.resp.of \in {n, 0}
  /\ p.resp.kind = "password" => p.type = "LOGIN_PASSWORD"
  /\ p.resp.kind = "user"     => p.type = "LOGIN_USER"
  /\ p.resp.kind = "typed"    => p.type \notin {"LOGIN_USER", "LOGIN_PASSWORD"}
  /\ p.type = "LOGIN_PASSWORD" => "password" \in Words[p.text]
  /\ p.type = "LOGIN_USER"     => p.text \in EchoTexts

AllFit(prompts, n) == \A j \in 1 .. Len(prompts) : Fits(prompts[j], n)

RequestsFit(msgs, n) ==
  \A i \in 1 .. Len(msgs) : msgs[i].type = "REQUEST" => AllFit(msgs[i].prompts, n)

\* So it is wherever the prompts of the login being served are.
AnswersAreOfLogin ==
  /\ AllFit(helper.data.prompts, helper.login)
  /\ helper.pc # "off" => RequestsFit(Sent, helper.login)
  /\ display.pending # 0 => AllFit(auth.prompts, helper.login)
  /\ RequestsFit(down, helper.login)
  /\ helper.pc # "off" => auth.user = helper.login /\ display.pass \in {helper.login, 0}
  /\ helper.pc = "waitRequest" => helper.msg \in PamMessages

AutologinInv ==
  /\ AutologinIsNotInherited
  /\ ~display.running => ~auth.autologin

-----------------------------------------------------------------------------
(* VerdictByStage and the helper's own steps *)

\* What the helper does, as far as the service can tell.
HelperGoes ==
  \/ /\ helper.pc \in {"starting", "pam", "waitRequest"} /\ helper'.pc \in {"pam", "waitRequest"}
     /\ helper'.verdict = helper.verdict /\ helper'.open = helper.open
  \/ /\ helper.pc \in {"starting", "pam"} /\ helper'.pc = "exiting"
     /\ helper'.verdict = "refused" /\ helper'.open = helper.open
  \/ /\ helper.pc = "pam" /\ helper'.pc = "waitEnv"
     /\ helper'.verdict = "accepted" /\ helper'.open = helper.open
  \/ /\ helper.pc = "waitEnv" /\ helper'.pc \in {"opening", "exiting"}
     /\ helper'.verdict = helper.verdict /\ helper'.open = helper.open
  \/ /\ helper.pc = "opening" /\ helper'.pc = "waitStatus"
     /\ helper'.verdict = helper.verdict /\ helper'.open \in {TRUE, helper.open}
  \/ /\ helper.pc = "waitStatus" /\ helper'.pc = (IF helper.open THEN "session" ELSE "exiting")
     /\ helper'.verdict = helper.verdict /\ helper'.open = helper.open
  \/ /\ helper.pc = "session" /\ helper'.pc = "exiting"
     /\ helper'.verdict = helper.verdict /\ helper'.open = helper.open
  \/ /\ helper.pc \notin {"off", "dead"} /\ helper'.pc = "dead"
     /\ helper'.verdict = helper.verdict /\ helper'.open = helper.open

\* Every step of the helper is one of these, and it serves the same login.
LEMMA HelperAdvances ==
  ASSUME TypeOK, HelperWorks \/ SessionEnds \/ HelperCrash
  PROVE  /\ HelperGoes /\ helper'.login = helper.login
         /\ helper'.autologin = helper.autologin
         /\ UNCHANGED <<greeter, toDaemon, toGreeter, display, auth>>
<1>1. helper \in Helpers
  BY DEF TypeOK
<1>2. UNCHANGED <<greeter, toDaemon, toGreeter, display, auth>>
  BY DEF HelperWorks, HelperHello, PamStartFails, PamAsks, PamAsksAgain, PamTells,
     PamAccepts, PamRefuses, ReceiveAnswers, ReceiveEnvironment, SessionOpens,
     SessionFailsToOpen, ReceiveStatusAck, HelperExits, HelperSteps, SessionEnds, HelperCrash
<1>3. CASE HelperHello \/ PamStartFails \/ PamRefuses \/ PamAccepts
  BY <1>1, <1>2, <1>3 DEF HelperHello, PamStartFails, PamRefuses, PamAccepts, HelperSteps,
     Exit, HelperGoes, Helpers
<1>4. CASE PamAsks
  <2>1. PICK m, data :
          m \in PamMessages /\
          helper' = [helper EXCEPT !.pc = "waitRequest", !.data = data,
                       !.msg = m, !.given = NoResponse, !.msgs = @ + 1,
                       !.request = count.requests + 1]
    BY <1>4 DEF PamAsks
  <2>2. helper.pc = "pam"
    BY <1>4 DEF PamAsks, HelperSteps
  <2> QED
    BY <1>1, <1>2, <2>1, <2>2 DEF HelperGoes, Helpers
<1>5. CASE PamAsksAgain \/ PamTells
  <2>1. PICK m, data, given :
          m \in PamMessages /\
          helper' = [helper EXCEPT !.msgs = @ + 1, !.msg = m, !.data = data, !.given = given]
    BY <1>5 DEF PamAsksAgain, PamTells
  <2>2. helper.pc = "pam"
    BY <1>5 DEF PamAsksAgain, PamTells, HelperSteps
  <2> QED
    BY <1>1, <1>2, <2>1, <2>2 DEF HelperGoes, Helpers
<1>6. CASE ReceiveAnswers
  <2>1. \/ \E data, given : helper' = [helper EXCEPT !.pc = "pam", !.data = data, !.given = given]
        \/ helper' = [helper EXCEPT !.pc = "pam"]
    BY <1>6, Zenon DEF ReceiveAnswers
  <2>2. helper.pc = "waitRequest"
    BY <1>6 DEF ReceiveAnswers, HelperSteps
  <2> QED
    BY <1>1, <1>2, <2>1, <2>2 DEF HelperGoes, Helpers
<1>7. CASE ReceiveEnvironment \/ SessionOpens \/ SessionFailsToOpen \/ ReceiveStatusAck
  BY <1>1, <1>2, <1>7 DEF ReceiveEnvironment, SessionOpens, SessionFailsToOpen,
     ReceiveStatusAck, HelperSteps, Exit, HelperGoes, Helpers
<1>8. CASE HelperExits \/ SessionEnds \/ HelperCrash
  BY <1>1, <1>2, <1>8 DEF HelperExits, SessionEnds, HelperCrash, HelperSteps, Exit,
     HelperGoes, Helpers
<1> QED
  BY <1>3, <1>4, <1>5, <1>6, <1>7, <1>8 DEF HelperWorks

\* The daemon, the greeter and the user leave the helper alone; a display that
\* stops and a login that starts replace it.
LEMMA HelperReplaced ==
  ASSUME [Next]_vars, ~HelperWorks, ~SessionEnds, ~HelperCrash
  PROVE  \/ helper' = helper
         \/ helper' = NoHelper
         \/ /\ NewDisplayWithAutologin \/ LoginStarted
            /\ \E n, path, autologin : helper' =
                 [NoHelper EXCEPT !.pc = "starting", !.login = n,
                                  !.autologin = autologin, !.path = path]
<1>1. CASE NewDisplayWithAutologin \/ LoginStarted
  <2>1. \E n, reuse, autologin : StartHelper(n, reuse, autologin)
    BY <1>1, Zenon DEF NewDisplayWithAutologin, LoginStarted
  <2>2. PICK n, path, autologin : helper' =
          [NoHelper EXCEPT !.pc = "starting", !.login = n,
                           !.autologin = autologin, !.path = path]
    BY <2>1, Zenon DEF StartHelper
  <2> QED
    BY <1>1, <2>2, Zenon
<1>2. CASE NewDisplayWithGreeter \/ UserSteps \/ GreeterSteps \/ GreeterCrash \/ GreeterStopTimer
  BY <1>2 DEF NewDisplayWithGreeter, UserSteps, SubmitLogin, AnswerPrompt, GreeterSteps,
     ReadLoginSucceeded, ReadLoginFailed, ReadPromptRequest, GreeterReads, GreeterCrash,
     GreeterStopTimer
<1>3. CASE DaemonHearsGreeter /\ ~LoginStarted
  BY <1>3 DEF DaemonHearsGreeter, LoginAsSddm, LoginNotStarted, PromptResponseIgnored,
     PromptResponseTaken, GreeterDisconnected
<1>4. CASE DaemonHearsHelper
  BY <1>4 DEF DaemonHearsHelper, ConnectHelper, ReadError, ReadRequestAnswered,
     ReadRequestRelayed, ReadAccepted, ReadRefused, ReadAutologinRefused,
     ReadSessionStatus, DaemonReads, ReapRefusedHelper, ReapHelper, StopDisplay
<1>5. CASE UNCHANGED vars
  BY <1>5 DEF vars
<1> QED
  BY <1>1, <1>2, <1>3, <1>4, <1>5 DEF Next, SeatSteps

\* VerdictByStage is inductive.
LEMMA VerdictByStageStep ==
  ASSUME TypeOK, VerdictByStage, [Next]_vars
  PROVE  VerdictByStage'
<1>1. CASE HelperWorks \/ SessionEnds \/ HelperCrash
  <2>1. HelperGoes
    BY <1>1, HelperAdvances
  <2> QED
    BY <2>1 DEF HelperGoes, VerdictByStage
<1>2. CASE helper' = helper
  BY <1>2 DEF VerdictByStage
<1>3. CASE helper' = NoHelper
  BY <1>3 DEF VerdictByStage, NoHelper
<1>4. ASSUME NEW n, NEW path, NEW autologin,
             helper' = [NoHelper EXCEPT !.pc = "starting", !.login = n,
                                        !.autologin = autologin, !.path = path]
      PROVE  VerdictByStage'
  <2>1. helper'.pc = "starting" /\ helper'.verdict = "none" /\ helper'.open = FALSE
    BY <1>4 DEF NoHelper
  <2> QED
    BY <2>1 DEF VerdictByStage
<1> QED
  BY <1>1, <1>2, <1>3, <1>4, HelperReplaced

-----------------------------------------------------------------------------
(* CallsByStage *)

\* A message that agrees with the stage of helper h.
Agrees(m, h) ==
  /\ m.type = "REQUEST" => h.verdict = "none"
  /\ (m.type = "AUTHENTICATED" /\ m.user # 0) =>
       m.user = h.login /\ h.verdict = "accepted" /\ ~h.open

\* Reading, and dropping, what was sent.
LEMMA CallsRead ==
  ASSUME TypeOK, LoginsInOrder, CallsByStage, helper' = helper,
         display'.pending # 0 => helper.verdict = "none",
         \A k \in Logins : \/ up'[k] = up[k] \/ up'[k] = <<>>
                           \/ up[k] # <<>> /\ up'[k] = Tail(up[k])
  PROVE  CallsByStage'
<1>1. ASSUME NEW k \in Logins \ {helper'.login}
      PROVE  Quiet(up'[k])
  <2>1. Quiet(up[k]) /\ up[k] \in Seq(UpMessageTypes)
    BY <1>1, HelperFacts DEF CallsByStage
  <2>2. up[k] # <<>> => Quiet(Tail(up[k]))
    BY <2>1, TailFacts
  <2>3. Quiet(<<>>)
    BY DEF Quiet
  <2> QED
    BY <2>1, <2>2, <2>3
<1>2. ASSUME helper'.pc # "off", NEW i \in 1 .. Len(up'[helper'.login])
      PROVE  Agrees(up'[helper'.login][i], helper')
  <2>1. /\ helper.login \in Logins /\ Sent \in Seq(UpMessageTypes)
        /\ \A j \in 1 .. Len(Sent) : Agrees(Sent[j], helper)
    BY <1>2, HelperFacts DEF CallsByStage, Sent, Agrees
  <2>2. Sent # <<>> => \A j \in 1 .. Len(Tail(Sent)) : Agrees(Tail(Sent)[j], helper)
    <3>1. ASSUME Sent # <<>>, NEW j \in 1 .. Len(Tail(Sent))
          PROVE  Agrees(Tail(Sent)[j], helper)
      <4>1. Tail(Sent)[j] = Sent[j + 1] /\ j + 1 \in 1 .. Len(Sent)
        BY <2>1, <3>1, HeadTailProperties
      <4> QED
        BY <2>1, <4>1
    <3> QED
      BY <3>1
  <2>3. \/ up'[helper.login] = Sent \/ up'[helper.login] = <<>>
        \/ Sent # <<>> /\ up'[helper.login] = Tail(Sent)
    BY <2>1 DEF Sent
  <2>4. up'[helper.login] # <<>>
    BY <1>2
  <2> QED
    BY <1>2, <2>1, <2>2, <2>3, <2>4
<1> QED
  BY <1>1, <1>2 DEF CallsByStage, Sent, Agrees

\* The helper, which has no call under way, sends.
LEMMA CallsSent ==
  ASSUME TypeOK, LoginsInOrder, CallsByStage, helper.pc # "off",
         helper'.login = helper.login, display' = display, Quiet(Sent), display.pending = 0,
         NEW M, NEW msgs \in Seq(M), Send(msgs),
         \A i \in 1 .. Len(msgs) : Agrees(msgs[i], helper')
  PROVE  CallsByStage'
<1>1. /\ helper.login \in Logins /\ Sent \in Seq(UpMessageTypes) /\ Quiet(Sent)
      /\ helper.login # 0 /\ display.pending = 0
  BY HelperFacts DEF Sent
<1> DEFINE U == UpMessageTypes \cup M
<1> HIDE DEF U
<1>0. Sent \in Seq(U) /\ msgs \in Seq(U)
  <2>1. UpMessageTypes \subseteq U /\ M \subseteq U
    BY DEF U
  <2> QED
    BY <1>1, <2>1
<1>2. /\ up'[helper.login] = Sent \o msgs
      /\ \A k \in Logins \ {helper.login} : up'[k] = up[k]
  BY <1>1, SendAt DEF Sent
<1>3. ASSUME NEW i \in 1 .. Len(Sent \o msgs)
      PROVE  Agrees((Sent \o msgs)[i], helper')
  <2>1. CASE i \in 1 .. Len(Sent)
    <3>1. (Sent \o msgs)[i] = Sent[i] /\ ~IsCall(Sent[i])
      BY <1>0, <1>1, <2>1 DEF Quiet
    <3> QED
      BY <3>1 DEF IsCall, Agrees
  <2>2. CASE i \notin 1 .. Len(Sent)
    <3>1. (Sent \o msgs)[i] = msgs[i - Len(Sent)] /\ i - Len(Sent) \in 1 .. Len(msgs)
      BY <1>0, <1>3, <2>2
    <3> QED
      BY <3>1
  <2> QED
    BY <2>1, <2>2
<1> QED
  BY <1>1, <1>2, <1>3 DEF CallsByStage, Sent, Agrees

\* A helper that does not wait has no call under way, nor has one that takes a reply.
LEMMA QuietWhenItMoves ==
  ASSUME TypeOK, LoginsInOrder, InPhase,
         \/ helper.pc \in {"starting", "pam", "opening", "session", "exiting"}
         \/ helper.pc \in {"waitRequest", "waitEnv", "waitStatus"} /\ down # <<>>
  PROVE  Quiet(Sent) /\ display.pending = 0 /\ helper.pc # "off"
<1>1. CASE helper.pc \in {"starting", "pam", "opening", "session", "exiting"}
  BY <1>1 DEF InPhase, Working, Calling, Asking, Replied, Awaited
<1>2. CASE helper.pc \in {"waitRequest", "waitEnv", "waitStatus"} /\ down # <<>>
  <2>1. Replied
    BY <1>2 DEF InPhase, Working, Calling, Asking, Awaited
  <2> QED
    BY <1>2, <2>1 DEF Replied, Quiet
<1> QED
  BY <1>1, <1>2

\* The helper's own steps.
LEMMA CallsOfHelper ==
  ASSUME TypeOK, LoginsInOrder, InPhase, VerdictByStage, CallsByStage,
         HelperWorks \/ SessionEnds \/ HelperCrash
  PROVE  CallsByStage'
<1>1. helper'.login = helper.login /\ HelperGoes /\ display' = display
  BY HelperAdvances
<1>2. CASE HelperCrash
  <2>1. /\ up' = up /\ helper'.verdict = helper.verdict /\ helper'.open = helper.open
        /\ helper.pc # "off"
    BY <1>2, HelperFacts DEF HelperCrash, Helpers
  <2> QED
    BY <1>1, <2>1 DEF CallsByStage, Sent
<1>3. ASSUME up' = up,
              \/ helper.pc \in {"starting", "pam", "opening", "session", "exiting"}
              \/ helper.pc \in {"waitRequest", "waitEnv", "waitStatus"} /\ down # <<>>
       PROVE  CallsByStage'
  <2>1. Quiet(Sent) /\ display.pending = 0 /\ helper.pc # "off"
    BY <1>3, QuietWhenItMoves
  <2> QED
    BY <1>1, <1>3, <2>1 DEF CallsByStage, Sent, Quiet, IsCall
<1>4. CASE \/ PamAsksAgain \/ ReceiveAnswers \/ ReceiveEnvironment
           \/ ReceiveStatusAck \/ HelperExits \/ SessionEnds
  <2>1. /\ up' = up
        /\ \/ helper.pc \in {"starting", "pam", "opening", "session", "exiting"}
           \/ helper.pc \in {"waitRequest", "waitEnv", "waitStatus"} /\ down # <<>>
    BY <1>4 DEF PamAsksAgain, ReceiveAnswers, ReceiveEnvironment, ReceiveStatusAck,
       HelperExits, SessionEnds, HelperSteps
  <2> QED
    BY <1>3, <2>1
<1>5. ASSUME NEW M, NEW msgs \in Seq(M), Send(msgs),
             helper.pc \in {"starting", "pam", "opening"},
             \A i \in 1 .. Len(msgs) : Agrees(msgs[i], helper')
      PROVE  CallsByStage'
  BY <1>1, <1>5, QuietWhenItMoves, CallsSent
<1>6. CASE HelperHello
  <2>1. Send(<<[type |-> "HELLO"]>>) /\ helper.pc = "starting"
    BY <1>6 DEF HelperHello, HelperSteps
  <2>2. <<[type |-> "HELLO"]>> \in Seq(UpMessageTypes)
    BY HelperMessagesType
  <2>3. \A i \in 1 .. Len(<<[type |-> "HELLO"]>>) :
          Agrees(<<[type |-> "HELLO"]>>[i], helper')
    BY DEF Agrees
  <2> QED
    BY <1>5, <2>1, <2>2, <2>3
<1>7. ASSUME NEW error \in {"AUTHENTICATION", "INTERNAL"}
      PROVE  \A i \in 1 .. Len(Refusal(error)) : Agrees(Refusal(error)[i], helper')
  BY DEF Refusal, Agrees
<1>8. CASE PamStartFails
  <2> DEFINE a == [type |-> "HELLO"]
             b == [type |-> "ERROR", error |-> "INTERNAL"]
             c == [type |-> "AUTHENTICATED", user |-> 0]
  <2>1. Send(<<a>> \o <<b, c>>) /\ helper.pc = "starting"
    BY <1>8 DEF PamStartFails, HelperSteps, Refusal
  <2>2. a \in UpMessageTypes /\ b \in UpMessageTypes /\ c \in UpMessageTypes
    BY HelperMessagesType
  <2>3. Agrees(a, helper') /\ Agrees(b, helper') /\ Agrees(c, helper')
    BY DEF Agrees
  <2> HIDE DEF a, b, c
  <2>4. Send(<<a, b, c>>)
    BY <2>1, JoinThree
  <2>5. <<a, b, c>> \in Seq(UpMessageTypes)
    BY <2>2
  <2>6. \A i \in 1 .. Len(<<a, b, c>>) : Agrees(<<a, b, c>>[i], helper')
    BY <2>3
  <2> QED
    BY <1>5, <2>1, <2>4, <2>5, <2>6
<1>9. CASE PamRefuses
  <2>1. Send(Refusal("AUTHENTICATION")) /\ helper.pc = "pam"
    BY <1>9 DEF PamRefuses, HelperSteps
  <2> QED
    BY <1>5, <1>7, <2>1, HelperMessagesType
<1>10. CASE PamAsks
  <2>1. PICK id, prompts : Send(<<[type |-> "REQUEST", id |-> id, prompts |-> prompts]>>)
    BY <1>10, Zenon DEF PamAsks
  <2> DEFINE call == [type |-> "REQUEST", id |-> id, prompts |-> prompts]
  <2>2. helper.pc = "pam"
    BY <1>10 DEF PamAsks, HelperSteps
  <2>3. helper.verdict = "none"
    BY <2>2 DEF VerdictByStage
  <2>4. helper'.verdict = helper.verdict /\ helper'.open = helper.open
    <3>1. PICK m, data :
            m \in PamMessages /\
            helper' = [helper EXCEPT !.pc = "waitRequest", !.data = data,
                         !.msg = m, !.given = NoResponse, !.msgs = @ + 1,
                         !.request = count.requests + 1]
      BY <1>10 DEF PamAsks
    <3> QED
      BY <3>1, HelperFacts DEF Helpers
  <2>5. Agrees(call, helper')
    BY <2>3, <2>4 DEF Agrees
  <2> HIDE DEF call
  <2>6. <<call>> \in Seq({call}) /\ \A i \in 1 .. Len(<<call>>) : <<call>>[i] = call
    OBVIOUS
  <2>7. Send(<<call>>)
    BY <2>1 DEF call
  <2> QED
    BY <1>5, <2>2, <2>5, <2>6, <2>7
<1>11. CASE PamTells
  <2> DEFINE e == [type |-> "ERROR", error |-> "AUTHENTICATION"]
  <2>1. helper.pc = "pam" /\ (UNCHANGED up \/ Send(<<e>>))
    BY <1>11 DEF PamTells, HelperSteps
  <2>2. Agrees(e, helper')
    BY DEF Agrees
  <2> HIDE DEF e
  <2>3. <<e>> \in Seq({e}) /\ \A i \in 1 .. Len(<<e>>) : <<e>>[i] = e
    OBVIOUS
  <2> QED
    BY <1>5, <1>3, <2>1, <2>2, <2>3
<1>12. CASE PamAccepts
  <2> DEFINE call == [type |-> "AUTHENTICATED", user |-> helper.login]
  <2>1. Send(<<call>>) /\ helper.pc = "pam" /\ helper'.verdict = "accepted"
        /\ helper'.open = helper.open
    BY <1>12, HelperFacts DEF PamAccepts, HelperSteps, Helpers
  <2>2. Agrees(call, helper')
    BY <1>1, <2>1 DEF Agrees, VerdictByStage
  <2> HIDE DEF call
  <2>3. <<call>> \in Seq({call}) /\ \A i \in 1 .. Len(<<call>>) : <<call>>[i] = call
    OBVIOUS
  <2> QED
    BY <1>5, <2>1, <2>2, <2>3
<1>13. CASE SessionOpens
  <2> DEFINE call == [type |-> "SESSION_STATUS", ok |-> TRUE]
  <2>1. Send(<<call>>) /\ helper.pc = "opening" /\ Agrees(call, helper')
    BY <1>13 DEF SessionOpens, HelperSteps, Agrees
  <2> HIDE DEF call
  <2>2. <<call>> \in Seq({call}) /\ \A i \in 1 .. Len(<<call>>) : <<call>>[i] = call
    OBVIOUS
  <2> QED
    BY <1>5, <2>1, <2>2
<1>14. CASE SessionFailsToOpen
  <2> DEFINE e(error) == [type |-> "ERROR", error |-> error]
             call == [type |-> "SESSION_STATUS", ok |-> FALSE]
  <2>1. PICK error : Send(<<e(error), call>>)
    BY <1>14, Zenon DEF SessionFailsToOpen
  <2>2. helper.pc = "opening" /\ Agrees(e(error), helper') /\ Agrees(call, helper')
    BY <1>14 DEF SessionFailsToOpen, HelperSteps, Agrees
  <2> DEFINE msgs == <<e(error), call>>
  <2>3. /\ msgs \in Seq({e(error), call})
        /\ \A i \in 1 .. Len(msgs) : msgs[i] = e(error) \/ msgs[i] = call
    <3> HIDE DEF e, call
    <3> QED
      OBVIOUS
  <2> HIDE DEF e, call
  <2> QED
    BY <1>5, <2>1, <2>2, <2>3
<1> QED
  BY <1>2, <1>4, <1>6, <1>8, <1>9, <1>10, <1>11, <1>12, <1>13, <1>14 DEF HelperWorks

\* A helper starts: the one before it has left nothing that anybody waits for.
LEMMA CallsAtStart ==
  ASSUME TypeOK, NothingWithoutDisplay, LoginsInOrder, InPhase, HellosComeFirst',
         CallsByStage, NewDisplayWithAutologin \/ LoginStarted
  PROVE  CallsByStage'
<1>1. helper.pc = "off" /\ up' = up
  BY DEF NewDisplayWithAutologin, LoginStarted, NothingWithoutDisplay, Active
<1>2. \A k \in Logins : Quiet(up[k])
  BY <1>1, HelperFacts DEF CallsByStage
<1>3. display'.pending = 0
  <2>1. display.pending = 0 /\ display \in Displays
    BY <1>1, HelperFacts DEF InPhase
  <2> QED
    BY <2>1 DEF NewDisplayWithAutologin, LoginStarted, NoDisplay, Displays
<1>4. helper'.pc = "starting"
  BY DEF NewDisplayWithAutologin, LoginStarted, StartHelper, NoHelper
<1>5. up'[helper'.login] = <<>>
  BY <1>4 DEF HellosComeFirst
<1> QED
  BY <1>1, <1>2, <1>3, <1>5 DEF CallsByStage, Sent

\* CallsByStage is inductive.
LEMMA CallsByStageStep ==
  ASSUME TypeOK, NothingWithoutDisplay, LoginsInOrder, InPhase, HellosComeFirst',
         VerdictByStage, CallsByStage, [Next]_vars
  PROVE  CallsByStage'
<1>1. display \in Displays /\ (display.pending # 0 => helper.verdict = "none")
  BY HelperFacts DEF CallsByStage
<1>2. CASE HelperWorks \/ SessionEnds \/ HelperCrash
  BY <1>2, CallsOfHelper
<1>3. CASE NewDisplayWithAutologin \/ LoginStarted
  BY <1>3, CallsAtStart
<1>4. CASE StopDisplay
  <2>1. /\ helper'.pc = "off" /\ display'.pending = 0
        /\ \A k \in Logins : up'[k] = <<>>
    BY <1>4 DEF StopDisplay, NoHelper, NoDisplay
  <2> QED
    BY <2>1 DEF CallsByStage, Quiet
<1>5. CASE ReapRefusedHelper
  <2>1. /\ helper.pc = "dead" /\ helper.code = "AUTH_ERROR" /\ helper'.pc = "off"
        /\ up' = up /\ display' = display
    BY <1>5 DEF ReapRefusedHelper, NoHelper
  <2>2. Quiet(Sent) /\ display.pending = 0
    BY <2>1 DEF InPhase, Exited, Crashed
  <2> QED
    BY <2>1, <2>2 DEF CallsByStage, Sent
<1>6. CASE ConnectHelper
  <2>1. helper' = helper /\ display' = display
    BY <1>6 DEF ConnectHelper
  <2>2. \A k \in Logins : \/ up'[k] = up[k] \/ up'[k] = <<>>
                          \/ up[k] # <<>> /\ up'[k] = Tail(up[k])
    BY <1>6 DEF ConnectHelper, SaysHello
  <2> QED
    BY <1>1, <2>1, <2>2, CallsRead
<1>7. CASE DaemonHearsHelper /\ ~ConnectHelper /\ ~ReapHelper /\ ~ReapRefusedHelper
  <2>1. PICK type : DaemonReads(type)
    BY <1>7 DEF DaemonHearsHelper, ReadError, ReadRequestAnswered, ReadRequestRelayed,
       ReadAccepted, ReadRefused, ReadAutologinRefused, ReadSessionStatus
  <2>2. \A k \in Logins : \/ up'[k] = up[k]
                          \/ up[k] # <<>> /\ up'[k] = Tail(up[k])
    BY <2>1, ReadAt
  <2>3. helper' = helper
    BY <2>1 DEF DaemonReads
  <2>4. ASSUME ReadRequestRelayed
        PROVE  helper.verdict = "none"
    <3>1. DaemonReads("REQUEST") /\ FromHelper.type = "REQUEST" /\ IsCall(FromHelper)
      BY <2>4 DEF ReadRequestRelayed, DaemonReads, FromHelper, IsCall
    <3>2. /\ auth.conn \in Logins /\ up[auth.conn] \in Seq(UpMessageTypes)
          /\ up[auth.conn] # <<>>
      BY <3>1, ReadAt
    <3>3. FromHelper = up[auth.conn][1] /\ 1 \in 1 .. Len(up[auth.conn])
      BY <3>2 DEF FromHelper
    <3>4. auth.conn = helper.login
      BY <3>1, <3>2, <3>3 DEF CallsByStage, Quiet
    <3>5. helper.pc # "off"
      BY <3>2, <3>4, HelperFacts
    <3> QED
      BY <3>1, <3>3, <3>4, <3>5 DEF CallsByStage, Sent
  <2>5. ReadRequestRelayed \/ display'.pending = display.pending
    BY <1>1, <1>7 DEF DaemonHearsHelper, ReadError, ReadRequestAnswered, ReadAccepted,
       ReadRefused, ReadAutologinRefused, ReadSessionStatus, Displays
  <2> QED
    BY <1>1, <2>2, <2>3, <2>4, <2>5, CallsRead
<1>8. ASSUME helper' = helper, up' = up, display'.pending \in {0, display.pending}
      PROVE  CallsByStage'
  BY <1>8 DEF CallsByStage, Sent
<1>9. CASE DaemonHearsGreeter /\ ~LoginStarted
  BY <1>1, <1>8, <1>9 DEF DaemonHearsGreeter, LoginAsSddm, LoginNotStarted,
     PromptResponseIgnored, PromptResponseTaken, GreeterDisconnected, Displays
<1>10. CASE UserSteps \/ GreeterSteps \/ GreeterCrash \/ GreeterStopTimer
              \/ NewDisplayWithGreeter
  BY <1>1, <1>8, <1>10 DEF UserSteps, SubmitLogin, AnswerPrompt, GreeterSteps,
     ReadLoginSucceeded, ReadLoginFailed, ReadPromptRequest, GreeterReads, GreeterCrash,
     GreeterStopTimer, NewDisplayWithGreeter, NoDisplay, Displays
<1>11. CASE UNCHANGED vars
  BY <1>8, <1>11 DEF vars
<1> QED
  BY <1>2, <1>3, <1>4, <1>5, <1>6, <1>7, <1>9, <1>10, <1>11
     DEF Next, SeatSteps, DaemonHearsHelper, ReapHelper

-----------------------------------------------------------------------------
(* What a success on the greeter's screen says *)

\* A success is news only when the daemon sends one.
LEMMA NothingNewAnnounced ==
  ASSUME TypeOK, greeter'.told = "succeeded" => Announced,
         \/ toGreeter' = toGreeter \/ toGreeter' = <<>>
         \/ toGreeter # <<>> /\ toGreeter' = Tail(toGreeter)
         \/ \E m : m.type # "LoginSucceeded" /\ toGreeter' = Append(toGreeter, m)
  PROVE  Announced' => Announced
<1>1. toGreeter \in Seq(DaemonMessageTypes)
  BY DEF TypeOK
<1>2. ASSUME NEW i \in DOMAIN toGreeter', toGreeter'[i].type = "LoginSucceeded"
      PROVE  Announced
  <2>1. CASE toGreeter' = toGreeter
    BY <1>2, <2>1 DEF Announced
  <2>2. CASE toGreeter' = <<>>
    BY <1>2, <2>2
  <2>3. CASE toGreeter # <<>> /\ toGreeter' = Tail(toGreeter)
    <3>1. toGreeter'[i] = toGreeter[i + 1] /\ i + 1 \in DOMAIN toGreeter
      BY <1>1, <1>2, <2>3
    <3> QED
      BY <1>2, <3>1 DEF Announced
  <2>4. CASE \E m : m.type # "LoginSucceeded" /\ toGreeter' = Append(toGreeter, m)
    <3>1. PICK m : m.type # "LoginSucceeded" /\ toGreeter' = Append(toGreeter, m)
      BY <2>4
    <3>2. i \in DOMAIN toGreeter /\ toGreeter'[i] = toGreeter[i]
      BY <1>1, <1>2, <3>1
    <3> QED
      BY <1>2, <3>2 DEF Announced
  <2> QED
    BY <2>1, <2>2, <2>3, <2>4
<1> QED
  BY <1>2 DEF Announced

\* What is on the screen or on its way stays so when messages only come.
LEMMA StillAnnounced ==
  ASSUME TypeOK, greeter' = greeter,
         toGreeter' = toGreeter \/ \E m : toGreeter' = Append(toGreeter, m)
  PROVE  Announced => Announced'
<1>1. toGreeter \in Seq(DaemonMessageTypes)
  BY DEF TypeOK
<1>2. \A i \in DOMAIN toGreeter : i \in DOMAIN toGreeter' /\ toGreeter'[i] = toGreeter[i]
  <2>1. CASE \E m : toGreeter' = Append(toGreeter, m)
    BY <1>1, <2>1
  <2> QED
    BY <2>1
<1> QED
  BY <1>2 DEF Announced

-----------------------------------------------------------------------------
(* The steps of the login path are steps of the service *)

ServiceStep == [Service!ServiceNext]_Service!svars

\* Nobody but the daemon's ReadAccepted announces anything.
LEMMA ForgetsAtMost ==
  ASSUME helper'.login = helper.login, Stage' = Stage, Announced' => Announced
  PROVE  ServiceStep
<1>1. (Announced' = Announced) \/ Announced' = FALSE
  BY DEF Announced
<1> QED
  BY <1>1 DEF ServiceStep, Service!ServiceNext, Service!Forget, Service!svars

\* The helper goes on, which neither the greeter nor the daemon sees.
LEMMA ServiceOfHelper ==
  ASSUME TypeOK, LoginsInOrder, InPhase, VerdictByStage,
         HelperWorks \/ SessionEnds \/ HelperCrash
  PROVE  ServiceStep
<1>1. /\ HelperGoes /\ helper'.login = helper.login /\ Announced' = Announced
      /\ display' = display
  BY HelperAdvances DEF Announced
<1>2. helper \in Helpers /\ helper.open \in BOOLEAN /\ helper.pc \in HelperStages
  BY HelperFacts DEF Helpers
<1>3. display.pending # 0 => helper.pc \in {"waitRequest", "dead"}
  BY <1>2 DEF InPhase, Working, Calling, Asking, Replied, Awaited, HelperStages
<1>4. \/ Stage' = Stage
      \/ Stage = "checking" /\ Stage' \in {"accepted", "refused"}
      \/ Stage = "accepted" /\ Stage' = "session"
      \/ Stage = "session" /\ Stage' = "over"
  <2>1. helper'.open \in BOOLEAN /\ (helper.open => helper.verdict = "accepted")
    BY <1>1, <1>2 DEF HelperGoes, VerdictByStage
  <2>2. CASE helper'.pc = "dead" /\ helper'.verdict = helper.verdict
               /\ helper'.open = helper.open /\ helper.pc \notin {"off", "dead"}
    BY <1>1, <1>2, <2>1, <2>2 DEF Stage
  <2>3. CASE helper.pc \in {"starting", "pam", "waitRequest"} /\ helper'.pc # "dead"
    BY <1>1, <1>2, <1>3, <2>1, <2>3 DEF HelperGoes, VerdictByStage, Stage
  <2>4. CASE helper.pc \in {"waitEnv", "opening"} /\ helper'.pc # "dead"
    BY <1>1, <1>2, <1>3, <2>1, <2>4 DEF HelperGoes, VerdictByStage, Stage
  <2>5. CASE helper.pc \in {"waitStatus", "session"} /\ helper'.pc # "dead"
    BY <1>1, <1>2, <1>3, <2>1, <2>5 DEF HelperGoes, VerdictByStage, Stage
  <2> QED
    BY <1>1, <2>2, <2>3, <2>4, <2>5 DEF HelperGoes
<1> QED
  BY <1>1, <1>4 DEF ServiceStep, Service!ServiceNext, Service!svars, Service!Goes,
     Service!Accept, Service!Refuse, Service!Open, Service!Close

\* A message read from the helper by the daemon is from the helper being
\* served when it is a call, and that helper blocks on it or has crashed.
LEMMA CallIsServed ==
  ASSUME TypeOK, LoginsInOrder, InPhase, CallsByStage, NEW type, DaemonReads(type),
         IsCall(FromHelper)
  PROVE  /\ helper.pc # "off" /\ display.pending = 0 /\ auth.conn = helper.login
         /\ FromHelper.type = "REQUEST" => helper.verdict = "none"
         /\ FromHelper.type = "AUTHENTICATED" =>
              helper.verdict = "accepted" /\ ~helper.open
<1>1. /\ auth.conn \in Logins /\ up[auth.conn] \in Seq(UpMessageTypes)
      /\ up[auth.conn] # <<>>
  BY ReadAt
<1>2. FromHelper = up[auth.conn][1] /\ 1 \in 1 .. Len(up[auth.conn])
  BY <1>1 DEF FromHelper
<1>3. auth.conn = helper.login
  BY <1>1, <1>2 DEF CallsByStage, Quiet
<1>4. helper.pc # "off" /\ display.pending = 0
  BY <1>3, CallIsLast
<1>5. FromHelper.type = "AUTHENTICATED" => FromHelper.user # 0
  BY DEF IsCall
<1> QED
  BY <1>2, <1>3, <1>4, <1>5 DEF CallsByStage, Sent

\* The daemon hears its helper.
LEMMA ServiceOfReading ==
  ASSUME TypeOK, LoginsInOrder, InPhase, CallsByStage,
         DaemonHearsHelper, ~ReapHelper, ~ReapRefusedHelper
  PROVE  ServiceStep
<1>1. display \in Displays /\ greeter \in Greeters
  BY DEF TypeOK
<1>2. helper' = helper
  BY DEF DaemonHearsHelper, ConnectHelper, ReadError, ReadRequestAnswered,
     ReadRequestRelayed, ReadAccepted, ReadRefused, ReadAutologinRefused,
     ReadSessionStatus, DaemonReads
<1>3. ASSUME display'.pending = display.pending, Announced' => Announced
      PROVE  ServiceStep
  <2>1. Stage' = Stage
    BY <1>2, <1>3 DEF Stage
  <2> QED
    BY <1>2, <1>3, <2>1, ForgetsAtMost
<1>4. CASE ConnectHelper \/ ReadRequestAnswered \/ ReadSessionStatus
  <2>1. display'.pending = display.pending /\ Announced' = Announced
    BY <1>1, <1>4 DEF ConnectHelper, ReadRequestAnswered, ReadSessionStatus, Announced, Displays
  <2> QED
    BY <1>3, <2>1
<1>5. ASSUME NEW m, m.type # "LoginSucceeded", greeter' = greeter,
             Tell(m) \/ UNCHANGED toGreeter, display'.pending = display.pending
      PROVE  ServiceStep
  <2>1. greeter'.told = "succeeded" => Announced
    BY <1>5 DEF Announced
  <2>2. toGreeter' = toGreeter \/ toGreeter' = Append(toGreeter, m)
    BY <1>5 DEF Tell
  <2> QED
    BY <1>3, <1>5, <2>1, <2>2, NothingNewAnnounced
<1>6. CASE ReadError \/ ReadRefused
  <2> DEFINE m == [type |-> "LoginFailed"]
  <2>1. /\ m.type # "LoginSucceeded" /\ greeter' = greeter
        /\ Tell(m) \/ UNCHANGED toGreeter
    BY <1>6 DEF ReadError, ReadRefused
  <2>2. display'.pending = display.pending
    BY <1>1, <1>6 DEF ReadError, ReadRefused, Displays
  <2> HIDE DEF m
  <2> QED
    BY <1>5, <2>1, <2>2
<1>7. CASE ReadAutologinRefused
  <2>1. greeter'.told # "succeeded" /\ toGreeter' = toGreeter /\ display' = display
    BY <1>7 DEF ReadAutologinRefused, NewGreeter, NoGreeter
  <2>2. Announced' => Announced
    BY <2>1 DEF Announced
  <2> QED
    BY <1>3, <2>1, <2>2
<1>8. CASE ReadRequestRelayed
  <2> DEFINE m == [type |-> "PromptRequest", id |-> FromHelper.id]
  <2>1. DaemonReads("REQUEST") /\ FromHelper.type = "REQUEST" /\ IsCall(FromHelper)
    BY <1>8 DEF ReadRequestRelayed, DaemonReads, FromHelper, IsCall
  <2>2. Stage = "checking"
    BY <2>1, CallIsServed DEF Stage
  <2>3. FromHelper \in UpMessageTypes
    BY <2>1, DaemonReadsType
  <2>4. FromHelper.id \in Ids
    BY <2>1, <2>3 DEF UpMessageTypes
  <2>5. display'.pending # 0
    BY <1>1, <1>8, <2>4 DEF ReadRequestRelayed, Displays, Ids
  <2>6. Stage' = "asking"
    BY <1>2, <2>1, <2>5, CallIsServed DEF Stage
  <2>7. greeter' = greeter /\ m.type # "LoginSucceeded" /\ Tell(m)
    BY <1>8 DEF ReadRequestRelayed
  <2> HIDE DEF m
  <2>8. toGreeter' = toGreeter \/ toGreeter' = Append(toGreeter, m)
    BY <2>7 DEF Tell
  <2>9. Announced' => Announced
    <3>1. greeter'.told = "succeeded" => Announced
      BY <2>7 DEF Announced
    <3> QED
      BY <2>7, <2>8, <3>1, NothingNewAnnounced
  <2>10. Announced => Announced'
    BY <2>7, <2>8, StillAnnounced
  <2>11. Announced' = Announced
    BY <2>9, <2>10 DEF Announced
  <2> QED
    BY <1>2, <2>2, <2>6, <2>11 DEF ServiceStep, Service!ServiceNext, Service!Ask, Service!Goes
<1>9. CASE ReadAccepted
  <2>1. DaemonReads("AUTHENTICATED") /\ FromHelper.type = "AUTHENTICATED" /\ IsCall(FromHelper)
    BY <1>9 DEF ReadAccepted, DaemonReads, FromHelper, IsCall
  <2>2. Stage = "accepted"
    BY <2>1, CallIsServed DEF Stage
  <2>3. Stage' = Stage
    <3>1. display'.pending = display.pending
      BY <1>1, <1>9 DEF ReadAccepted, Displays
    <3> QED
      BY <1>2, <3>1 DEF Stage
  <2>4. Announced' = TRUE \/ Announced' = FALSE
    BY DEF Announced
  <2> QED
    BY <1>2, <2>2, <2>3, <2>4 DEF ServiceStep, Service!ServiceNext, Service!Announce,
       Service!Forget
<1> QED
  BY <1>4, <1>6, <1>7, <1>8, <1>9 DEF DaemonHearsHelper

\* The user, the greeter, and the daemon that hears the greeter.
LEMMA ServiceOfGreeter ==
  ASSUME TypeOK, InPhase, CallsByStage, helper' = helper,
         \/ UserSteps \/ GreeterSteps \/ GreeterCrash \/ GreeterStopTimer
         \/ DaemonHearsGreeter \/ NewDisplayWithGreeter \/ UNCHANGED vars,
         ~LoginStarted, NothingWithoutDisplay
  PROVE  ServiceStep
<1>1. display \in Displays /\ greeter \in Greeters
  BY DEF TypeOK
<1>2. ASSUME display'.pending = display.pending, Announced' => Announced
      PROVE  ServiceStep
  <2>1. Stage' = Stage
    BY <1>2 DEF Stage
  <2> QED
    BY <1>2, <2>1, ForgetsAtMost
<1>3. CASE UNCHANGED vars
  BY <1>2, <1>3 DEF vars, Announced
<1>4. CASE UserSteps \/ GreeterCrash \/ GreeterStopTimer
  <2>1. display'.pending = display.pending /\ (toGreeter' = toGreeter \/ toGreeter' = <<>>)
    BY <1>1, <1>4 DEF UserSteps, SubmitLogin, AnswerPrompt, GreeterCrash, GreeterStopTimer,
       Displays
  <2>2. greeter'.told = "succeeded" => Announced
    <3>1. CASE SubmitLogin
      <4>1. greeter'.told = "waiting"
        BY <1>1, <3>1 DEF SubmitLogin, Greeters
      <4> QED
        BY <4>1
    <3>2. CASE AnswerPrompt
      BY <1>1, <3>2 DEF AnswerPrompt, Greeters, Announced
    <3>3. CASE GreeterCrash \/ GreeterStopTimer
      BY <3>3 DEF GreeterCrash, GreeterStopTimer, NoGreeter
    <3> QED
      BY <1>4, <3>1, <3>2, <3>3 DEF UserSteps
  <2> QED
    BY <1>2, <2>1, <2>2, NothingNewAnnounced
<1>5. CASE GreeterSteps
  <2>1. toGreeter # <<>> /\ toGreeter' = Tail(toGreeter) /\ display' = display
    BY <1>5 DEF GreeterSteps, ReadLoginSucceeded, ReadLoginFailed, ReadPromptRequest,
       GreeterReads
  <2>2. ReadLoginSucceeded => Announced
    <3>1. Head(toGreeter) = toGreeter[1] /\ 1 \in DOMAIN toGreeter
      BY <2>1 DEF TypeOK
    <3> QED
      BY <3>1 DEF ReadLoginSucceeded, GreeterReads, Announced
  <2>3. greeter'.told = "succeeded" => Announced
    BY <1>1, <1>5, <2>2 DEF GreeterSteps, ReadLoginFailed, ReadPromptRequest, Greeters,
       Announced
  <2> QED
    BY <1>2, <2>1, <2>3, NothingNewAnnounced
<1>6. CASE NewDisplayWithGreeter
  <2>1. display'.pending = 0 /\ greeter'.told # "succeeded" /\ toGreeter' = toGreeter
    BY <1>6 DEF NewDisplayWithGreeter, NoDisplay, NewGreeter, NoGreeter
  <2>2. helper.pc = "off" /\ display.pending = 0
    BY <1>6 DEF NewDisplayWithGreeter, NothingWithoutDisplay, InPhase
  <2>3. Announced' => Announced
    BY <2>1 DEF Announced
  <2> QED
    BY <1>2, <2>1, <2>2, <2>3
<1>7. CASE LoginAsSddm
  <2> DEFINE m == [type |-> "LoginFailed"]
  <2>1. m.type # "LoginSucceeded" /\ greeter' = greeter /\ Tell(m)
    BY <1>7 DEF LoginAsSddm
  <2>2. display'.pending = display.pending
    BY <1>1, <1>7 DEF LoginAsSddm, Displays
  <2> HIDE DEF m
  <2>3. toGreeter' = toGreeter \/ toGreeter' = Append(toGreeter, m)
    BY <2>1 DEF Tell
  <2>4. greeter'.told = "succeeded" => Announced
    BY <2>1 DEF Announced
  <2> QED
    BY <1>2, <2>1, <2>2, <2>3, <2>4, NothingNewAnnounced
<1>8. CASE LoginNotStarted \/ PromptResponseIgnored \/ GreeterDisconnected
  <2>1. display'.pending = display.pending /\ Announced' = Announced
    BY <1>1, <1>8 DEF LoginNotStarted, PromptResponseIgnored, GreeterDisconnected,
       Displays, Announced
  <2> QED
    BY <1>2, <2>1
<1>9. CASE PromptResponseTaken
  <2>1. display.pending # 0 /\ display'.pending = 0 /\ Announced' = Announced
    BY <1>1, <1>9 DEF PromptResponseTaken, Displays, Announced
  <2>2. helper.pc # "off" /\ helper.verdict = "none"
    BY <2>1 DEF InPhase, CallsByStage
  <2>3. Stage = "asking" /\ Stage' = "checking"
    BY <2>1, <2>2 DEF Stage
  <2> QED
    BY <2>1, <2>3 DEF ServiceStep, Service!ServiceNext, Service!Resume, Service!Goes
<1> QED
  BY <1>3, <1>4, <1>5, <1>6, <1>7, <1>8, <1>9 DEF DaemonHearsGreeter

\* A login begins, or ends.
LEMMA ServiceOfLogins ==
  ASSUME TypeOK, TypeOK', NothingWithoutDisplay, InPhase,
         \/ NewDisplayWithAutologin \/ LoginStarted \/ StopDisplay \/ ReapRefusedHelper
  PROVE  ServiceStep
<1>1. CASE NewDisplayWithAutologin \/ LoginStarted
  <2>1. helper.pc = "off" /\ display.pending = 0
    BY <1>1 DEF NewDisplayWithAutologin, LoginStarted, NothingWithoutDisplay, Active, InPhase
  <2>2. display'.pending = 0
    BY <1>1, <2>1 DEF NewDisplayWithAutologin, LoginStarted, NoDisplay, TypeOK, Displays
  <2>3. helper'.pc = "starting" /\ helper'.verdict = "none"
    BY <1>1 DEF NewDisplayWithAutologin, LoginStarted, StartHelper, NoHelper
  <2>4. Stage = "idle" /\ Stage' = "checking"
    BY <2>1, <2>2, <2>3 DEF Stage
  <2>5. Announced' = Announced
    BY <1>1 DEF NewDisplayWithAutologin, LoginStarted, Announced
  <2>6. helper'.login \in 1 .. MaxLogins
    <3>1. CASE NewDisplayWithAutologin
      <4>1. helper'.login = count.logins + 1
        BY <3>1 DEF NewDisplayWithAutologin, StartHelper, NoHelper
      <4>2. count \in Counts /\ count.logins < MaxLogins
        BY <3>1 DEF NewDisplayWithAutologin, TypeOK
      <4> QED
        BY <4>1, <4>2, CountTypes DEF Logins
    <3>2. CASE LoginStarted
      <4>1. helper'.login = Head(toDaemon).n
        BY <3>2 DEF LoginStarted, StartHelper, NoHelper
      <4>2. DaemonTakes("Login")
        BY <3>2 DEF LoginStarted
      <4>3. Head(toDaemon) \in GreeterMessageTypes /\ Head(toDaemon).type = "Login"
        BY <4>2, DaemonTakesType
      <4> QED
        BY <4>1, <4>3 DEF GreeterMessageTypes, Logins
    <3> QED
      BY <1>1, <3>1, <3>2
  <2> QED
    BY <2>4, <2>5, <2>6 DEF ServiceStep, Service!ServiceNext, Service!Begin, Service!Goes
<1>2. ASSUME helper' = NoHelper, Announced' \in {Announced, FALSE}
      PROVE  ServiceStep
  <2>1. Stage' = "idle" /\ helper'.login = 0
    BY <1>2 DEF Stage, NoHelper
  <2> QED
    BY <1>2, <2>1 DEF ServiceStep, Service!ServiceNext, Service!End
<1>3. CASE StopDisplay
  <2>1. greeter'.told # "succeeded" /\ toGreeter' = <<>>
    BY <1>3 DEF StopDisplay, NoGreeter
  <2>2. Announced' = FALSE
    BY <2>1 DEF Announced
  <2> QED
    BY <1>2, <1>3, <2>2 DEF StopDisplay
<1>4. CASE ReapRefusedHelper
  <2>1. Announced' = Announced
    BY <1>4 DEF ReapRefusedHelper, Announced
  <2> QED
    BY <1>2, <1>4, <2>1 DEF ReapRefusedHelper
<1> QED
  BY <1>1, <1>3, <1>4

\* Every step of the login path is one of the service, or none.
LEMMA EveryStepIsOfTheService ==
  ASSUME IInv, TypeOK', VerdictByStage, CallsByStage, [Next]_vars
  PROVE  ServiceStep
<1>1. CASE HelperWorks \/ SessionEnds \/ HelperCrash
  BY <1>1, ServiceOfHelper DEF IInv
<1>2. CASE NewDisplayWithAutologin \/ LoginStarted \/ StopDisplay \/ ReapRefusedHelper
  BY <1>2, ServiceOfLogins DEF IInv
<1>3. CASE DaemonHearsHelper /\ ~ReapHelper /\ ~ReapRefusedHelper
  BY <1>3, ServiceOfReading DEF IInv
<1>4. ASSUME \/ UserSteps \/ GreeterSteps \/ GreeterCrash \/ GreeterStopTimer
             \/ DaemonHearsGreeter \/ NewDisplayWithGreeter \/ UNCHANGED vars,
             ~LoginStarted
      PROVE  ServiceStep
  <2>1. helper' = helper
    BY <1>4 DEF UserSteps, SubmitLogin, AnswerPrompt, GreeterSteps,
       ReadLoginSucceeded, ReadLoginFailed, ReadPromptRequest, GreeterReads, GreeterCrash,
       GreeterStopTimer, DaemonHearsGreeter, LoginAsSddm, LoginNotStarted,
       PromptResponseIgnored, PromptResponseTaken, GreeterDisconnected,
       NewDisplayWithGreeter, vars
  <2> QED
    BY <1>4, <2>1, ServiceOfGreeter DEF IInv
<1> QED
  BY <1>1, <1>2, <1>3, <1>4 DEF Next, SeatSteps, DaemonHearsHelper, ReapHelper

ServiceInv == IInv /\ VerdictByStage /\ CallsByStage

\* The layers of LoginProtocolProofs, and the stages with what was said of them,
\* hold in every behaviour.
LEMMA ServiceInvariant == Spec => []ServiceInv
<1>1. Init => VerdictByStage /\ CallsByStage
  BY DEF Init, VerdictByStage, CallsByStage, NoHelper, NoDisplay, Quiet
<1>2. IInv /\ IInv' /\ VerdictByStage /\ CallsByStage /\ [Next]_vars
        => VerdictByStage' /\ CallsByStage'
  BY VerdictByStageStep, CallsByStageStep DEF IInv
<1> QED
  BY <1>1, <1>2, InvariantHolds, PTL DEF Spec, ServiceInv

\* The greeter's theme, the daemon's Display and Auth, and sddm-helper together
\* keep what LoginService promises, however their messages interleave and
\* whenever a process dies: one login at a time, a session only after PAM has
\* accepted its login, and no success announced before that.
THEOREM LoginPathImplementsService == Spec => ImplementsLoginService
<1>1. Init => Service!ServiceInit
  BY DEF Init, Service!ServiceInit, NoHelper, NoGreeter, Stage, Announced
<1>2. ServiceInv /\ ServiceInv' /\ [Next]_vars => ServiceStep
  BY EveryStepIsOfTheService DEF ServiceInv, IInv
<1> QED
  BY <1>1, <1>2, ServiceInvariant, PTL DEF Spec, ServiceStep, ImplementsLoginService,
     Service!ServiceSpec

-----------------------------------------------------------------------------
(* The passwordless service *)

\* AutologinInv is inductive.
LEMMA AutologinStep ==
  ASSUME TypeOK, NothingWithoutDisplay, AutologinInv, [Next]_vars
  PROVE  AutologinInv'
<1>1. /\ helper \in Helpers /\ auth \in Auths /\ display \in Displays /\ greeter \in Greeters
      /\ count \in Counts
  BY DEF TypeOK
<1>2. CASE HelperWorks \/ SessionEnds \/ HelperCrash
  <2>1. /\ helper.pc # "off" /\ helper'.login = helper.login
        /\ helper'.autologin = helper.autologin
        /\ UNCHANGED <<greeter, toDaemon, display, auth>>
    BY <1>2, HelperAdvances DEF HelperGoes
  <2> QED
    BY <2>1 DEF AutologinInv, AutologinIsNotInherited, Active
<1>3. CASE NewDisplayWithGreeter
  <2>1. /\ helper' = helper /\ auth' = auth /\ display'.running = TRUE
        /\ helper.pc = "off" /\ ~auth.autologin
    BY <1>3 DEF NewDisplayWithGreeter, NothingWithoutDisplay, AutologinInv, NoDisplay
  <2> QED
    BY <2>1 DEF AutologinInv, AutologinIsNotInherited, Active
<1>4. CASE NewDisplayWithAutologin
  <2>1. /\ greeter' = greeter /\ toDaemon' = toDaemon /\ display'.running = TRUE
        /\ display'.pass = 0 /\ helper'.login = count.logins + 1
        /\ ~greeter.up /\ toDaemon = <<>>
    BY <1>4 DEF NewDisplayWithAutologin, NothingWithoutDisplay, NoDisplay, StartHelper, NoHelper
  <2>2. count.logins + 1 # 0
    BY <1>1, CountTypes
  <2> QED
    BY <2>1, <2>2 DEF AutologinInv, AutologinIsNotInherited
<1>5. CASE UserSteps
  <2>1. greeter.up /\ UNCHANGED <<display, auth, helper>>
    BY <1>5 DEF UserSteps, SubmitLogin, AnswerPrompt
  <2> QED
    BY <2>1 DEF AutologinInv, AutologinIsNotInherited, Active
<1>6. CASE GreeterSteps \/ GreeterCrash \/ GreeterStopTimer
  <2>1. /\ UNCHANGED <<toDaemon, auth, helper>>
        /\ display'.pass = display.pass /\ display'.running = display.running
    BY <1>1, <1>6 DEF GreeterSteps, ReadLoginSucceeded, ReadLoginFailed, ReadPromptRequest,
       GreeterReads, GreeterCrash, GreeterStopTimer, Displays
  <2>2. CASE GreeterSteps
    <3>1. greeter'.up = greeter.up
      BY <1>1, <2>2 DEF GreeterSteps, ReadLoginSucceeded, ReadLoginFailed,
         ReadPromptRequest, Greeters
    <3> QED
      BY <2>1, <3>1 DEF AutologinInv, AutologinIsNotInherited, Active
  <2>3. CASE GreeterCrash \/ GreeterStopTimer
    <3>1. ~greeter'.up
      BY <2>3 DEF GreeterCrash, GreeterStopTimer, NoGreeter
    <3> QED
      BY <2>1, <3>1 DEF AutologinInv, AutologinIsNotInherited, Active
  <2> QED
    BY <1>6, <2>2, <2>3
<1>7. CASE LoginStarted
  <2>1. toDaemon # <<>>
    BY <1>7 DEF LoginStarted, DaemonTakes
  <2>2. ~auth.autologin
    BY <2>1 DEF AutologinInv, AutologinIsNotInherited
  <2>3. helper'.autologin = auth.autologin /\ auth'.autologin = auth.autologin
    BY <1>1, <1>7 DEF LoginStarted, StartHelper, NoHelper, Auths
  <2> QED
    BY <2>2, <2>3 DEF AutologinInv, AutologinIsNotInherited
<1>8. CASE DaemonHearsGreeter /\ ~LoginStarted
  <2>1. /\ helper' = helper /\ greeter' = greeter
        /\ toDaemon = <<>> => toDaemon' = <<>>
        /\ display'.running = display.running
    BY <1>1, <1>8 DEF DaemonHearsGreeter, LoginAsSddm, LoginNotStarted,
       PromptResponseIgnored, PromptResponseTaken, GreeterDisconnected, DaemonTakes, Displays
  <2>2. auth'.autologin = auth.autologin
    BY <1>1, <1>8 DEF DaemonHearsGreeter, LoginAsSddm, LoginNotStarted,
       PromptResponseIgnored, PromptResponseTaken, GreeterDisconnected, Finish, Auths
  <2>3. Active => display'.pass = display.pass
    BY <1>1, <1>8 DEF DaemonHearsGreeter, LoginAsSddm, LoginNotStarted,
       PromptResponseIgnored, PromptResponseTaken, GreeterDisconnected, Displays
  <2> QED
    BY <2>1, <2>2, <2>3 DEF AutologinInv, AutologinIsNotInherited, Active
<1>9. CASE DaemonHearsHelper /\ ~ReapHelper /\ ~ReapRefusedHelper
  <2>1. /\ helper' = helper /\ toDaemon' = toDaemon
        /\ display'.running = display.running /\ display'.pass = display.pass
    BY <1>1, <1>9 DEF DaemonHearsHelper, ConnectHelper, ReadError, ReadRequestAnswered,
       ReadRequestRelayed, ReadAccepted, ReadRefused, ReadAutologinRefused,
       ReadSessionStatus, DaemonReads, Displays
  <2>2. \/ ~auth'.autologin
        \/ auth'.autologin = auth.autologin /\ greeter' = greeter
    BY <1>1, <1>9 DEF DaemonHearsHelper, ConnectHelper, ReadError, ReadRequestAnswered,
       ReadRequestRelayed, ReadAccepted, ReadRefused, ReadAutologinRefused,
       ReadSessionStatus, Finish, Auths
  <2> QED
    BY <2>1, <2>2 DEF AutologinInv, AutologinIsNotInherited, Active
<1>10. CASE ReapRefusedHelper
  <2>1. helper'.pc = "off" /\ UNCHANGED <<greeter, toDaemon, display, auth>>
    BY <1>10 DEF ReapRefusedHelper, NoHelper
  <2> QED
    BY <2>1 DEF AutologinInv, AutologinIsNotInherited, Active
<1>11. CASE StopDisplay
  <2>1. helper'.pc = "off" /\ ~auth'.autologin
    BY <1>11 DEF StopDisplay, NoHelper, NewAuth
  <2> QED
    BY <2>1 DEF AutologinInv, AutologinIsNotInherited, Active
<1>12. CASE UNCHANGED vars
  BY <1>12 DEF vars, AutologinInv, AutologinIsNotInherited, Active
<1> QED
  BY <1>2, <1>3, <1>4, <1>5, <1>6, <1>7, <1>8, <1>9, <1>10, <1>11, <1>12
     DEF Next, SeatSteps, DaemonHearsHelper, ReapHelper

\* The passwordless PAM service of an autologin never serves a login that came
\* from a greeter (Display::handleAutologinFailure clears the flag before the
\* greeter it starts can send anything).
THEOREM AutologinStaysWithItsDisplay == Spec => []AutologinIsNotInherited
<1>1. Init => AutologinInv
  BY DEF Init, AutologinInv, AutologinIsNotInherited, Active, NoHelper, NewAuth
<1>2. IInv /\ AutologinInv /\ [Next]_vars => AutologinInv'
  BY AutologinStep DEF IInv
<1>3. AutologinInv => AutologinIsNotInherited
  BY DEF AutologinInv
<1> QED
  BY <1>1, <1>2, <1>3, InvariantHolds, PTL DEF Spec

-----------------------------------------------------------------------------
(* Answers keep to their questions through the operators on prompts *)

\* What is predicted or asked anew has no answer yet, and its text's kind.
LEMMA EmptyFits ==
  ASSUME NEW n, NEW p, p.resp = NoResponse,
         p.type = "LOGIN_PASSWORD" => "password" \in Words[p.text],
         p.type = "LOGIN_USER" => p.text \in EchoTexts
  PROVE  Fits(p, n)
  BY DEF Fits, NoResponse

\* The requests that are predicted as a whole.
LEMMA FixedRequestsFit ==
  ASSUME NEW n
  PROVE  /\ AllFit(<<>>, n) /\ AllFit(LoginRequest, n)
         /\ AllFit(ChangePassNoOldRequest, n) /\ AllFit(ChangePassRequest, n)
<1> DEFINE user == Prompt("LOGIN_USER", "login:")
           password == Prompt("LOGIN_PASSWORD", "Password: ")
           old == Prompt("CHANGE_CURRENT", "(current) UNIX password: ")
           new == Prompt("CHANGE_NEW", "New password: ")
           again == Prompt("CHANGE_REPEAT", "Retype new password: ")
<1>1. Fits(user, n)
  BY EmptyFits DEF Prompt, EchoTexts
<1>2. Fits(password, n)
  BY EmptyFits, TextsAssumption DEF Prompt
<1>3. Fits(old, n) /\ Fits(new, n) /\ Fits(again, n)
  BY EmptyFits DEF Prompt
<1> HIDE DEF user, password, old, new, again
<1>4. AllFit(<<>>, n)
  BY DEF AllFit
<1>5. AllFit(<<user, password>>, n)
  BY <1>1, <1>2 DEF AllFit
<1>6. AllFit(<<new, again>>, n)
  BY <1>3 DEF AllFit
<1>7. AllFit(<<old>> \o <<new, again>>, n)
  <2>1. <<old>> \o <<new, again>> = <<old, new, again>>
    BY JoinThree
  <2>2. AllFit(<<old, new, again>>, n)
    BY <1>3 DEF AllFit
  <2> QED
    BY <2>1, <2>2
<1> QED
  BY <1>4, <1>5, <1>6, <1>7 DEF LoginRequest, ChangePassNoOldRequest, ChangePassRequest,
     user, password, old, new, again

\* One prompt more.
LEMMA AppendFits ==
  ASSUME NEW n, NEW s \in Seq(Prompts), AllFit(s, n), NEW p \in Prompts, Fits(p, n)
  PROVE  AllFit(Append(s, p), n)
<1>1. \A j \in 1 .. Len(Append(s, p)) :
        \/ Append(s, p)[j] = p
        \/ j \in 1 .. Len(s) /\ Append(s, p)[j] = s[j]
  OBVIOUS
<1> QED
  BY <1>1 DEF AllFit

\* One prompt less.
LEMMA RemovalFits ==
  ASSUME NEW n, NEW s \in Seq(Prompts), AllFit(s, n), NEW i \in 1 .. Len(s)
  PROVE  AllFit(RemoveAt(s, i), n)
<1> DEFINE before == SubSeq(s, 1, i - 1)
           after  == SubSeq(s, i + 1, Len(s))
<1>1. /\ before \in Seq(Prompts) /\ Len(before) = i - 1
      /\ \A j \in 1 .. i - 1 : before[j] = s[j] /\ j \in 1 .. Len(s)
  OBVIOUS
<1>2. /\ after \in Seq(Prompts) /\ Len(after) = Len(s) - i
      /\ \A j \in 1 .. Len(s) - i : after[j] = s[i + j] /\ i + j \in 1 .. Len(s)
  OBVIOUS
<1> HIDE DEF before, after
<1>3. \A j \in 1 .. Len(before \o after) :
        \/ j \in 1 .. i - 1 /\ (before \o after)[j] = before[j]
        \/ /\ j - (i - 1) \in 1 .. Len(s) - i
           /\ (before \o after)[j] = after[j - (i - 1)]
  BY <1>1, <1>2
<1>4. \A j \in 1 .. Len(before \o after) :
        \E k \in 1 .. Len(s) : (before \o after)[j] = s[k]
  BY <1>1, <1>2, <1>3
<1> QED
  BY <1>4 DEF AllFit, RemoveAt, before, after

\* getResponse keeps the other prompts.
LEMMA AfterResponseFits ==
  ASSUME NEW n, NEW d \in PamDatas, AllFit(d.prompts, n), NEW m
  PROVE  AllFit(AfterResponse(d, m).prompts, n)
<1>1. FindPrompt(d, m) \in 0 .. Len(d.prompts) /\ d.prompts \in Seq(Prompts)
  BY FindPromptInRange DEF PamDatas
<1>2. FindPrompt(d, m) # 0 => AllFit(RemoveAt(d.prompts, FindPrompt(d, m)), n)
  BY <1>1, RemovalFits
<1> QED
  BY <1>2 DEF AfterResponse

\* insertPrompt, whether it predicts, asks anew or takes the module's words.
LEMMA InsertPromptFits ==
  ASSUME NEW n, NEW d \in PamDatas, AllFit(d.prompts, n), NEW m \in PamMessages
  PROVE  AllFit(InsertPrompt(d, m).prompts, n)
<1>1. m \in Messages
  BY ConstantsAssumption
<1>2. ASSUME NEW kept \in PamDatas, AllFit(kept.prompts, n)
      PROVE  AllFit([kept EXCEPT !.prompts = Predicted(kept, m)].prompts, n)
  <2> DEFINE p == Prompt(DetectPrompt(m), m.text)
  <2>1. p \in Prompts
    BY <1>1 DEF Prompt, Prompts, Responses, NoResponse, DetectPrompt, PromptTypes, Messages
  <2>2. /\ DetectPrompt(m) = "LOGIN_PASSWORD" => "password" \in Words[m.text]
        /\ DetectPrompt(m) = "LOGIN_USER" => m.text \in EchoTexts
    BY <1>1 DEF DetectPrompt, EchoTexts
  <2>3. Fits(p, n)
    BY <2>2, EmptyFits DEF Prompt
  <2> HIDE DEF p
  <2>4. AllFit(Append(kept.prompts, p), n)
    BY <1>2, <2>1, <2>3, AppendFits DEF PamDatas
  <2>5. AllFit(Predicted(kept, m), n)
    BY <2>4, FixedRequestsFit DEF Predicted, p
  <2>6. [kept EXCEPT !.prompts = Predicted(kept, m)].prompts = Predicted(kept, m)
    BY DEF PamDatas
  <2> QED
    BY <2>5, <2>6
<1>3. NewPamData \in PamDatas /\ AllFit(NewPamData.prompts, n)
  BY FixedRequestsFit DEF NewPamData, PamDatas
<1> DEFINE i == FindPrompt(d, m)
<1>4. ASSUME i # 0
      PROVE  AllFit([d EXCEPT !.prompts[i].text = m.text].prompts, n)
  <2>1. i \in 1 .. Len(d.prompts) /\ d.prompts \in Seq(Prompts)
          /\ Matches(d.prompts[i], m)
    BY <1>4, FindPromptInRange DEF PamDatas
  <2> DEFINE p == [d.prompts[i] EXCEPT !.text = m.text]
  <2>2. d.prompts[i] \in Prompts /\ Fits(d.prompts[i], n)
    BY <2>1 DEF AllFit
  <2>3. p.type = d.prompts[i].type /\ p.resp = d.prompts[i].resp /\ p.text = m.text
    BY <2>2 DEF Prompts
  <2>4. /\ p.type = "LOGIN_PASSWORD" => "password" \in Words[p.text]
        /\ p.type = "LOGIN_USER" => p.text \in EchoTexts
    BY <2>1, <2>2, <2>3 DEF Matches, Fits, DetectPrompt, EchoTexts
  <2>5. Fits(p, n)
    BY <2>2, <2>3, <2>4 DEF Fits
  <2>6. [d EXCEPT !.prompts[i].text = m.text].prompts = [d.prompts EXCEPT ![i] = p]
    BY DEF PamDatas
  <2> HIDE DEF p, i
  <2>7. AllFit([d.prompts EXCEPT ![i] = p], n)
    BY <2>1, <2>5 DEF AllFit
  <2> QED
    BY <2>6, <2>7
<1> QED
  BY <1>2, <1>3, <1>4 DEF InsertPrompt

\* handleInfo predicts a change of password.
LEMMA HandleInfoFits ==
  ASSUME NEW n, NEW d \in PamDatas, AllFit(d.prompts, n), NEW m
  PROVE  AllFit(HandleInfo(d, m).prompts, n)
  BY FixedRequestsFit DEF HandleInfo, PamDatas

\* completeRequest takes the daemon's answers or leaves the request.
LEMMA CompleteRequestFits ==
  ASSUME NEW n, NEW d, AllFit(d.prompts, n), NEW answered, AllFit(answered, n)
  PROVE  AllFit(CompleteRequest(d, answered).prompts, n)
  BY DEF CompleteRequest

\* slotRequestChanged fills in the user and the password it holds.
LEMMA FilledFits ==
  ASSUME NEW n, NEW s \in Seq(Prompts), AllFit(s, n),
         auth.user \in {n, 0}, display.pass \in {n, 0}
  PROVE  AllFit(Filled(s), n)
<1>1. DOMAIN s = 1 .. Len(s) /\ Len(Filled(s)) = Len(s)
  BY DEF Filled
<1>2. ASSUME NEW j \in 1 .. Len(s)
      PROVE  Fits(Filled(s)[j], n)
  <2>1. s[j] \in Prompts /\ Fits(s[j], n)
    BY DEF AllFit
  <2> DEFINE r == CASE s[j].type = "LOGIN_USER" -> [kind |-> "user", of |-> auth.user]
                    [] s[j].type = "LOGIN_PASSWORD" ->
                         [kind |-> "password", of |-> display.pass]
                    [] OTHER -> s[j].resp
  <2>2. Filled(s)[j] = [s[j] EXCEPT !.resp = r]
    BY <1>1 DEF Filled
  <2>3. /\ Filled(s)[j].type = s[j].type /\ Filled(s)[j].text = s[j].text
        /\ Filled(s)[j].resp = r
    <3> HIDE DEF r
    <3> QED
      BY <2>1, <2>2 DEF Prompts
  <2>4. CASE s[j].type = "LOGIN_USER"
    <3>1. Filled(s)[j].resp = [kind |-> "user", of |-> auth.user]
      BY <2>3, <2>4
    <3> QED
      BY <2>1, <2>3, <2>4, <3>1 DEF Fits
  <2>5. CASE s[j].type = "LOGIN_PASSWORD"
    <3>1. Filled(s)[j].resp = [kind |-> "password", of |-> display.pass]
      BY <2>3, <2>5
    <3> QED
      BY <2>1, <2>3, <2>5, <3>1 DEF Fits
  <2>6. CASE s[j].type # "LOGIN_USER" /\ s[j].type # "LOGIN_PASSWORD"
    <3>1. Filled(s)[j].resp = s[j].resp
      BY <2>3, <2>6
    <3> QED
      BY <2>1, <2>3, <3>1 DEF Fits
  <2> QED
    BY <2>4, <2>5, <2>6
<1> QED
  BY <1>1, <1>2 DEF AllFit

\* The prompt that is relayed to the greeter is of neither kind.
LEMMA UnrecognisedInRange ==
  ASSUME NEW s \in Seq(Prompts)
  PROVE  /\ Unrecognised(s) \in 0 .. Len(s)
         /\ Unrecognised(s) # 0 =>
              s[Unrecognised(s)].type \notin {"LOGIN_USER", "LOGIN_PASSWORD"}
<1> DEFINE I == {i \in 1 .. Len(s) : s[i].type \notin {"LOGIN_USER", "LOGIN_PASSWORD"}}
<1>1. Unrecognised(s) = IF I # {} THEN Min(I) ELSE 0
  BY Zenon DEF Unrecognised, SelectInSeq
<1>2. I \in SUBSET Nat /\ Len(s) \in Nat
  OBVIOUS
<1>3. I # {} => Min(I) \in I
  BY <1>2, LeastElement
<1> HIDE DEF I
<1>4. CASE I = {}
  BY <1>1, <1>2, <1>4
<1>5. CASE I # {}
  BY <1>1, <1>2, <1>3, <1>5 DEF I
<1> QED
  BY <1>4, <1>5

\* What the user typed goes to that prompt.
LEMMA TypedFits ==
  ASSUME NEW n, NEW s \in Seq(Prompts), AllFit(s, n), Unrecognised(s) # 0, NEW of
  PROVE  AllFit([s EXCEPT ![Unrecognised(s)].resp = [kind |-> "typed", of |-> of]], n)
<1> DEFINE i == Unrecognised(s)
           r == [kind |-> "typed", of |-> of]
           p == [s[i] EXCEPT !.resp = r]
<1>1. i \in 1 .. Len(s) /\ s[i].type \notin {"LOGIN_USER", "LOGIN_PASSWORD"}
  BY UnrecognisedInRange
<1>2. s[i] \in Prompts /\ Fits(s[i], n) /\ r.kind = "typed"
  BY <1>1 DEF AllFit
<1> HIDE DEF r, i
<1>3. p.type = s[i].type /\ p.text = s[i].text /\ p.resp = r
  BY <1>2 DEF Prompts
<1>4. Fits(p, n)
  BY <1>1, <1>2, <1>3 DEF Fits
<1> HIDE DEF p
<1>5. AllFit([s EXCEPT ![i] = p], n)
  BY <1>1, <1>4 DEF AllFit
<1> QED
  BY <1>5 DEF p, i, r

-----------------------------------------------------------------------------
(* AnswersAreOfLogin *)

\* Requests that remain when the queue is emptied or its first message read.
LEMMA RequestsLeft ==
  ASSUME NEW n, NEW M, NEW msgs \in Seq(M), RequestsFit(msgs, n)
  PROVE  RequestsFit(<<>>, n) /\ (msgs # <<>> => RequestsFit(Tail(msgs), n))
<1>1. RequestsFit(<<>>, n)
  BY DEF RequestsFit
<1>2. ASSUME msgs # <<>>
      PROVE  RequestsFit(Tail(msgs), n)
  <2>1. \A i \in 1 .. Len(Tail(msgs)) : i + 1 \in 1 .. Len(msgs) /\ Tail(msgs)[i] = msgs[i + 1]
    BY <1>2, HeadTailProperties
  <2> QED
    BY <2>1 DEF RequestsFit
<1> QED
  BY <1>1, <1>2

\* The greeter's and the daemon's steps that touch neither answers nor helper.
LEMMA AnswersStay ==
  ASSUME AnswersAreOfLogin, helper' = helper, up' = up, down' = down,
         display'.pending = display.pending, auth'.user = auth.user,
         auth'.prompts = auth.prompts, Active => display'.pass = display.pass
  PROVE  AnswersAreOfLogin'
  BY DEF AnswersAreOfLogin, Sent, Active

\* A login starts with nothing answered, and its name and password are the
\* daemon's from now on.
LEMMA AnswersAtStart ==
  ASSUME TypeOK, NothingWithoutDisplay, InPhase, HellosComeFirst',
         NewDisplayWithAutologin \/ LoginStarted
  PROVE  AnswersAreOfLogin'
<1>1. helper.pc = "off" /\ display.pending = 0 /\ auth \in Auths /\ display \in Displays
  BY DEF NewDisplayWithAutologin, LoginStarted, NothingWithoutDisplay, Active, InPhase, TypeOK
<1>2. display'.pending = 0
  BY <1>1 DEF NewDisplayWithAutologin, LoginStarted, NoDisplay, Displays
<1>8. PICK n, reuse, autologin : /\ StartHelper(n, reuse, autologin)
                                 /\ display'.pass \in {n, 0}
  <2>1. CASE NewDisplayWithAutologin
    <3>1. PICK reuse : /\ StartHelper(count.logins + 1, reuse, TRUE)
                       /\ display' = [NoDisplay EXCEPT !.running = TRUE, !.reuse = reuse]
      BY <2>1 DEF NewDisplayWithAutologin
    <3>2. display'.pass = 0
      BY <3>1 DEF NoDisplay
    <3> QED
      BY <3>1, <3>2
  <2>2. CASE LoginStarted
    <3>1. PICK reuse : /\ StartHelper(Head(toDaemon).n, reuse, auth.autologin)
                       /\ display' = [display EXCEPT !.socket = TRUE, !.reuse = reuse,
                                                     !.pass = Head(toDaemon).n]
      BY <2>2 DEF LoginStarted
    <3>2. display'.pass = Head(toDaemon).n
      BY <1>1, <3>1 DEF Displays
    <3> QED
      BY <3>1, <3>2
  <2> QED
    BY <2>1, <2>2
<1>3. /\ helper'.pc = "starting" /\ helper'.data = NewPamData /\ down' = <<>>
      /\ auth'.user = n /\ helper'.login = n
  <2>1. auth'.user = n
    BY <1>1, <1>8 DEF StartHelper, Auths
  <2> QED
    BY <1>8, <2>1 DEF StartHelper, NoHelper
<1>4. up'[helper'.login] = <<>>
  BY <1>3 DEF HellosComeFirst
<1>5. display'.pass \in {helper'.login, 0}
  BY <1>3, <1>8
<1>6. NewPamData.prompts = <<>>
  BY DEF NewPamData
<1>7. \A k : AllFit(<<>>, k) /\ RequestsFit(<<>>, k)
  BY DEF AllFit, RequestsFit
<1> QED
  BY <1>2, <1>3, <1>4, <1>5, <1>6, <1>7 DEF AnswersAreOfLogin, Sent

\* The helper that is gone leaves no answers behind.
LEMMA AnswersAtEnd ==
  ASSUME TypeOK, InPhase, StopDisplay \/ ReapRefusedHelper
  PROVE  AnswersAreOfLogin'
<1>1. helper' = NoHelper /\ down' = <<>> /\ display'.pending = 0
  BY DEF StopDisplay, ReapRefusedHelper, NoDisplay, InPhase, Exited, Crashed
<1>2. NoHelper.pc = "off" /\ NoHelper.data.prompts = <<>>
  BY DEF NoHelper, NewPamData
<1>3. \A n : AllFit(<<>>, n) /\ RequestsFit(<<>>, n)
  BY DEF AllFit, RequestsFit
<1> QED
  BY <1>1, <1>2, <1>3 DEF AnswersAreOfLogin

\* What the user typed is sent on with the rest of the request.
LEMMA AnswersTyped ==
  ASSUME TypeOK, InPhase, AnswersAreOfLogin, PromptResponseTaken
  PROVE  AnswersAreOfLogin'
<1>1. /\ display.pending # 0 /\ auth \in Auths /\ display \in Displays
      /\ down \in Seq(DownMessageTypes)
  BY DEF PromptResponseTaken, TypeOK
<1>2. helper.pc # "off" /\ AllFit(auth.prompts, helper.login)
  BY <1>1 DEF InPhase, AnswersAreOfLogin
<1>3. /\ helper' = helper /\ up' = up /\ display'.pending = 0
      /\ display'.pass = display.pass
  BY <1>1 DEF PromptResponseTaken, Displays
<1>4. auth'.user = auth.user
  BY <1>1 DEF PromptResponseTaken, Finish, Auths
<1>5. auth.prompts \in Seq(Prompts)
  BY <1>1 DEF Auths
<1>6. PICK answered : /\ AllFit(answered, helper.login)
                      /\ down' = down \/ Finish(auth.request, answered)
  <2> DEFINE i == Unrecognised(auth.prompts)
             typed == [auth.prompts EXCEPT ![i].resp =
                         [kind |-> "typed", of |-> Head(toDaemon).of]]
  <2>1. i # 0 => AllFit(typed, helper.login)
    BY <1>2, <1>5, TypedFits
  <2> HIDE DEF typed, i
  <2>2. \/ down' = down
        \/ Finish(auth.request, IF display.pending = auth.request /\ i # 0
                                  THEN typed ELSE auth.prompts)
    BY DEF PromptResponseTaken, i, typed
  <2> QED
    BY <1>2, <2>1, <2>2
<1>7. RequestsFit(down', helper.login)
  <2>1. RequestsFit(down, helper.login)
    BY DEF AnswersAreOfLogin
  <2> DEFINE m == [type |-> "REQUEST", prompts |-> answered]
  <2>2. down' = down \/ down' = Append(down, m)
    BY <1>6 DEF Finish, Reply
  <2>3. m.prompts = answered
    OBVIOUS
  <2> HIDE DEF m
  <2>4. \A j \in 1 .. Len(Append(down, m)) :
          \/ Append(down, m)[j] = m
          \/ j \in 1 .. Len(down) /\ Append(down, m)[j] = down[j]
    BY <1>1
  <2>5. RequestsFit(Append(down, m), helper.login)
    BY <1>6, <2>1, <2>3, <2>4 DEF RequestsFit
  <2> QED
    BY <2>1, <2>2, <2>5
<1> QED
  BY <1>3, <1>4, <1>7 DEF AnswersAreOfLogin, Sent

\* The daemon reads what helpers say: it drops requests, fills one in and
\* answers it, or holds it for the greeter.
LEMMA AnswersRead ==
  ASSUME TypeOK, LoginsInOrder, InPhase, CallsByStage, AnswersAreOfLogin,
         DaemonHearsHelper, ~ReapHelper, ~ReapRefusedHelper
  PROVE  AnswersAreOfLogin'
<1>1. /\ auth \in Auths /\ display \in Displays /\ down \in Seq(DownMessageTypes)
      /\ \A k \in Logins : up[k] \in Seq(UpMessageTypes)
  BY HelperFacts
<1>2. helper' = helper /\ display'.pass = display.pass
  BY <1>1 DEF DaemonHearsHelper, ConnectHelper, ReadError, ReadRequestAnswered,
     ReadRequestRelayed, ReadAccepted, ReadRefused, ReadAutologinRefused,
     ReadSessionStatus, DaemonReads, Displays
<1>3. \A k \in Logins : \/ up'[k] = up[k] \/ up'[k] = <<>>
                        \/ up[k] # <<>> /\ up'[k] = Tail(up[k])
  <2>1. CASE ConnectHelper
    BY <2>1 DEF ConnectHelper, SaysHello
  <2>2. ASSUME NEW type, DaemonReads(type)
        PROVE  \A k \in Logins : \/ up'[k] = up[k]
                                 \/ up[k] # <<>> /\ up'[k] = Tail(up[k])
    BY <2>2, ReadAt
  <2> QED
    BY <2>1, <2>2 DEF DaemonHearsHelper, ReadError, ReadRequestAnswered, ReadRequestRelayed,
       ReadAccepted, ReadRefused, ReadAutologinRefused, ReadSessionStatus
<1>4. helper.pc # "off" => RequestsFit(up'[helper.login], helper.login)
  <2>1. ASSUME helper.pc # "off"
        PROVE  RequestsFit(up'[helper.login], helper.login)
    <3>1. helper.login \in Logins /\ RequestsFit(up[helper.login], helper.login)
      BY <2>1, HelperFacts DEF AnswersAreOfLogin, Sent
    <3> QED
      BY <1>1, <1>3, <3>1, RequestsLeft
  <2> QED
    BY <2>1
<1>5. ASSUME auth'.user = auth.user \/ auth'.user = helper.login,
             display'.pending # 0 => AllFit(auth'.prompts, helper.login),
             RequestsFit(down', helper.login)
      PROVE  AnswersAreOfLogin'
  BY <1>2, <1>4, <1>5 DEF AnswersAreOfLogin, Sent
<1>6. RequestsFit(down, helper.login)
  BY DEF AnswersAreOfLogin
<1>7. ASSUME NEW m, m.type = "REQUEST" => AllFit(m.prompts, helper.login), Reply(m)
      PROVE  RequestsFit(down', helper.login)
  <2>1. \A j \in 1 .. Len(Append(down, m)) :
          \/ Append(down, m)[j] = m
          \/ j \in 1 .. Len(down) /\ Append(down, m)[j] = down[j]
    BY <1>1
  <2>2. RequestsFit(Append(down, m), helper.login)
    BY <1>6, <1>7, <2>1 DEF RequestsFit
  <2> QED
    BY <1>6, <1>7, <2>2 DEF Reply
<1>8. CASE ReadRequestAnswered \/ ReadRequestRelayed
  <2>1. DaemonReads("REQUEST") /\ FromHelper.type = "REQUEST" /\ IsCall(FromHelper)
    BY <1>8 DEF ReadRequestAnswered, ReadRequestRelayed, DaemonReads, FromHelper, IsCall
  <2>2. helper.pc # "off" /\ auth.conn = helper.login /\ auth.conn \in Logins
        /\ up[auth.conn] # <<>>
    BY <2>1, CallIsServed, ReadAt
  <2>3. FromHelper = Sent[1] /\ 1 \in 1 .. Len(Sent)
    BY <1>1, <2>2 DEF FromHelper, Sent
  <2>4. AllFit(FromHelper.prompts, helper.login)
    BY <2>1, <2>2, <2>3 DEF AnswersAreOfLogin, RequestsFit
  <2>5. FromHelper.prompts \in Seq(Prompts)
    <3>1. FromHelper \in UpMessageTypes
      BY <2>1, DaemonReadsType
    <3> QED
      BY <2>1, <3>1 DEF UpMessageTypes
  <2>6. AllFit(Filled(FromHelper.prompts), helper.login)
    BY <2>2, <2>4, <2>5, FilledFits DEF AnswersAreOfLogin
  <2>7. CASE ReadRequestAnswered
    <3> DEFINE m == [type |-> "REQUEST", prompts |-> Filled(FromHelper.prompts)]
    <3>1. Reply(m) /\ m.prompts = Filled(FromHelper.prompts)
      BY <2>7 DEF ReadRequestAnswered, Finish
    <3> HIDE DEF m
    <3>2. RequestsFit(down', helper.login)
      BY <1>7, <2>6, <3>1
    <3>3. display' = display /\ auth'.user = auth.user /\ display.pending = 0
      BY <1>1, <2>1, <2>7, CallIsServed DEF ReadRequestAnswered, Finish, Auths
    <3> QED
      BY <1>5, <3>2, <3>3
  <2>8. CASE ReadRequestRelayed
    <3>1. /\ auth'.user = auth.user /\ down' = down
          /\ auth'.prompts = Filled(FromHelper.prompts)
      BY <1>1, <2>8 DEF ReadRequestRelayed, Auths
    <3> QED
      BY <1>5, <1>6, <2>6, <3>1
  <2> QED
    BY <1>8, <2>7, <2>8
<1>9. CASE ReadAccepted
  <2>1. DaemonReads("AUTHENTICATED") /\ FromHelper.type = "AUTHENTICATED" /\ IsCall(FromHelper)
    BY <1>9 DEF ReadAccepted, DaemonReads, FromHelper, IsCall
  <2>2. helper.pc # "off" /\ auth.conn = helper.login /\ auth.conn \in Logins
        /\ up[auth.conn] # <<>> /\ display.pending = 0
    BY <2>1, CallIsServed, ReadAt
  <2>3. FromHelper = Sent[1] /\ 1 \in 1 .. Len(Sent)
    BY <1>1, <2>2 DEF FromHelper, Sent
  <2>4. FromHelper.user = helper.login
    BY <2>1, <2>2, <2>3 DEF CallsByStage, IsCall
  <2>5. auth'.user = helper.login /\ display'.pending = 0
    BY <1>1, <1>9, <2>2, <2>4 DEF ReadAccepted, Auths, Displays
  <2> DEFINE m == [type |-> "AUTHENTICATED"]
  <2>6. Reply(m) /\ m.type # "REQUEST"
    BY <1>9 DEF ReadAccepted
  <2> HIDE DEF m
  <2>7. RequestsFit(down', helper.login)
    BY <1>7, <2>6
  <2> QED
    BY <1>5, <2>5, <2>7
<1>10. CASE ReadSessionStatus
  <2> DEFINE m == [type |-> "SESSION_STATUS"]
  <2>1. Reply(m) /\ m.type # "REQUEST"
    BY <1>10 DEF ReadSessionStatus
  <2> HIDE DEF m
  <2>2. RequestsFit(down', helper.login)
    BY <1>7, <2>1
  <2>3. auth' = auth /\ display'.pending = display.pending
    BY <1>1, <1>10 DEF ReadSessionStatus, Displays
  <2> QED
    BY <1>5, <2>2, <2>3 DEF AnswersAreOfLogin
<1>11. CASE ConnectHelper \/ ReadError \/ ReadRefused \/ ReadAutologinRefused
  <2>1. /\ auth'.user = auth.user /\ auth'.prompts = auth.prompts
        /\ display'.pending = display.pending /\ down' = down
    BY <1>1, <1>11 DEF ConnectHelper, ReadError, ReadRefused, ReadAutologinRefused,
       Auths, Displays
  <2> QED
    BY <1>5, <1>6, <2>1 DEF AnswersAreOfLogin
<1> QED
  BY <1>8, <1>9, <1>10, <1>11 DEF DaemonHearsHelper

\* Requests of one login, put behind requests of the same login.
LEMMA RequestsJoined ==
  ASSUME NEW n, NEW A, NEW s \in Seq(A), NEW B, NEW t \in Seq(B),
         RequestsFit(s, n), RequestsFit(t, n)
  PROVE  RequestsFit(s \o t, n)
<1> DEFINE U == A \cup B
<1>1. A \subseteq U /\ B \subseteq U
  OBVIOUS
<1> HIDE DEF U
<1>2. s \in Seq(U) /\ t \in Seq(U)
  BY <1>1
<1>3. \A j \in 1 .. Len(s \o t) :
        \/ j \in 1 .. Len(s) /\ (s \o t)[j] = s[j]
        \/ j - Len(s) \in 1 .. Len(t) /\ (s \o t)[j] = t[j - Len(s)]
  BY <1>2
<1> QED
  BY <1>3 DEF RequestsFit

\* What the helper does with its prompts keeps every answer in its place.
LEMMA AnswersOfHelper ==
  ASSUME TypeOK, LoginsInOrder, AnswersAreOfLogin, HelperWorks \/ SessionEnds \/ HelperCrash
  PROVE  AnswersAreOfLogin'
<1> DEFINE n == helper.login
<1>1. /\ helper \in Helpers /\ helper.data \in PamDatas /\ down \in Seq(DownMessageTypes)
      /\ \A k \in Logins : up[k] \in Seq(UpMessageTypes)
  BY HelperFacts DEF Helpers
<1>2. /\ helper'.login = n /\ UNCHANGED <<display, auth>> /\ helper.pc # "off"
      /\ helper.login \in Logins /\ helper.login # 0
  BY HelperAdvances, HelperFacts DEF HelperGoes
<1>3. /\ AllFit(helper.data.prompts, n) /\ RequestsFit(Sent, n) /\ RequestsFit(down, n)
      /\ auth.user = n /\ display.pass \in {n, 0}
      /\ display.pending # 0 => AllFit(auth.prompts, n)
  BY <1>2 DEF AnswersAreOfLogin
<1> DEFINE Rest == /\ AllFit(helper'.data.prompts, n)
                   /\ down' = down \/ (down # <<>> /\ down' = Tail(down))
                   /\ helper'.pc = "waitRequest" => helper'.msg \in PamMessages
<1>4. ASSUME Rest, up' = up
      PROVE  AnswersAreOfLogin'
  <2>1. RequestsFit(down', n)
    BY <1>1, <1>3, <1>4, RequestsLeft
  <2> QED
    BY <1>2, <1>3, <1>4, <2>1 DEF AnswersAreOfLogin, Sent
<1>5. ASSUME Rest, NEW M, NEW msgs \in Seq(M), Send(msgs), RequestsFit(msgs, n)
      PROVE  AnswersAreOfLogin'
  <2>1. RequestsFit(down', n)
    BY <1>1, <1>3, <1>5, RequestsLeft
  <2>2. up'[n] = Sent \o msgs
    BY <1>2, <1>5, SendAt DEF Sent
  <2>3. Sent \in Seq(UpMessageTypes)
    BY <1>1, <1>2 DEF Sent
  <2>4. RequestsFit(up'[n], n)
    BY <1>3, <1>5, <2>2, <2>3, RequestsJoined
  <2> QED
    BY <1>2, <1>3, <1>5, <2>1, <2>4 DEF AnswersAreOfLogin, Sent
<1>6. CASE \/ HelperHello \/ PamStartFails \/ PamAccepts \/ PamRefuses
           \/ SessionOpens \/ SessionFailsToOpen
  <2>1. /\ helper'.data = helper.data /\ helper'.pc # "waitRequest" /\ down' = down
    BY <1>1, <1>6 DEF HelperHello, PamStartFails, PamAccepts, PamRefuses, SessionOpens,
       SessionFailsToOpen, Exit, Helpers
  <2> DEFINE hello == [type |-> "HELLO"]
             accept == [type |-> "AUTHENTICATED", user |-> n]
             refuse == [type |-> "AUTHENTICATED", user |-> 0]
             error(what) == [type |-> "ERROR", error |-> what]
             status(ok) == [type |-> "SESSION_STATUS", ok |-> ok]
  <2>2. PICK what, a, b, c : /\ Send(<<a>>) \/ Send(<<a, b>>) \/ Send(<<a>> \o <<b, c>>)
                             /\ {a, b, c} \subseteq {hello, accept, refuse, error(what),
                                                     status(TRUE), status(FALSE)}
    <3>1. CASE HelperHello
      <4>1. Send(<<hello>>)
        BY <3>1 DEF HelperHello
      <4> HIDE DEF hello, accept, refuse, error, status
      <4> QED
        BY <4>1
    <3>2. CASE PamStartFails
      <4>1. Send(<<hello>> \o <<error("INTERNAL"), refuse>>)
        BY <3>2 DEF PamStartFails, Refusal
      <4> HIDE DEF hello, accept, refuse, error, status
      <4> QED
        BY <4>1
    <3>3. CASE PamAccepts
      <4>1. Send(<<accept>>)
        BY <3>3 DEF PamAccepts
      <4> HIDE DEF hello, accept, refuse, error, status
      <4> QED
        BY <4>1
    <3>4. CASE PamRefuses
      <4>1. Send(<<error("AUTHENTICATION"), refuse>>)
        BY <3>4 DEF PamRefuses, Refusal
      <4> HIDE DEF hello, accept, refuse, error, status
      <4> QED
        BY <4>1
    <3>5. CASE SessionOpens
      <4>1. Send(<<status(TRUE)>>)
        BY <3>5 DEF SessionOpens
      <4> HIDE DEF hello, accept, refuse, error, status
      <4> QED
        BY <4>1
    <3>6. CASE SessionFailsToOpen
      <4>1. PICK what : Send(<<error(what), status(FALSE)>>)
        BY <3>6, Zenon DEF SessionFailsToOpen
      <4> HIDE DEF hello, accept, refuse, error, status
      <4> QED
        BY <4>1
    <3> QED
      BY <1>6, <3>1, <3>2, <3>3, <3>4, <3>5, <3>6
  <2>3. a.type # "REQUEST" /\ b.type # "REQUEST" /\ c.type # "REQUEST"
    BY <2>2
  <2> HIDE DEF hello, accept, refuse, error, status
  <2>4. /\ RequestsFit(<<a>>, n) /\ RequestsFit(<<a, b>>, n) /\ RequestsFit(<<a, b, c>>, n)
        /\ <<a>> \in Seq({a, b, c}) /\ <<a, b>> \in Seq({a, b, c})
        /\ <<a, b, c>> \in Seq({a, b, c})
    BY <2>3 DEF RequestsFit
  <2>5. Send(<<a>>) \/ Send(<<a, b>>) \/ Send(<<a, b, c>>)
    BY <2>2, JoinThree
  <2>6. Rest
    BY <1>3, <2>1
  <2> HIDE DEF Rest
  <2> QED
    BY <1>5, <2>4, <2>5, <2>6
<1>7. CASE PamAsks
  <2>1. PICK m \in PamMessages :
          LET asked == InsertPrompt(helper.data, m) IN
            /\ helper' = [helper EXCEPT !.pc = "waitRequest", !.data = asked,
                             !.msg = m, !.given = NoResponse, !.msgs = @ + 1,
                             !.request = count.requests + 1]
            /\ Send(<<[type |-> "REQUEST", id |-> count.requests + 1,
                       prompts |-> asked.prompts]>>)
    BY <1>7, Zenon DEF PamAsks
  <2> DEFINE asked == InsertPrompt(helper.data, m)
             call == [type |-> "REQUEST", id |-> count.requests + 1,
                       prompts |-> asked.prompts]
  <2>2. AllFit(asked.prompts, n)
    BY <1>1, <1>3, InsertPromptFits
  <2>3. helper'.data = asked /\ helper'.msg = m
    BY <1>1, <2>1 DEF Helpers
  <2>4. down' = down
    BY <1>7 DEF PamAsks
  <2>5. Send(<<call>>) /\ call.prompts = asked.prompts
    BY <2>1
  <2> HIDE DEF asked, call
  <2>6. <<call>> \in Seq({call}) /\ RequestsFit(<<call>>, n)
    BY <2>2, <2>5 DEF RequestsFit
  <2>7. Rest
    BY <2>2, <2>3, <2>4
  <2> HIDE DEF Rest
  <2> QED
    BY <1>5, <2>5, <2>6, <2>7
<1>8. CASE PamAsksAgain
  <2>1. PICK m \in PamMessages :
          LET known == InsertPrompt(helper.data, m) IN
          helper' = [helper EXCEPT !.msgs = @ + 1, !.msg = m,
                       !.data = AfterResponse(known, m),
                       !.given = ResponseTo(known, m)]
    BY <1>8, Zenon DEF PamAsksAgain
  <2>2. helper'.data = AfterResponse(InsertPrompt(helper.data, m), m)
        /\ helper'.pc = helper.pc
    BY <1>1, <2>1 DEF Helpers
  <2>3. m \in Messages
    BY ConstantsAssumption
  <2>4. /\ InsertPrompt(helper.data, m) \in PamDatas
        /\ AllFit(InsertPrompt(helper.data, m).prompts, n)
    BY <1>1, <1>3, <2>3, InsertPromptFits, InsertPromptType
  <2>5. AllFit(helper'.data.prompts, n)
    BY <2>2, <2>4, AfterResponseFits
  <2>6. up' = up /\ down' = down /\ helper.pc = "pam"
    BY <1>8 DEF PamAsksAgain, HelperSteps
  <2> QED
    BY <1>4, <2>2, <2>5, <2>6
<1>9. CASE PamTells
  <2>1. PICK m, told : m \in PamMessages /\ told \in {helper.data, HandleInfo(helper.data, m)} /\
          helper' = [helper EXCEPT !.msgs = @ + 1, !.msg = m,
                       !.data = AfterResponse(told, m), !.given = ResponseTo(told, m)]
    <3>1. PICK m \in PamMessages :
            \/ helper' = [helper EXCEPT !.msgs = @ + 1, !.msg = m,
                            !.data = AfterResponse(helper.data, m),
                            !.given = ResponseTo(helper.data, m)]
            \/ helper' = [helper EXCEPT !.msgs = @ + 1, !.msg = m,
                            !.data = AfterResponse(HandleInfo(helper.data, m), m),
                            !.given = ResponseTo(HandleInfo(helper.data, m), m)]
      BY <1>9 DEF PamTells
    <3> QED
      BY <3>1, Zenon
  <2>2. helper'.data = AfterResponse(told, m) /\ helper'.pc = helper.pc
    BY <1>1, <2>1 DEF Helpers
  <2>3. m \in Messages
    BY <2>1, ConstantsAssumption
  <2>4. told \in PamDatas /\ AllFit(told.prompts, n)
    BY <1>1, <1>3, <2>1, <2>3, HandleInfoType, HandleInfoFits
  <2>5. AllFit(helper'.data.prompts, n)
    BY <2>2, <2>4, AfterResponseFits
  <2> DEFINE e == [type |-> "ERROR", error |-> "AUTHENTICATION"]
  <2>6. /\ down' = down /\ helper.pc = "pam"
        /\ up' = up \/ Send(<<e>>)
        /\ e.type # "REQUEST"
    BY <1>9 DEF PamTells, HelperSteps
  <2> HIDE DEF e
  <2>7. <<e>> \in Seq({e}) /\ RequestsFit(<<e>>, n)
    BY <2>6 DEF RequestsFit
  <2>8. Rest
    BY <2>2, <2>5, <2>6
  <2> HIDE DEF Rest
  <2> QED
    BY <1>4, <1>5, <2>6, <2>7, <2>8
<1>10. CASE ReceiveAnswers
  <2>1. down # <<>> /\ down' = Tail(down) /\ up' = up
    BY <1>10 DEF ReceiveAnswers
  <2>2. AllFit(helper'.data.prompts, n) /\ helper'.pc = "pam"
    <3>1. CASE Head(down).type = "REQUEST" /\ Head(down).prompts # <<>>
      <4> DEFINE data == CompleteRequest(helper.data, Head(down).prompts)
      <4>1. helper' = [helper EXCEPT !.pc = "pam",
                         !.data = AfterResponse(data, helper.msg),
                         !.given = ResponseTo(data, helper.msg)]
        BY <1>10, <3>1 DEF ReceiveAnswers
      <4>2. Head(down) = down[1] /\ 1 \in 1 .. Len(down) /\ Head(down) \in DownMessageTypes
        BY <1>1, <2>1
      <4>3. AllFit(Head(down).prompts, n)
        BY <1>3, <3>1, <4>2 DEF RequestsFit
      <4>4. Head(down).prompts \in Seq(Prompts)
        BY <3>1, <4>2 DEF DownMessageTypes
      <4>5. AllFit(data.prompts, n) /\ data \in PamDatas
        BY <1>1, <1>3, <4>3, <4>4, CompleteRequestFits, CompleteRequestType
      <4> HIDE DEF data
      <4>6. helper'.data = AfterResponse(data, helper.msg) /\ helper'.pc = "pam"
        BY <1>1, <4>1 DEF Helpers
      <4> QED
        BY <4>5, <4>6, AfterResponseFits
    <3>2. CASE ~(Head(down).type = "REQUEST" /\ Head(down).prompts # <<>>)
      <4>1. helper' = [helper EXCEPT !.pc = "pam"]
        BY <1>10, <3>2 DEF ReceiveAnswers
      <4>2. helper'.data = helper.data /\ helper'.pc = "pam"
        BY <1>1, <4>1 DEF Helpers
      <4> QED
        BY <1>3, <4>2
    <3> QED
      BY <3>1, <3>2
  <2> QED
    BY <1>4, <2>1, <2>2
<1>11. CASE ReceiveEnvironment \/ ReceiveStatusAck \/ HelperExits \/ SessionEnds \/ HelperCrash
  <2>1. helper'.data = helper.data /\ helper'.pc # "waitRequest"
    BY <1>1, <1>11 DEF ReceiveEnvironment, ReceiveStatusAck, HelperExits, SessionEnds,
       HelperCrash, Exit, Helpers
  <2>2. up' = up /\ (down' = down \/ (down # <<>> /\ down' = Tail(down)))
    BY <1>11 DEF ReceiveEnvironment, ReceiveStatusAck, HelperExits, SessionEnds, HelperCrash
  <2> QED
    BY <1>3, <1>4, <2>1, <2>2
<1> QED
  BY <1>6, <1>7, <1>8, <1>9, <1>10, <1>11 DEF HelperWorks

\* AnswersAreOfLogin is inductive.
LEMMA AnswersAreOfLoginStep ==
  ASSUME TypeOK, NothingWithoutDisplay, LoginsInOrder, InPhase, HellosComeFirst',
         CallsByStage, AnswersAreOfLogin, [Next]_vars
  PROVE  AnswersAreOfLogin'
<1>1. display \in Displays
  BY HelperFacts
<1>2. CASE HelperWorks \/ SessionEnds \/ HelperCrash
  BY <1>2, AnswersOfHelper
<1>3. CASE NewDisplayWithAutologin \/ LoginStarted
  BY <1>3, AnswersAtStart
<1>4. CASE StopDisplay \/ ReapRefusedHelper
  BY <1>4, AnswersAtEnd
<1>5. CASE DaemonHearsHelper /\ ~ReapHelper /\ ~ReapRefusedHelper
  BY <1>5, AnswersRead
<1>6. CASE PromptResponseTaken
  BY <1>6, AnswersTyped
<1>7. CASE NewDisplayWithGreeter
  <2>1. /\ helper' = helper /\ up' = up /\ down' = down /\ auth' = auth
        /\ display'.pending = 0 /\ helper.pc = "off" /\ display.pending = 0
    BY <1>7 DEF NewDisplayWithGreeter, NothingWithoutDisplay, NoDisplay, InPhase
  <2> QED
    BY <2>1, AnswersStay DEF Active
<1>8. CASE UserSteps \/ GreeterSteps \/ GreeterCrash \/ GreeterStopTimer
  <2>1. /\ helper' = helper /\ up' = up /\ down' = down /\ auth' = auth
        /\ display'.pending = display.pending /\ display'.pass = display.pass
    BY <1>1, <1>8 DEF UserSteps, SubmitLogin, AnswerPrompt, GreeterSteps,
       ReadLoginSucceeded, ReadLoginFailed, ReadPromptRequest, GreeterReads, GreeterCrash,
       GreeterStopTimer, Displays
  <2> QED
    BY <2>1, AnswersStay
<1>9. CASE LoginAsSddm \/ LoginNotStarted \/ PromptResponseIgnored \/ GreeterDisconnected
  <2>1. /\ helper' = helper /\ up' = up /\ down' = down /\ auth' = auth
        /\ display'.pending = display.pending /\ (Active => display'.pass = display.pass)
    BY <1>1, <1>9 DEF LoginAsSddm, LoginNotStarted, PromptResponseIgnored,
       GreeterDisconnected, Displays
  <2> QED
    BY <2>1, AnswersStay
<1>10. CASE UNCHANGED vars
  BY <1>10, AnswersStay DEF vars
<1> QED
  BY <1>2, <1>3, <1>4, <1>5, <1>6, <1>7, <1>8, <1>9, <1>10 DEF Next, SeatSteps,
     DaemonHearsGreeter, DaemonHearsHelper, ReapHelper

\* All answers held or on their way are those of the login they belong to.
LEMMA AnswersInvariant == Spec => []AnswersAreOfLogin
<1>1. Init => AnswersAreOfLogin
  <2>1. NoHelper.pc = "off" /\ NoHelper.data.prompts = <<>> /\ NoDisplay.pending = 0
    BY DEF NoHelper, NewPamData, NoDisplay
  <2>2. \A n : AllFit(<<>>, n) /\ RequestsFit(<<>>, n)
    BY DEF AllFit, RequestsFit
  <2> QED
    BY <2>1, <2>2 DEF Init, AnswersAreOfLogin
<1>2. ServiceInv /\ ServiceInv' /\ AnswersAreOfLogin /\ [Next]_vars => AnswersAreOfLogin'
  BY AnswersAreOfLoginStep DEF ServiceInv, IInv
<1> QED
  BY <1>1, <1>2, ServiceInvariant, PTL DEF Spec

\* PAM never gets the name or the password of a login other than the one its
\* helper was started for, whatever the greeter sends meanwhile
\* (Display::startAuth, slotRequestChanged).
THEOREM AnswersKeepToTheirLogin == Spec => []OneIdentity
<1>1. TypeOK /\ AnswersAreOfLogin => OneIdentity
  <2> SUFFICES ASSUME TypeOK, AnswersAreOfLogin,
                      NEW i \in DOMAIN down, down[i].type = "REQUEST",
                      NEW j \in DOMAIN down[i].prompts,
                      down[i].prompts[j].resp.kind \in {"user", "password"}
               PROVE  down[i].prompts[j].resp.of \in {helper.login, 0}
    BY Zenon DEF OneIdentity
  <2>1. i \in 1 .. Len(down) /\ down[i] \in DownMessageTypes
    BY DEF TypeOK
  <2>2. AllFit(down[i].prompts, helper.login)
    BY <2>1 DEF AnswersAreOfLogin, RequestsFit
  <2>3. down[i].prompts \in Seq(Prompts)
    BY <2>1 DEF DownMessageTypes
  <2>4. Fits(down[i].prompts[j], helper.login)
    BY <2>2, <2>3 DEF AllFit
  <2> QED
    BY <2>4 DEF Fits
<1> QED
  BY <1>1, AnswersInvariant, TypeCorrect, PTL

-----------------------------------------------------------------------------
(* Answers fit the questions *)

\* No question that the backend cannot tell is worded like one that counts as
\* a question for the user's name.
NoAmbiguousText ==
  \A m \in PamMessages : DetectPrompt(m) = "UNKNOWN" => m.text \notin EchoTexts

\* What getResponse returns is of the kind that was asked for.
LEMMA ResponseFits ==
  ASSUME NoAmbiguousText, NEW n, NEW d \in PamDatas, AllFit(d.prompts, n),
         NEW m \in PamMessages
  PROVE  /\ ResponseTo(d, m).kind = "password" => DetectPrompt(m) = "LOGIN_PASSWORD"
         /\ ResponseTo(d, m).kind = "user" => DetectPrompt(m) = "LOGIN_USER"
         /\ ResponseTo(d, m).kind = "typed" =>
              DetectPrompt(m) \notin {"LOGIN_USER", "LOGIN_PASSWORD"}
<1> DEFINE i == FindPrompt(d, m)
           p == d.prompts[i]
<1>1. i \in 0 .. Len(d.prompts) /\ d.prompts \in Seq(Prompts) /\ m \in Messages
  BY FindPromptInRange, ConstantsAssumption DEF PamDatas
<1>2. CASE i = 0
  BY <1>2 DEF ResponseTo, NoResponse
<1>3. CASE i # 0
  <2>1. ResponseTo(d, m) = p.resp /\ Matches(p, m) /\ p \in Prompts /\ Fits(p, n)
    BY <1>1, <1>3, FindPromptInRange DEF ResponseTo, AllFit
  <2>2. DetectPrompt(m) = "UNKNOWN" /\ p.text = m.text =>
          p.type # "LOGIN_PASSWORD" /\ p.type # "LOGIN_USER"
    <3>1. DetectPrompt(m) = "UNKNOWN" => "password" \notin Words[m.text]
      BY <1>1 DEF DetectPrompt
    <3> HIDE DEF p
    <3> QED
      BY <2>1, <3>1 DEF Fits, NoAmbiguousText
  <2> HIDE DEF p
  <2> QED
    BY <2>1, <2>2 DEF Matches, Fits
<1> QED
  BY <1>2, <1>3

\* What the helper was given last fits what it was last asked.
LEMMA GivenStep ==
  ASSUME NoAmbiguousText, TypeOK, LoginsInOrder, AnswersAreOfLogin, AnswersFitQuestions,
         [Next]_vars
  PROVE  AnswersFitQuestions'
<1> DEFINE n == helper.login
<1>1. /\ helper \in Helpers /\ helper.data \in PamDatas /\ AllFit(helper.data.prompts, n)
      /\ down \in Seq(DownMessageTypes) /\ RequestsFit(down, n)
  BY HelperFacts DEF Helpers, AnswersAreOfLogin
<1>2. ASSUME helper'.given.kind = "empty"
      PROVE  AnswersFitQuestions'
  BY <1>2 DEF AnswersFitQuestions
<1>3. ASSUME helper'.given = helper.given, helper'.msg = helper.msg
      PROVE  AnswersFitQuestions'
  BY <1>3 DEF AnswersFitQuestions
<1>4. ASSUME NEW d \in PamDatas, AllFit(d.prompts, n), NEW m \in PamMessages,
             helper'.given = ResponseTo(d, m), helper'.msg = m
      PROVE  AnswersFitQuestions'
  BY <1>4, ResponseFits DEF AnswersFitQuestions
<1>5. CASE PamAsks
  <2>1. PICK m, data :
          helper' = [helper EXCEPT !.pc = "waitRequest", !.data = data,
                       !.msg = m, !.given = NoResponse, !.msgs = @ + 1,
                       !.request = count.requests + 1]
    BY <1>5, Zenon DEF PamAsks
  <2>2. helper'.given.kind = "empty"
    BY <1>1, <2>1 DEF Helpers, NoResponse
  <2> QED
    BY <1>2, <2>2
<1>6. CASE PamAsksAgain
  <2>1. PICK m \in PamMessages :
          helper' = [helper EXCEPT !.msgs = @ + 1, !.msg = m,
                       !.data = AfterResponse(InsertPrompt(helper.data, m), m),
                       !.given = ResponseTo(InsertPrompt(helper.data, m), m)]
    BY <1>6, Zenon DEF PamAsksAgain
  <2>2. /\ InsertPrompt(helper.data, m) \in PamDatas
        /\ AllFit(InsertPrompt(helper.data, m).prompts, n)
    BY <1>1, ConstantsAssumption, InsertPromptFits, InsertPromptType
  <2>3. /\ helper'.given = ResponseTo(InsertPrompt(helper.data, m), m)
        /\ helper'.msg = m
    BY <1>1, <2>1 DEF Helpers
  <2> QED
    BY <1>4, <2>2, <2>3
<1>7. CASE PamTells
  <2>1. PICK m \in PamMessages :
          \/ helper' = [helper EXCEPT !.msgs = @ + 1, !.msg = m,
                          !.data = AfterResponse(helper.data, m),
                          !.given = ResponseTo(helper.data, m)]
          \/ helper' = [helper EXCEPT !.msgs = @ + 1, !.msg = m,
                          !.data = AfterResponse(HandleInfo(helper.data, m), m),
                          !.given = ResponseTo(HandleInfo(helper.data, m), m)]
    BY <1>7 DEF PamTells
  <2>2. /\ HandleInfo(helper.data, m) \in PamDatas
        /\ AllFit(HandleInfo(helper.data, m).prompts, n)
    BY <1>1, ConstantsAssumption, HandleInfoFits, HandleInfoType
  <2>3. /\ helper'.msg = m
        /\ \/ helper'.given = ResponseTo(helper.data, m)
           \/ helper'.given = ResponseTo(HandleInfo(helper.data, m), m)
    BY <1>1, <2>1 DEF Helpers
  <2> QED
    BY <1>1, <1>4, <2>2, <2>3
<1>8. CASE ReceiveAnswers
  <2>1. down # <<>> /\ helper.msg \in PamMessages
    BY <1>8 DEF ReceiveAnswers, HelperSteps, AnswersAreOfLogin
  <2>2. CASE Head(down).type = "REQUEST" /\ Head(down).prompts # <<>>
    <3> DEFINE data == CompleteRequest(helper.data, Head(down).prompts)
    <3>1. helper' = [helper EXCEPT !.pc = "pam",
                       !.data = AfterResponse(data, helper.msg),
                       !.given = ResponseTo(data, helper.msg)]
      BY <1>8, <2>2 DEF ReceiveAnswers
    <3>2. Head(down) = down[1] /\ 1 \in 1 .. Len(down) /\ Head(down) \in DownMessageTypes
      BY <1>1, <2>1
    <3>3. AllFit(Head(down).prompts, n)
      BY <1>1, <2>2, <3>2 DEF RequestsFit
    <3>4. Head(down).prompts \in Seq(Prompts)
      BY <2>2, <3>2 DEF DownMessageTypes
    <3>5. AllFit(data.prompts, n) /\ data \in PamDatas
      BY <1>1, <3>3, <3>4, CompleteRequestFits, CompleteRequestType
    <3> HIDE DEF data
    <3>6. helper'.given = ResponseTo(data, helper.msg) /\ helper'.msg = helper.msg
      BY <1>1, <3>1 DEF Helpers
    <3> QED
      BY <1>4, <2>1, <3>5, <3>6
  <2>3. CASE ~(Head(down).type = "REQUEST" /\ Head(down).prompts # <<>>)
    <3>1. helper' = [helper EXCEPT !.pc = "pam"]
      BY <1>8, <2>3 DEF ReceiveAnswers
    <3>2. helper'.given = helper.given /\ helper'.msg = helper.msg
      BY <1>1, <3>1 DEF Helpers
    <3> QED
      BY <1>3, <3>2
  <2> QED
    BY <2>2, <2>3
<1>9. CASE \/ HelperHello \/ PamStartFails \/ PamAccepts \/ PamRefuses
           \/ SessionOpens \/ SessionFailsToOpen \/ HelperExits
  <2>1. helper'.given = helper.given /\ helper'.msg = helper.msg
    BY <1>1, <1>9 DEF HelperHello, PamStartFails, PamAccepts, PamRefuses, SessionOpens,
       SessionFailsToOpen, HelperExits, Exit, Helpers
  <2> QED
    BY <1>3, <2>1
<1>10. CASE ReceiveEnvironment \/ ReceiveStatusAck \/ SessionEnds \/ HelperCrash
  <2>1. helper'.given = helper.given /\ helper'.msg = helper.msg
    BY <1>1, <1>10 DEF ReceiveEnvironment, ReceiveStatusAck, SessionEnds, HelperCrash,
       Exit, Helpers
  <2> QED
    BY <1>3, <2>1
<1>11. CASE helper' = helper
  BY <1>3, <1>11
<1>12. CASE helper' = NoHelper
  BY <1>2, <1>12 DEF NoHelper, NoResponse
<1>13. ASSUME NEW k, NEW path, NEW autologin,
             helper' = [NoHelper EXCEPT !.pc = "starting", !.login = k,
                                        !.autologin = autologin, !.path = path]
      PROVE  AnswersFitQuestions'
  <2>1. helper'.given.kind = "empty"
    BY <1>13 DEF NoHelper, NoResponse
  <2> QED
    BY <1>2, <2>1
<1> QED
  BY <1>5, <1>6, <1>7, <1>8, <1>9, <1>10, <1>11, <1>12, <1>13, HelperReplaced DEF HelperWorks

\* PAM gets the password only where it asked for the password, the name only
\* where its question counts as one for the name, and what was typed for the
\* rest, in whatever order it asks; provided its modules do not word a
\* question without echo like one with echo (PamData::findPrompt compares the
\* texts of prompts whose type it does not know).
THEOREM AnswersGoWithQuestions ==
  ASSUME NoAmbiguousText
  PROVE  Spec => []AnswersFitQuestions
<1>1. Init => AnswersFitQuestions
  BY DEF Init, AnswersFitQuestions, NoHelper, NoResponse
<1>2. IInv /\ AnswersAreOfLogin /\ AnswersFitQuestions /\ [Next]_vars => AnswersFitQuestions'
  BY GivenStep DEF IInv
<1> QED
  BY <1>1, <1>2, InvariantHolds, AnswersInvariant, PTL DEF Spec
=============================================================================
