--------------------------- MODULE PamConversation ---------------------------
(***************************************************************************)
(* The request that sddm-helper's PAM backend (class PamData in            *)
(* helper/backend/PamBackend.cpp) builds out of the messages a PAM module  *)
(* sends, as pure operators on a record [prompts, sent]: `prompts' is      *)
(* m_currentRequest and `sent' is m_sent.                                  *)
(*                                                                         *)
(* A PAM message is [style, text].  What the regular expressions of        *)
(* detectPrompt see in a text is the set Words[text].                      *)
(*                                                                         *)
(* Only one-message conversations are modelled (n = 1 in converse), which  *)
(* is how pam_prompt() calls it; `predict' is therefore always true.       *)
(***************************************************************************)
EXTENDS Integers, SequencesExt

CONSTANTS
  Texts,    \* the message texts PAM modules may use
  Words     \* Words[text]: which of TextWords the text contains

TextWords == {"password", "again", "new", "old", "changing"}

\* The texts the backend itself puts in the requests it predicts.
PredictedTexts ==
  {"login:", "Password: ", "(current) UNIX password: ", "New password: ",
   "Retype new password: "}

ASSUME TextsAssumption ==
  /\ PredictedTexts \subseteq Texts
  /\ Words \in [Texts -> SUBSET TextWords]
  /\ "password" \in Words["Password: "]

Styles == {"ECHO_OFF", "ECHO_ON", "ERROR_MSG", "TEXT_INFO"}

PromptTypes == {"LOGIN_USER", "LOGIN_PASSWORD", "CHANGE_CURRENT",
                "CHANGE_NEW", "CHANGE_REPEAT", "UNKNOWN"}

\* A response is where its text comes from: the daemon's record of the user
\* or password of login `of', or what was typed for request `of'.
Responses == [kind : {"user", "password", "typed"}, of : Nat]
               \cup {[kind |-> "empty", of |-> 0]}
NoResponse == [kind |-> "empty", of |-> 0]

Messages == [style : Styles, text : Texts]
Prompts  == [type : PromptTypes, text : Texts, resp : Responses]
PamDatas == [prompts : Seq(Prompts), sent : BOOLEAN]

NewPamData == [prompts |-> <<>>, sent |-> FALSE]

Prompt(type, text) == [type |-> type, text |-> text, resp |-> NoResponse]

-----------------------------------------------------------------------------
LoginRequest == <<Prompt("LOGIN_USER", "login:"),
                  Prompt("LOGIN_PASSWORD", "Password: ")>>
ChangePassNoOldRequest == <<Prompt("CHANGE_NEW", "New password: "),
                            Prompt("CHANGE_REPEAT", "Retype new password: ")>>
ChangePassRequest ==
  <<Prompt("CHANGE_CURRENT", "(current) UNIX password: ")>>
    \o ChangePassNoOldRequest

\* Every style but ECHO_OFF counts as a question for the user's name.
DetectPrompt(m) ==
  LET w == Words[m.text] IN
  CASE m.style # "ECHO_OFF"       -> "LOGIN_USER"
    [] m.style = "ECHO_OFF" /\ "password" \notin w -> "UNKNOWN"
    [] OTHER -> IF "again" \in w    THEN "CHANGE_REPEAT"
                ELSE IF "new" \in w THEN "CHANGE_NEW"
                ELSE IF "old" \in w THEN "CHANGE_CURRENT"
                ELSE "LOGIN_PASSWORD"

Matches(p, m) ==
  \/ DetectPrompt(m) = "UNKNOWN" /\ p.text = m.text
  \/ DetectPrompt(m) = p.type

\* Position of the first prompt that matches m, 0 for invalidPrompt.
FindPrompt(d, m) == SelectInSeq(d.prompts, LAMBDA p : Matches(p, m))

Predicted(d, m) ==
  CASE DetectPrompt(m) = "LOGIN_USER"     -> LoginRequest
    [] DetectPrompt(m) = "CHANGE_CURRENT" -> ChangePassRequest
    [] DetectPrompt(m) = "CHANGE_NEW"     -> ChangePassNoOldRequest
    [] OTHER -> Append(d.prompts, Prompt(DetectPrompt(m), m.text))

\* insertPrompt answers "must a request be sent?"; NewRequest is that answer
\* and InsertPrompt what becomes of the data.
NewRequest(d, m) == FindPrompt(d, m) = 0 \/ ~d.sent

InsertPrompt(d, m) ==
  LET i == FindPrompt(d, m)
      kept == IF d.sent /\ d.prompts # <<>> THEN NewPamData ELSE d
  IN  IF i = 0      THEN [kept EXCEPT !.prompts = Predicted(kept, m)]
      ELSE IF d.sent THEN d
      ELSE [d EXCEPT !.prompts[i].text = m.text]

\* "Changing password for ..." makes the backend predict the whole change.
HandleInfo(d, m) ==
  IF "changing" \in Words[m.text]
    THEN [d EXCEPT !.prompts = ChangePassRequest] ELSE d

\* Mutant of ResponseTo: the answers are taken in order.
NextResponse(d, m) == IF d.prompts = <<>> THEN NoResponse ELSE d.prompts[1].resp

\* getResponse: the answer to m, and the data without the prompt it answered.
ResponseTo(d, m) ==
  IF FindPrompt(d, m) = 0 THEN NoResponse ELSE d.prompts[FindPrompt(d, m)].resp

AfterResponse(d, m) ==
  LET i == FindPrompt(d, m)
      rest == IF i = 0 THEN d.prompts ELSE RemoveAt(d.prompts, i)
  IN  [prompts |-> rest, sent |-> d.sent /\ rest # <<>>]

\* completeRequest ignores an answer whose prompts differ from the request's.
SamePrompts(s, t) ==
  /\ Len(s) = Len(t)
  /\ \A i \in 1 .. Len(s) : s[i].type = t[i].type /\ s[i].text = t[i].text

CompleteRequest(d, answered) ==
  IF SamePrompts(answered, d.prompts)
    THEN [prompts |-> answered, sent |-> TRUE] ELSE d
=============================================================================
