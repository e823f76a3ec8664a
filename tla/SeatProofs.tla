------------------------------ MODULE SeatProofs ------------------------------
(***************************************************************************)
(* Proofs about the life cycle of a seat's displays: its type invariant,    *)
(* and that, however stops, failures and removals nest, a seat that is at   *)
(* rest has a display, never has more of them than were asked for, and      *)
(* Greeter::stop has a helper to stop, but for a report read too late.      *)
(*                                                                         *)
(* The argument is about the stack of calls.  All calls in progress are on  *)
(* one display, every call but the innermost is inside Display::stop or     *)
(* Seat::removeDisplay, and at most one of them is changing the list; the   *)
(* display it removes has its signals blocked for as long as it is there,   *)
(* so nothing started inside it can remove or replace the display again.    *)
(***************************************************************************)
EXTENDS SeatDisplay, FiniteSetTheorems, SequenceTheorems, TLAPS

\* The calls that are about to change the list of displays.
Changing(f) == f.at \in {"create", "remove", "removed"}
Stopping(f) == f.at \in {"stopGreeter", "stopAuth", "stopServer"}
Waits(f) == f.at \in {"stopAuth", "stopServer", "removed"}

\* A call that will create a display whatever the list looks like.
Owes(f) == f.at = "create" \/ (f.at = "removed" /\ f.what = "failed")

-----------------------------------------------------------------------------
(* The inductive invariant: of a stack of calls s, the displays dd and the  *)
(* set of those in the list, se.                                            *)

\* Calls nest only inside Display::stop and Seat::removeDisplay, and below
\* the creation of a display all are on one display, which still exists.
CallsNest(s, dd) ==
  /\ \A i \in 1 .. Len(s) : i # Len(s) => Waits(s[i])
  /\ \A i \in 1 .. Len(s), j \in 1 .. Len(s) :
       s[i].at # "create" /\ s[j].at # "create" => s[i].display = s[j].display
  /\ \A i \in 1 .. Len(s) : s[i].at # "create" => dd[s[i].display].use # "free"

\* At most one call changes the list, and it keeps the display's signals blocked.
ChangesOneByOne(s, dd) ==
  /\ \A i \in 1 .. Len(s), j \in 1 .. Len(s) : Changing(s[i]) /\ Changing(s[j]) => i = j
  /\ \A i \in 1 .. Len(s) : s[i].at = "removed" => dd[s[i].display].blocked

\* removeDisplay goes on only when the display is stopped, a display is
\* stopped only while it is in use, and one whose server failed is in the list.
RemovedAfterStop(s, dd, se) ==
  /\ \A i \in 1 .. Len(s) : s[i].at = "removed" =>
       \/ ~dd[s[i].display].started
       \/ \E j \in 1 .. Len(s) : j > i /\ Stopping(s[j])
  /\ \A i \in 1 .. Len(s) : s[i].at = "stopGreeter" => dd[s[i].display].started
  /\ \A i \in 1 .. Len(s) : s[i].at = "greeterStop" => dd[s[i].display].use = "alive"
  /\ \A i \in 1 .. Len(s) : s[i].at = "remove" /\ s[i].what = "failed"
                              => s[i].display \in se

Nested(s, dd, se) == CallsNest(s, dd) /\ ChangesOneByOne(s, dd) /\ RemovedAfterStop(s, dd, se)

\* The list holds the displays that are in use and not being removed.
ListedInUse(dd, se) ==
  \A d \in Displays : /\ d \in se <=> dd[d].use = "alive" /\ ~dd[d].blocked
                      /\ dd[d].started => dd[d].use = "alive"
                      /\ dd[d].use = "free" => dd[d] = NoDisplay

\* An empty list is about to be filled again, and there is room for the
\* display a call is about to create.
Balanced(s, se, a) ==
  /\ se = {} /\ a.exit = 0 => \E i \in 1 .. Len(s) : s[i].at \in {"create", "removed"}
  /\ Cardinality(se) <= 1 + a.switches
  /\ (\E i \in 1 .. Len(s) : Owes(s[i])) => Cardinality(se) <= a.switches

\* A retry is armed only while there are tries left.
TriesLeft == \A d \in Displays : disp[d].retry => disp[d].try < MaxTries

Core == Nested(stack, disp, seat) /\ ListedInUse(disp, seat) /\ Balanced(stack, seat, app)

Inv == TypeOK /\ Core /\ TriesLeft /\ GreeterStopIsSafe

-----------------------------------------------------------------------------
(* The records and the stack *)

\* The values of the fields of a Display object.
LEMMA FieldNames ==
  /\ {"free", "alive", "doomed"} = Uses
  /\ "x11" \in Types /\ "x11-user" \in Types
  /\ {"none", "starting", "running", "ended", "SESSION_ERROR", "DISPLAYSERVER_ERROR",
      "TTY_ERROR", "OTHER"} = Greeters
  /\ {"none", "auth", "refused", "session", "AUTH_ERROR", "OTHER"} = Helpers
  /\ 0 \in 0 .. MaxTries /\ 1 \in 0 .. MaxTries
BY SeatAssumption DEF Uses, Types, Greeters, Helpers, GreeterCodes, HelperCodes

\* A Display object has its type when it is created.
LEMMA NewDisplayTyped ==
  /\ NoDisplay \in DisplayRecords
  /\ \A type \in Types : NewDisplay(type) \in DisplayRecords
<1>1. NoDisplay \in DisplayRecords
  BY FieldNames DEF NoDisplay, DisplayRecords
<1>2. ASSUME NEW type \in Types PROVE NewDisplay(type) \in DisplayRecords
  BY FieldNames DEF NewDisplay, NoDisplay, DisplayRecords
<1>. QED BY <1>1, <1>2

\* What the frames on the stack may say.
LEMMA FrameTypes ==
  /\ CreateDefault \in Seq(Frames) /\ CreateFallback \in Seq(Frames) /\ <<>> \in Seq(Frames)
  /\ \A d \in Displays, at \in {"stopGreeter", "stopAuth", "stopServer", "greeterStop"} :
       Frame(at, d, "stop") \in Frames
  /\ \A d \in Displays, at \in {"remove", "removed"}, what \in {"stopped", "failed"} :
       Frame(at, d, what) \in Frames
  /\ \A f \in Frames : f = Frame(f.at, f.display, f.what)
  /\ \A f \in Frames : f.at # "create" => f.display \in Displays
BY DEF Frames, Frame, CreateDefault, CreateFallback

\* The innermost call returns.
LEMMA Returned ==
  ASSUME NEW s \in Seq(Frames), s # <<>>
  PROVE  LET t == SubSeq(s, 1, Len(s) - 1)
         IN  /\ t \in Seq(Frames) /\ Len(t) = Len(s) - 1
             /\ \A i \in 1 .. Len(t) : t[i] = s[i]
<1>1. Len(s) \in Nat \ {0}
  BY EmptySeq, LenProperties
<1>. DEFINE n == Len(s) - 1
<1>2. n \in Int /\ 1 \in Int /\ n \in Nat /\ Len(s) = n + 1
  BY <1>1
<1>3. \A i \in 1 .. n : s[i] \in Frames
  BY <1>1, ElementOfSeq
<1>. HIDE DEF n
<1>4. /\ SubSeq(s, 1, n) \in Seq(Frames)
      /\ Len(SubSeq(s, 1, n)) = IF 1 <= n THEN n - 1 + 1 ELSE 0
      /\ \A i \in 1 .. n - 1 + 1 : SubSeq(s, 1, n)[i] = s[1 + i - 1]
  BY <1>2, <1>3, SubSeqProperties
<1>5. /\ SubSeq(s, 1, n) \in Seq(Frames) /\ Len(SubSeq(s, 1, n)) = n
      /\ \A i \in 1 .. n : SubSeq(s, 1, n)[i] = s[i]
  BY <1>2, <1>4
<1>. QED BY <1>2, <1>5 DEF n

\* The innermost call is replaced by another one, or goes on.
LEMMA Replaced ==
  ASSUME NEW s \in Seq(Frames), s # <<>>, NEW f \in Frames
  PROVE  LET t == Append(SubSeq(s, 1, Len(s) - 1), f)
         IN  /\ t \in Seq(Frames) /\ Len(t) = Len(s)
             /\ \A i \in 1 .. Len(t) : t[i] = IF i = Len(s) THEN f ELSE s[i]
<1>1. Len(s) \in Nat \ {0}
  BY EmptySeq, LenProperties
<1>. DEFINE c == SubSeq(s, 1, Len(s) - 1)
<1>2. c \in Seq(Frames) /\ Len(c) = Len(s) - 1 /\ \A i \in 1 .. Len(c) : c[i] = s[i]
  BY Returned
<1>. HIDE DEF c
<1>3. /\ Append(c, f) \in Seq(Frames) /\ Len(Append(c, f)) = Len(s)
      /\ \A i \in 1 .. Len(s) : Append(c, f)[i] = IF i = Len(s) THEN f ELSE s[i]
  BY <1>1, <1>2, AppendProperties
<1>. QED BY <1>3 DEF c

\* A call is made.
LEMMA Called ==
  ASSUME NEW s \in Seq(Frames), NEW f \in Frames
  PROVE  LET t == s \o <<f>>
         IN  /\ t \in Seq(Frames) /\ Len(t) = Len(s) + 1
             /\ \A i \in 1 .. Len(t) : t[i] = IF i = Len(t) THEN f ELSE s[i]
OBVIOUS

\* No call is made.
LEMMA NotCalled == ASSUME NEW s \in Seq(Frames) PROVE s \o <<>> = s
OBVIOUS

-----------------------------------------------------------------------------
(* Type correctness *)

\* A call made on a stack of calls.
LEMMA MadeCall ==
  ASSUME NEW s \in Seq(Frames), NEW c \in Seq(Frames), NEW d \in Displays
  PROVE  /\ s \o Stop(d) \in Seq(Frames)
         /\ \A signal \in {"stopped", "failed"} : s \o Emit(d, signal) \in Seq(Frames)
         /\ s \o <<>> \in Seq(Frames)
         /\ s \o CreateDefault \in Seq(Frames) /\ s \o CreateFallback \in Seq(Frames)
<1>1. Stop(d) \in Seq(Frames)
  BY FrameTypes DEF Stop
<1>2. \A signal \in {"stopped", "failed"} : Emit(d, signal) \in Seq(Frames)
  BY FrameTypes DEF Emit
<1>. QED BY <1>1, <1>2, FrameTypes, ConcatProperties

\* The innermost call, and the stack without it or with it one step further.
LEMMA TopTyped ==
  ASSUME TypeOK, stack # <<>>
  PROVE  /\ Top \in Frames
         /\ Callers \in Seq(Frames)
         /\ Top.at \in {"stopGreeter", "stopAuth"} => GoTo("stopAuth") \in Seq(Frames)
                                                      /\ GoTo("stopServer") \in Seq(Frames)
         /\ Top.at = "remove" => GoTo("removed") \in Seq(Frames)
<1>1. Top \in Frames /\ Callers \in Seq(Frames)
  BY Returned, ElementOfSeq, EmptySeq, LenProperties DEF TypeOK, Top, Callers
<1>2. ASSUME Top.at \in {"stopGreeter", "stopAuth"}, NEW p \in {"stopAuth", "stopServer"}
      PROVE  [Top EXCEPT !.at = p] \in Frames
  BY <1>1, <1>2 DEF Frames
<1>3. ASSUME Top.at = "remove" PROVE [Top EXCEPT !.at = "removed"] \in Frames
  BY <1>1, <1>3 DEF Frames
<1>. QED BY <1>1, <1>2, <1>3, AppendProperties DEF GoTo

\* Setting fields of one display keeps the type of all.
LEMMA FieldsTyped ==
  ASSUME disp \in [Displays -> DisplayRecords], NEW d \in Displays
  PROVE  /\ \A v \in Greeters : [disp EXCEPT ![d].greeter = v] \in [Displays -> DisplayRecords]
         /\ \A v \in Helpers : [disp EXCEPT ![d].helper = v] \in [Displays -> DisplayRecords]
         /\ \A r \in DisplayRecords : [disp EXCEPT ![d] = r] \in [Displays -> DisplayRecords]
<1>1. \A v \in Greeters : [disp[d] EXCEPT !.greeter = v] \in DisplayRecords
  BY DEF DisplayRecords
<1>2. \A v \in Helpers : [disp[d] EXCEPT !.helper = v] \in DisplayRecords
  BY DEF DisplayRecords
<1>. QED BY <1>1, <1>2

\* onHelperFinished.
LEMMA GreeterReapedTyped ==
  ASSUME TypeOK, NEW d \in Displays, NEW code, NEW c \in Seq(Frames), GreeterReaped(d, code, c)
  PROVE  /\ disp' \in [Displays -> DisplayRecords]
         /\ stack' \in Seq(Frames)
         /\ app' \in AppRecords
<1>1. [disp[d] EXCEPT !.greeter = "ended", !.reported = FALSE] \in DisplayRecords
  <2>1. disp[d] \in DisplayRecords
    BY DEF TypeOK
  <2>. QED BY <2>1, FieldNames DEF DisplayRecords
<1>2. disp' \in [Displays -> DisplayRecords]
  BY <1>1 DEF GreeterReaped, TypeOK
<1>3. stack' \in Seq(Frames)
  BY MadeCall DEF GreeterReaped
<1>4. app' \in AppRecords
  <2>1. PICK n \in 0 .. TtyLimit + 1, e \in {0, 12, 23, Crashed} :
          app' = app \/ app' = [app EXCEPT !.ttyFailures = n, !.exit = e]
    <3>1. /\ (IF app.ttyFailures > TtyLimit THEN app.ttyFailures ELSE app.ttyFailures + 1)
               \in 0 .. TtyLimit + 1
          /\ (IF app.ttyFailures >= TtyLimit THEN 23 ELSE app.exit) \in {0, 12, 23, Crashed}
      BY SeatAssumption DEF TypeOK, AppRecords
    <3>. QED BY <3>1 DEF GreeterReaped
  <2>. QED BY <2>1 DEF TypeOK, AppRecords
<1>. QED BY <1>2, <1>3, <1>4

\* Greeter::stop.
LEMMA StopGreeterTyped ==
  ASSUME TypeOK, NEW d \in Displays, NEW c \in Seq(Frames), StopGreeter(d, c)
  PROVE  /\ disp' \in [Displays -> DisplayRecords]
         /\ stack' \in Seq(Frames)
         /\ app' \in AppRecords
<1>1. CASE ~disp[d].reported /\ stack' = c /\ UNCHANGED <<disp, app>>
  BY <1>1 DEF TypeOK
<1>2. CASE disp[d].reported
           /\ GreeterReaped(d, IF disp[d].greeter = "running" THEN "OTHER"
                                                              ELSE disp[d].greeter, c)
  BY <1>2, GreeterReapedTyped
<1>3. CASE /\ disp[d].reported /\ disp[d].greeter = "running"
           /\ disp' = [disp EXCEPT ![d].greeter = "OTHER"]
           /\ stack' = c /\ UNCHANGED app
  BY <1>3, FieldsTyped, FieldNames DEF TypeOK
<1>4. CASE app' = [app EXCEPT !.exit = Crashed] /\ stack' = <<>> /\ UNCHANGED disp
  BY <1>4, FrameTypes DEF TypeOK, AppRecords
<1>. QED BY <1>1, <1>2, <1>3, <1>4 DEF StopGreeter

\* Seat::startDisplay.
LEMMA StartDisplayTyped ==
  ASSUME TypeOK, NEW d \in Displays, NEW r \in DisplayRecords, NEW try \in 0 .. MaxTries,
         StartDisplay(d, r, try)
  PROVE  /\ disp' \in [Displays -> DisplayRecords]
         /\ app' \in AppRecords
<1>1. ServerUp(r) \in DisplayRecords
  BY DEF ServerUp, DisplayRecords
<1>2. WithGreeter(r) \in DisplayRecords /\ WithAutologin(r) \in DisplayRecords
  <2>. HIDE DEF ServerUp
  <2>. QED BY <1>1, FieldNames DEF WithGreeter, WithAutologin, DisplayRecords
<1>3. \A server \in {"none", "broken"} : StartFailed(r, server, try) \in DisplayRecords
  <2>1. \A server \in {"none", "broken"}, b \in BOOLEAN :
          [r EXCEPT !.server = server, !.try = try, !.retry = b] \in DisplayRecords
    BY DEF DisplayRecords
  <2>2. PICK b \in BOOLEAN : (try < MaxTries) = b
    <3>1. (try < MaxTries) \in BOOLEAN
      OBVIOUS
    <3>. QED BY <3>1, Zenon
  <2>3. \A server \in {"none", "broken"} :
          StartFailed(r, server, try) = [r EXCEPT !.server = server, !.try = try, !.retry = b]
    BY <2>2, Zenon DEF StartFailed
  <2>. QED BY <2>1, <2>3
<1>4. disp' \in [Displays -> DisplayRecords]
  <2>1. \E q \in DisplayRecords : disp' = [disp EXCEPT ![d] = q]
    BY <1>2, <1>3 DEF StartDisplay
  <2>. QED BY <2>1 DEF TypeOK
<1>5. app' \in AppRecords
  BY DEF StartDisplay, TypeOK, AppRecords
<1>. QED BY <1>4, <1>5

\* createDisplay starts a display of one of the types there are.
LEMMA CreatedType ==
  ASSUME TypeOK, CreateDisplay
  PROVE  \E d \in Displays, type \in Types :
           StartDisplay(d, NewDisplay(type), 1) /\ seat' = seat \cup {d}
<1>1. Top \in Frames /\ Top.at = "create"
  BY TopTyped DEF CreateDisplay, At
<1>2. Top.what = "default" \/ Top.what \in Types
  BY <1>1 DEF Frames, Types
<1>. QED BY <1>2, SeatAssumption DEF CreateDisplay

\* onSessionStarted sets m_started to what the report says; a set flag without
\* a helper is a late one.
LEMMA ReportRead ==
  ASSUME TypeOK, NEW d \in Displays, GreeterReports(d)
  PROVE  \E b \in BOOLEAN, l \in BOOLEAN, g \in Greeters :
           /\ disp' = [disp EXCEPT ![d].report = "none", ![d].reported = b, ![d].late = l,
                                   ![d].greeter = g]
           /\ b => g \notin {"none", "ended"} \/ l
<1>. DEFINE b == disp[d].report = "success"
            l == b /\ disp[d].greeter = "ended"
            g == CASE disp[d].greeter # "starting" -> disp[d].greeter
                   [] b -> "running" [] OTHER -> "SESSION_ERROR"
<1>1. disp' = [disp EXCEPT ![d].report = "none", ![d].reported = b, ![d].late = l,
                           ![d].greeter = g]
  BY DEF GreeterReports
<1>2. b \in BOOLEAN /\ l \in BOOLEAN
  OBVIOUS
<1>3. disp[d].greeter \in Greeters /\ disp[d].greeter # "none"
  BY DEF TypeOK, DisplayRecords, GreeterReports
<1>4. g \in Greeters
  BY <1>3, FieldNames
<1>5. b => g \notin {"none", "ended"} \/ l
  BY <1>3
<1>. HIDE DEF b, l, g
<1>. QED BY <1>1, <1>2, <1>4, <1>5

\* Every step keeps the types.
LEMMA TypeStep == TypeOK /\ TriesLeft /\ [Next]_vars => TypeOK'
<1> SUFFICES ASSUME TypeOK, TriesLeft, [Next]_vars PROVE TypeOK'
  OBVIOUS
<1>1. CASE UNCHANGED vars
  BY <1>1 DEF TypeOK, vars
<1>2. CASE CreateDisplay
  <2>1. Callers \in Seq(Frames)
    BY <1>2, TopTyped DEF CreateDisplay, At
  <2>2. PICK d \in Displays, type \in Types :
          StartDisplay(d, NewDisplay(type), 1) /\ seat' = seat \cup {d}
    BY <1>2, CreatedType
  <2>. QED BY <1>2, <2>1, <2>2, StartDisplayTyped, NewDisplayTyped, FieldNames
         DEF TypeOK, CreateDisplay
<1>3. CASE DisplayStopsGreeter
  <2>1. Top.display \in Displays /\ GoTo("stopAuth") \in Seq(Frames)
    BY <1>3, TopTyped, FrameTypes DEF DisplayStopsGreeter, At
  <2>. QED BY <1>3, <2>1, StopGreeterTyped DEF TypeOK, DisplayStopsGreeter
<1>4. CASE DisplayStopsAuth
  <2>1. Top.display \in Displays /\ GoTo("stopServer") \in Seq(Frames)
    BY <1>4, TopTyped, FrameTypes DEF DisplayStopsAuth, At
  <2>2. stack' \in Seq(Frames)
    BY <1>4, <2>1, MadeCall DEF DisplayStopsAuth, HelperReaped
  <2>3. disp' \in [Displays -> DisplayRecords]
    <3>1. \/ disp' = disp
          \/ \E v \in Helpers : disp' = [disp EXCEPT ![Top.display].helper = v]
      BY <1>4, FieldNames DEF DisplayStopsAuth, HelperReaped
    <3>2. disp \in [Displays -> DisplayRecords]
      BY DEF TypeOK
    <3>3. \A v \in Helpers : [disp EXCEPT ![Top.display].helper = v]
                               \in [Displays -> DisplayRecords]
      BY <2>1, <3>2, FieldsTyped
    <3>. QED BY <3>1, <3>2, <3>3
  <2>. QED BY <1>4, <2>2, <2>3 DEF TypeOK, DisplayStopsAuth
<1>5. CASE DisplayStopsServer
  <2>1. Top.display \in Displays /\ Callers \in Seq(Frames)
    BY <1>5, TopTyped, FrameTypes DEF DisplayStopsServer, At
  <2>2. \A s \in {"none", "broken", "up", "dead"} :
          [disp[Top.display] EXCEPT !.server = s, !.serverStarted = FALSE, !.started = FALSE]
            \in DisplayRecords
    <3>1. disp[Top.display] \in DisplayRecords
      BY <2>1 DEF TypeOK
    <3>. QED BY <3>1 DEF DisplayRecords
  <2>3. disp' \in [Displays -> DisplayRecords]
    <3>1. disp[Top.display].server \in {"none", "broken", "up", "dead"}
      BY <2>1 DEF TypeOK, DisplayRecords
    <3>2. PICK s \in {"none", "broken", "up", "dead"} :
            disp' = [disp EXCEPT ![Top.display].server = s,
                                 ![Top.display].serverStarted = FALSE,
                                 ![Top.display].started = FALSE]
      BY <1>5, <3>1 DEF DisplayStopsServer
    <3>. QED BY <2>1, <2>2, <3>2 DEF TypeOK
  <2>4. stack' \in Seq(Frames)
    BY <1>5, <2>1, MadeCall DEF DisplayStopsServer
  <2>. QED BY <1>5, <2>3, <2>4 DEF TypeOK, DisplayStopsServer
<1>6. CASE RemoveDisplay
  <2>1. Top.display \in Displays /\ GoTo("removed") \in Seq(Frames)
    BY <1>6, TopTyped, FrameTypes DEF RemoveDisplay, At
  <2>2. [disp[Top.display] EXCEPT !.blocked = TRUE] \in DisplayRecords
    <3>1. disp[Top.display] \in DisplayRecords
      BY <2>1 DEF TypeOK
    <3>. QED BY <3>1 DEF DisplayRecords
  <2>3. disp' \in [Displays -> DisplayRecords] /\ stack' \in Seq(Frames)
    BY <1>6, <2>1, <2>2, MadeCall DEF RemoveDisplay, TypeOK
  <2>. QED BY <1>6, <2>3 DEF TypeOK, RemoveDisplay
<1>7. CASE DisplayRemoved
  <2>1. Top.display \in Displays /\ Callers \in Seq(Frames)
    BY <1>7, TopTyped, FrameTypes DEF DisplayRemoved, At
  <2>2. [disp[Top.display] EXCEPT !.blocked = FALSE, !.use = "doomed"] \in DisplayRecords
    <3>1. disp[Top.display] \in DisplayRecords
      BY <2>1 DEF TypeOK
    <3>. QED BY <3>1, FieldNames DEF DisplayRecords
  <2>3. disp' \in [Displays -> DisplayRecords]
    BY <1>7, <2>1, <2>2 DEF DisplayRemoved, TypeOK
  <2>4. stack' \in Seq(Frames)
    BY <1>7, <2>1, MadeCall DEF DisplayRemoved
  <2>5. app' \in AppRecords
    BY <1>7 DEF DisplayRemoved, TypeOK, AppRecords
  <2>. QED BY <1>7, <2>3, <2>4, <2>5 DEF TypeOK, DisplayRemoved
<1>8. CASE GreeterStops
  <2>1. Top.display \in Displays /\ Callers \in Seq(Frames)
    BY <1>8, TopTyped, FrameTypes DEF GreeterStops, At
  <2>. QED BY <1>8, <2>1, StopGreeterTyped DEF TypeOK, GreeterStops
<1>9. CASE SwitchToGreeter
  <2>1. app.switches + 1 \in 0 .. MaxSwitches
    BY <1>9, SeatAssumption DEF SwitchToGreeter, TypeOK, AppRecords
  <2>2. app' \in AppRecords
    BY <1>9, <2>1 DEF SwitchToGreeter, TypeOK, AppRecords
  <2>. QED BY <1>9, <2>2, FrameTypes DEF SwitchToGreeter, TypeOK
<1>10. ASSUME NEW d \in Displays, RetryTimer(d) PROVE TypeOK'
  <2>1. disp[d] \in DisplayRecords /\ disp[d].try + 1 \in 0 .. MaxTries
    BY <1>10, SeatAssumption DEF TypeOK, RetryTimer, TriesLeft, DisplayRecords
  <2>. QED BY <1>10, <2>1, StartDisplayTyped DEF RetryTimer, TypeOK
<1>11. ASSUME NEW d \in Displays, ServerFinished(d) PROVE TypeOK'
  <2>1. [disp[d] EXCEPT !.server = "none", !.serverStarted = FALSE] \in DisplayRecords
    <3>1. disp[d] \in DisplayRecords
      BY DEF TypeOK
    <3>. QED BY <3>1 DEF DisplayRecords
  <2>2. Stop(d) \in Seq(Frames)
    BY FrameTypes DEF Stop
  <2>. QED BY <1>11, <2>1, <2>2 DEF ServerFinished, TypeOK
<1>12. ASSUME NEW d \in Displays, GreeterReports(d) PROVE TypeOK'
  <2>1. PICK b \in BOOLEAN, l \in BOOLEAN, g \in Greeters :
          disp' = [disp EXCEPT ![d].report = "none", ![d].reported = b, ![d].late = l,
                               ![d].greeter = g]
    BY <1>12, ReportRead
  <2>2. [disp[d] EXCEPT !.report = "none", !.reported = b, !.late = l, !.greeter = g]
          \in DisplayRecords
    <3>1. disp[d] \in DisplayRecords
      BY DEF TypeOK
    <3>. QED BY <3>1 DEF DisplayRecords
  <2>3. UNCHANGED <<seat, stack, app>>
    BY <1>12 DEF GreeterReports
  <2>. QED BY <2>1, <2>2, <2>3 DEF TypeOK
<1>13. ASSUME NEW d \in Displays, GreeterFinished(d) PROVE TypeOK'
  BY <1>13, GreeterReapedTyped, FrameTypes DEF GreeterFinished, TypeOK
<1>14. ASSUME NEW d \in Displays, HelperFinished(d) PROVE TypeOK'
  <2>1. stack' \in Seq(Frames)
    BY <1>14, MadeCall, FrameTypes DEF HelperFinished, HelperReaped
  <2>. QED BY <1>14, <2>1, FieldsTyped, FieldNames DEF HelperFinished, HelperReaped, TypeOK
<1>15. ASSUME NEW d \in Displays, GreeterStopTimer(d) PROVE TypeOK'
  <2>1. [disp[d] EXCEPT !.stopTimer = FALSE] \in DisplayRecords
    <3>1. disp[d] \in DisplayRecords
      BY DEF TypeOK
    <3>. QED BY <3>1 DEF DisplayRecords
  <2>. QED BY <1>15, <2>1, FrameTypes DEF GreeterStopTimer, TypeOK
<1>16. ASSUME NEW d \in Displays, LogsIn(d) PROVE TypeOK'
  BY <1>16, FieldsTyped, FieldNames DEF LogsIn, TypeOK
<1>17. ASSUME NEW d \in Displays, HelperRefused(d) PROVE TypeOK'
  <2>1. \A g \in Greeters :
          [disp[d] EXCEPT !.helper = "refused", !.autologin = FALSE, !.greeter = g]
            \in DisplayRecords
    <3>1. disp[d] \in DisplayRecords /\ "refused" \in Helpers
      BY FieldNames DEF TypeOK
    <3>. QED BY <3>1 DEF DisplayRecords
  <2>2. (IF disp[d].autologin THEN "starting" ELSE disp[d].greeter) \in Greeters
    BY FieldNames DEF TypeOK, DisplayRecords
  <2>3. PICK g \in Greeters : disp' = [disp EXCEPT ![d].helper = "refused",
                                                  ![d].autologin = FALSE, ![d].greeter = g]
    BY <1>17, <2>2 DEF HelperRefused
  <2>4. disp' \in [Displays -> DisplayRecords]
    BY <2>1, <2>3 DEF TypeOK
  <2>. QED BY <1>17, <2>4 DEF HelperRefused, TypeOK
<1>18. ASSUME NEW d \in Displays, SessionStarts(d) PROVE TypeOK'
  <2>1. [disp[d] EXCEPT !.helper = "session", !.stopTimer = TRUE] \in DisplayRecords
    <3>1. disp[d] \in DisplayRecords
      BY DEF TypeOK
    <3>. QED BY <3>1, FieldNames DEF DisplayRecords
  <2>. QED BY <1>18, <2>1 DEF SessionStarts, TypeOK
<1>19. ASSUME NEW d \in Displays, DestroyDisplay(d) PROVE TypeOK'
  BY <1>19, NewDisplayTyped DEF DestroyDisplay, TypeOK
<1>23. ASSUME NEW d \in Displays, DestroyGreeterAuth(d) PROVE TypeOK'
  <2>1. [disp[d] EXCEPT !.greeter = "none", !.report = "none"] \in DisplayRecords
    <3>1. disp[d] \in DisplayRecords
      BY DEF TypeOK
    <3>. QED BY <3>1, FieldNames DEF DisplayRecords
  <2>. QED BY <1>23, <2>1 DEF DestroyGreeterAuth, TypeOK
<1>24. ASSUME NEW d \in Displays, GreeterSendsReport(d) PROVE TypeOK'
  <2>1. \A v \in {"success", "failure"} : [disp[d] EXCEPT !.report = v] \in DisplayRecords
    <3>1. disp[d] \in DisplayRecords
      BY DEF TypeOK
    <3>. QED BY <3>1 DEF DisplayRecords
  <2>. QED BY <1>24, <2>1 DEF GreeterSendsReport, TypeOK
<1>20. ASSUME NEW d \in Displays, ServerDies(d) PROVE TypeOK'
  <2>1. [disp[d] EXCEPT !.server = "dead"] \in DisplayRecords
    <3>1. disp[d] \in DisplayRecords
      BY DEF TypeOK
    <3>. QED BY <3>1 DEF DisplayRecords
  <2>. QED BY <1>20, <2>1 DEF ServerDies, TypeOK
<1>21. ASSUME NEW d \in Displays, GreeterExits(d) PROVE TypeOK'
  <2>1. PICK code \in Greeters : disp' = [disp EXCEPT ![d].greeter = code]
    BY <1>21, FieldNames DEF GreeterExits, GreeterCodes
  <2>. QED BY <1>21, <2>1, FieldsTyped DEF GreeterExits, TypeOK
<1>22. ASSUME NEW d \in Displays, HelperExits(d) PROVE TypeOK'
  <2>1. PICK code \in Helpers : disp' = [disp EXCEPT ![d].helper = code]
    BY <1>22, FieldNames DEF HelperExits, HelperCodes
  <2>. QED BY <1>22, <2>1, FieldsTyped DEF HelperExits, TypeOK
<1>. QED
  BY <1>1, <1>2, <1>3, <1>4, <1>5, <1>6, <1>7, <1>8, <1>9, <1>10, <1>11, <1>12, <1>13, <1>14,
     <1>15, <1>16, <1>17, <1>18, <1>19, <1>20, <1>21, <1>22, <1>23, <1>24
     DEF Next, CallGoesOn, Served, FromUsers, Processes

-----------------------------------------------------------------------------
(* What the calls do to the stack *)

\* A call made from a stack whose calls all wait: Display::stop, Greeter::stop
\* or Seat::removeDisplay on the display they are on.
LEMMA CallNested ==
  ASSUME NEW s \in Seq(Frames), NEW dd, NEW se, NEW f \in Frames, Nested(s, dd, se),
         \A i \in 1 .. Len(s) : Waits(s[i]) /\ s[i].display = f.display,
         f.at \in {"stopGreeter", "greeterStop", "remove"}, dd[f.display].use # "free",
         f.at = "stopGreeter" => dd[f.display].started,
         f.at = "greeterStop" => dd[f.display].use = "alive",
         f.at = "remove" => ~dd[f.display].blocked,
         f.at = "remove" /\ f.what = "failed" => f.display \in se
  PROVE  Nested(s \o <<f>>, dd, se)
<1>. DEFINE t == s \o <<f>>
<1>1. /\ t \in Seq(Frames) /\ Len(t) = Len(s) + 1 /\ Len(s) \in Nat
      /\ \A i \in 1 .. Len(t) : t[i] = IF i = Len(t) THEN f ELSE s[i]
  BY Called, LenProperties
<1>. HIDE DEF t
<1>2. CallsNest(t, dd)
  BY <1>1 DEF Nested, CallsNest, Waits
<1>3. ChangesOneByOne(t, dd)
  BY <1>1 DEF Nested, ChangesOneByOne, Waits, Changing
<1>4. RemovedAfterStop(t, dd, se)
  BY <1>1 DEF Nested, RemovedAfterStop, Waits
<1>. QED BY <1>2, <1>3, <1>4 DEF Nested, t

\* A call to create a display, from a stack on which nothing else changes the list.
LEMMA CreateNested ==
  ASSUME NEW s \in Seq(Frames), NEW dd, NEW se, NEW f \in Frames, Nested(s, dd, se),
         \A i \in 1 .. Len(s) : Waits(s[i]) /\ ~Changing(s[i]), f.at = "create"
  PROVE  Nested(s \o <<f>>, dd, se)
<1>. DEFINE t == s \o <<f>>
<1>1. /\ t \in Seq(Frames) /\ Len(t) = Len(s) + 1 /\ Len(s) \in Nat
      /\ \A i \in 1 .. Len(t) : t[i] = IF i = Len(t) THEN f ELSE s[i]
  BY Called, LenProperties
<1>. HIDE DEF t
<1>2. CallsNest(t, dd)
  BY <1>1 DEF Nested, CallsNest, Waits
<1>3. ChangesOneByOne(t, dd)
  BY <1>1 DEF Nested, ChangesOneByOne, Waits, Changing
<1>4. RemovedAfterStop(t, dd, se)
  BY <1>1 DEF Nested, RemovedAfterStop, Waits, Changing
<1>. QED BY <1>2, <1>3, <1>4 DEF Nested, t

\* Display::stop goes on to its next part.
LEMMA StopGoesOn ==
  ASSUME NEW s \in Seq(Frames), NEW dd, NEW se, NEW f \in Frames, Nested(s, dd, se), s # <<>>,
         s[Len(s)].at \in {"stopGreeter", "stopAuth"}, f.at \in {"stopAuth", "stopServer"},
         f.display = s[Len(s)].display
  PROVE  LET t == Append(SubSeq(s, 1, Len(s) - 1), f)
         IN  /\ t \in Seq(Frames) /\ Nested(t, dd, se)
             /\ \A i \in 1 .. Len(t) : Waits(t[i]) /\ t[i].display = f.display
<1>. DEFINE t == Append(SubSeq(s, 1, Len(s) - 1), f)
<1>1. /\ t \in Seq(Frames) /\ Len(t) = Len(s) /\ Len(s) \in Nat \ {0}
      /\ \A i \in 1 .. Len(t) : t[i] = IF i = Len(s) THEN f ELSE s[i]
  BY Replaced, LenProperties, EmptySeq
<1>. HIDE DEF t
<1>2. /\ CallsNest(t, dd)
      /\ \A i \in 1 .. Len(t) : Waits(t[i]) /\ t[i].display = f.display
  BY <1>1 DEF Nested, CallsNest, Waits
<1>3. ChangesOneByOne(t, dd)
  BY <1>1 DEF Nested, ChangesOneByOne, Changing
<1>4. RemovedAfterStop(t, dd, se)
  BY <1>1 DEF Nested, RemovedAfterStop, Stopping
<1>. QED BY <1>1, <1>2, <1>3, <1>4 DEF Nested, t

\* The innermost call returns, and it was not the one that keeps a display
\* from being removed too early.
LEMMA ReturnNested ==
  ASSUME NEW s \in Seq(Frames), NEW dd, NEW se, Nested(s, dd, se), s # <<>>,
         ~Stopping(s[Len(s)])
  PROVE  LET t == SubSeq(s, 1, Len(s) - 1)
         IN  /\ t \in Seq(Frames) /\ Nested(t, dd, se)
             /\ \A i \in 1 .. Len(t) : Waits(t[i])
             /\ s[Len(s)].at # "create" =>
                  \A i \in 1 .. Len(t) : t[i].display = s[Len(s)].display
             /\ Changing(s[Len(s)]) => \A i \in 1 .. Len(t) : ~Changing(t[i])
<1>. DEFINE t == SubSeq(s, 1, Len(s) - 1)
<1>1. /\ t \in Seq(Frames) /\ Len(t) = Len(s) - 1 /\ Len(s) \in Nat \ {0}
      /\ \A i \in 1 .. Len(t) : t[i] = s[i]
  BY Returned, LenProperties, EmptySeq
<1>. HIDE DEF t
<1>2. /\ CallsNest(t, dd)
      /\ \A i \in 1 .. Len(t) : Waits(t[i])
      /\ s[Len(s)].at # "create" =>
           \A i \in 1 .. Len(t) : t[i].display = s[Len(s)].display
  BY <1>1 DEF Nested, CallsNest, Waits
<1>3. /\ ChangesOneByOne(t, dd)
      /\ Changing(s[Len(s)]) => \A i \in 1 .. Len(t) : ~Changing(t[i])
  BY <1>1 DEF Nested, ChangesOneByOne
<1>4. RemovedAfterStop(t, dd, se)
  <2>1. ASSUME NEW i \in 1 .. Len(t), t[i].at = "removed", dd[t[i].display].started
        PROVE  \E j \in 1 .. Len(t) : j > i /\ Stopping(t[j])
    <3>1. t[i] = s[i] /\ i \in 1 .. Len(s)
      BY <1>1
    <3>2. s[i].at = "removed" /\ dd[s[i].display].started
      BY <2>1, <3>1
    <3>3. PICK j \in 1 .. Len(s) : j > i /\ Stopping(s[j])
      BY <3>1, <3>2, Zenon DEF Nested, RemovedAfterStop
    <3>4. j \in 1 .. Len(t)
      BY <1>1, <3>3
    <3>. QED BY <1>1, <3>3, <3>4
  <2>. QED BY <1>1, <2>1 DEF Nested, RemovedAfterStop
<1>. QED BY <1>1, <1>2, <1>3, <1>4 DEF Nested, t

\* No calls are well nested.
LEMMA NothingNested == \A dd, se : Nested(<<>>, dd, se)
BY EmptySeq DEF Nested, CallsNest, ChangesOneByOne, RemovedAfterStop

\* What keeps the account of the list and of the calls that will fill it.
LEMMA BalancedKept ==
  ASSUME NEW s \in Seq(Frames), NEW t \in Seq(Frames), NEW se, NEW a, NEW b, Balanced(s, se, a),
         b.exit = 0 => a.exit = 0, b.switches = a.switches,
         \A i \in 1 .. Len(s) : s[i].at \in {"create", "removed"}
                                  => \E j \in 1 .. Len(t) : t[j].at \in {"create", "removed"},
         \A j \in 1 .. Len(t) : Owes(t[j]) => \E i \in 1 .. Len(s) : Owes(s[i])
  PROVE  Balanced(t, se, b)
BY DEF Balanced

\* A call made, one that goes on and one that returns keep that account,
\* unless it is the one that changes the list.
LEMMA BalancedCall ==
  ASSUME NEW s \in Seq(Frames), NEW se, NEW a, NEW b, NEW f \in Frames, Balanced(s, se, a),
         b.exit = 0 => a.exit = 0, b.switches = a.switches,
         f.at \in {"stopGreeter", "greeterStop", "remove"}
  PROVE  Balanced(s \o <<f>>, se, b)
<1>. DEFINE t == s \o <<f>>
<1>1. /\ t \in Seq(Frames) /\ Len(t) = Len(s) + 1 /\ Len(s) \in Nat
      /\ \A i \in 1 .. Len(t) : t[i] = IF i = Len(t) THEN f ELSE s[i]
  BY Called, LenProperties
<1>. HIDE DEF t
<1>2. \A i \in 1 .. Len(s) : i \in 1 .. Len(t) /\ t[i] = s[i]
  BY <1>1
<1>3. \A j \in 1 .. Len(t) : Owes(t[j]) => j \in 1 .. Len(s)
  BY <1>1 DEF Owes
<1>4. Balanced(t, se, b)
  BY <1>1, <1>2, <1>3, BalancedKept
<1>. QED BY <1>4 DEF t

\* A stop that goes on to its next part keeps the account.
LEMMA BalancedGoesOn ==
  ASSUME NEW s \in Seq(Frames), NEW se, NEW a, NEW b, NEW f \in Frames, Balanced(s, se, a),
         b.exit = 0 => a.exit = 0, b.switches = a.switches, s # <<>>,
         s[Len(s)].at \in {"stopGreeter", "stopAuth"}, f.at \in {"stopAuth", "stopServer"}
  PROVE  Balanced(Append(SubSeq(s, 1, Len(s) - 1), f), se, b)
<1>. DEFINE t == Append(SubSeq(s, 1, Len(s) - 1), f)
<1>1. /\ t \in Seq(Frames) /\ Len(t) = Len(s) /\ Len(s) \in Nat \ {0}
      /\ \A i \in 1 .. Len(t) : t[i] = IF i = Len(s) THEN f ELSE s[i]
  BY Replaced, LenProperties, EmptySeq
<1>. HIDE DEF t
<1>2. \A i \in 1 .. Len(s) : s[i].at \in {"create", "removed"} => i \in 1 .. Len(t) /\ t[i] = s[i]
  BY <1>1
<1>3. \A j \in 1 .. Len(t) : Owes(t[j]) => j \in 1 .. Len(s) /\ t[j] = s[j]
  BY <1>1 DEF Owes
<1>4. Balanced(t, se, b)
  BY <1>1, <1>2, <1>3, BalancedKept
<1>. QED BY <1>4 DEF t

\* A call that returns without owing a display keeps the account.
LEMMA BalancedReturn ==
  ASSUME NEW s \in Seq(Frames), NEW se, NEW a, NEW b, Balanced(s, se, a),
         b.exit = 0 => a.exit = 0, b.switches = a.switches, s # <<>>,
         s[Len(s)].at \notin {"create", "removed"}
  PROVE  Balanced(SubSeq(s, 1, Len(s) - 1), se, b)
<1>. DEFINE t == SubSeq(s, 1, Len(s) - 1)
<1>1. /\ t \in Seq(Frames) /\ Len(t) = Len(s) - 1 /\ Len(s) \in Nat \ {0}
      /\ \A i \in 1 .. Len(t) : t[i] = s[i]
  BY Returned, LenProperties, EmptySeq
<1>. HIDE DEF t
<1>2. \A i \in 1 .. Len(s) : s[i].at \in {"create", "removed"} => i \in 1 .. Len(t) /\ t[i] = s[i]
  BY <1>1
<1>3. \A j \in 1 .. Len(t) : j \in 1 .. Len(s) /\ t[j] = s[j]
  BY <1>1
<1>4. Balanced(t, se, b)
  BY <1>1, <1>2, <1>3, BalancedKept
<1>. QED BY <1>4 DEF t

\* The displays are used as before: what a process, a login or a retry
\* changes in a display does not concern the list.
SameUse(dd, de) ==
  \A d \in Displays : /\ de[d].use = dd[d].use /\ de[d].blocked = dd[d].blocked
                      /\ de[d].started = dd[d].started
                      /\ dd[d].use = "free" => de[d] = dd[d]

\* Calls stay nested and the list stays in use when the displays are used as
\* before.
LEMMA SameUseKept ==
  ASSUME NEW s \in Seq(Frames), NEW dd, NEW de, NEW se, SameUse(dd, de)
  PROVE  /\ Nested(s, dd, se) => Nested(s, de, se)
         /\ ListedInUse(dd, se) => ListedInUse(de, se)
<1>1. \A i \in 1 .. Len(s) : s[i].at # "create" => s[i].display \in Displays
  BY FrameTypes, ElementOfSeq
<1>2. ASSUME Nested(s, dd, se) PROVE Nested(s, de, se)
  <2>1. CallsNest(s, de)
    BY <1>1, <1>2 DEF Nested, CallsNest, SameUse
  <2>2. ChangesOneByOne(s, de)
    BY <1>1, <1>2 DEF Nested, ChangesOneByOne, SameUse
  <2>3. RemovedAfterStop(s, de, se)
    BY <1>1, <1>2 DEF Nested, RemovedAfterStop, SameUse
  <2>. QED BY <2>1, <2>2, <2>3 DEF Nested
<1>3. ASSUME ListedInUse(dd, se) PROVE ListedInUse(de, se)
  BY <1>3 DEF ListedInUse, SameUse
<1>. QED BY <1>2, <1>3

-----------------------------------------------------------------------------
(* The steps *)

\* What GreeterReaped and StopGreeter leave of the display, and of the daemon's counters.
LEMMA StopGreeterEffect ==
  ASSUME TypeOK, ListedInUse(disp, seat), NEW d \in Displays, disp[d].use # "free",
         NEW c \in Seq(Frames), NEW code, StopGreeter(d, c) \/ GreeterReaped(d, code, c)
  PROVE  /\ SameUse(disp, disp')
         /\ app'.exit = 0 => app.exit = 0
         /\ app'.switches = app.switches
         /\ \/ stack' = c
            \/ ~disp[d].blocked /\ stack' = c \o <<Frame("remove", d, "failed")>>
            \/ disp[d].started /\ stack' = c \o <<Frame("stopGreeter", d, "stop")>>
            \/ app'.exit = Crashed /\ stack' = <<>>
<1>1. c \o <<>> = c
  BY NotCalled
<1>2. ASSUME NEW e, GreeterReaped(d, e, c)
      PROVE  /\ SameUse(disp, disp')
             /\ app'.exit = 0 => app.exit = 0
             /\ app'.switches = app.switches
             /\ \/ stack' = c
                \/ ~disp[d].blocked /\ stack' = c \o <<Frame("remove", d, "failed")>>
                \/ disp[d].started /\ stack' = c \o <<Frame("stopGreeter", d, "stop")>>
  <2>1. SameUse(disp, disp')
    BY <1>2 DEF GreeterReaped, SameUse, TypeOK, DisplayRecords
  <2>2. (app'.exit = 0 => app.exit = 0) /\ app'.switches = app.switches
    BY <1>2 DEF GreeterReaped, TypeOK, AppRecords
  <2>3. \/ stack' = c
        \/ ~disp[d].blocked /\ stack' = c \o <<Frame("remove", d, "failed")>>
        \/ disp[d].started /\ stack' = c \o <<Frame("stopGreeter", d, "stop")>>
    BY <1>1, <1>2, Zenon DEF GreeterReaped, Emit, Stop
  <2>. QED BY <2>1, <2>2, <2>3
<1>3. CASE StopGreeter(d, c)
  <2>1. CASE ~disp[d].reported /\ stack' = c /\ UNCHANGED <<disp, app>>
    BY <2>1 DEF SameUse
  <2>2. CASE /\ disp[d].reported
             /\ GreeterReaped(d, IF disp[d].greeter = "running" THEN "OTHER"
                                                                ELSE disp[d].greeter, c)
    BY <2>2, <1>2
  <2>3. CASE /\ disp[d].reported /\ disp[d].greeter = "running"
             /\ disp' = [disp EXCEPT ![d].greeter = "OTHER"]
             /\ stack' = c /\ UNCHANGED app
    <3>1. SameUse(disp, disp')
      BY <2>3 DEF SameUse, TypeOK, DisplayRecords
    <3>. QED BY <2>3, <3>1
  <2>4. CASE app' = [app EXCEPT !.exit = Crashed] /\ stack' = <<>> /\ UNCHANGED disp
    <3>1. app'.exit = Crashed /\ app'.switches = app.switches
      BY <2>4 DEF TypeOK, AppRecords
    <3>. QED BY <2>4, <3>1 DEF SameUse, Crashed
  <2>. QED BY <1>3, <2>1, <2>2, <2>3, <2>4 DEF StopGreeter
<1>. QED BY <1>2, <1>3

\* Greeter::stop and onHelperFinished, called on a display in use from calls that wait.
LEMMA StopGreeterCore ==
  ASSUME TypeOK, ListedInUse(disp, seat), NEW d \in Displays, NEW c \in Seq(Frames), NEW code,
         StopGreeter(d, c) \/ GreeterReaped(d, code, c), seat' = seat,
         disp[d].use = "alive", Nested(c, disp, seat), Balanced(c, seat, app),
         \A i \in 1 .. Len(c) : Waits(c[i]) /\ c[i].display = d
  PROVE  Core'
<1>1. /\ SameUse(disp, disp')
      /\ app'.exit = 0 => app.exit = 0
      /\ app'.switches = app.switches
      /\ \/ stack' = c
         \/ ~disp[d].blocked /\ stack' = c \o <<Frame("remove", d, "failed")>>
         \/ disp[d].started /\ stack' = c \o <<Frame("stopGreeter", d, "stop")>>
         \/ app'.exit = Crashed /\ stack' = <<>>
  BY StopGreeterEffect
<1>2. /\ Frame("remove", d, "failed") \in Frames /\ Frame("stopGreeter", d, "stop") \in Frames
  BY FrameTypes
<1>3. Nested(stack', disp, seat) /\ Balanced(stack', seat, app') /\ stack' \in Seq(Frames)
  <2>1. CASE stack' = c
    BY <1>1, <2>1, BalancedKept
  <2>2. CASE ~disp[d].blocked /\ stack' = c \o <<Frame("remove", d, "failed")>>
    <3>. DEFINE f == Frame("remove", d, "failed")
    <3>1. f.at = "remove" /\ f.display = d /\ f.what = "failed" /\ f \in Frames /\ d \in seat
      BY <1>2, <2>2 DEF Frame, ListedInUse
    <3>. HIDE DEF f
    <3>2. Nested(c \o <<f>>, disp, seat)
      BY <2>2, <3>1, CallNested
    <3>3. Balanced(c \o <<f>>, seat, app')
      BY <1>1, <3>1, BalancedCall
    <3>4. c \o <<f>> \in Seq(Frames)
      BY <3>1, Called
    <3>. QED BY <2>2, <3>2, <3>3, <3>4 DEF f
  <2>3. CASE disp[d].started /\ stack' = c \o <<Frame("stopGreeter", d, "stop")>>
    <3>. DEFINE f == Frame("stopGreeter", d, "stop")
    <3>1. f.at = "stopGreeter" /\ f.display = d /\ f \in Frames
      BY <1>2 DEF Frame
    <3>. HIDE DEF f
    <3>2. Nested(c \o <<f>>, disp, seat)
      BY <2>3, <3>1, CallNested
    <3>3. Balanced(c \o <<f>>, seat, app')
      BY <1>1, <3>1, BalancedCall
    <3>4. c \o <<f>> \in Seq(Frames)
      BY <3>1, Called
    <3>. QED BY <2>3, <3>2, <3>3, <3>4 DEF f
  <2>4. CASE app'.exit = Crashed /\ stack' = <<>>
    <3>1. Nested(<<>>, disp, seat)
      BY DEF Nested, CallsNest, ChangesOneByOne, RemovedAfterStop
    <3>2. Balanced(<<>>, seat, app')
      <4>1. app'.exit # 0
        BY <2>4 DEF Crashed
      <4>. QED BY <1>1, <4>1 DEF Balanced
    <3>. QED BY <2>4, <3>1, <3>2, FrameTypes
  <2>. QED BY <1>1, <2>1, <2>2, <2>3, <2>4
<1>. QED BY <1>1, <1>3, SameUseKept DEF Core

\* slotHelperFinished, called from calls that wait.
LEMMA HelperReapedCore ==
  ASSUME TypeOK, ListedInUse(disp, seat), NEW d \in Displays, NEW c \in Seq(Frames), NEW code,
         HelperReaped(d, code, c), UNCHANGED <<seat, app>>,
         disp[d].use # "free", Nested(c, disp, seat), Balanced(c, seat, app),
         \A i \in 1 .. Len(c) : Waits(c[i]) /\ c[i].display = d
  PROVE  Core'
<1>1. SameUse(disp, disp')
  BY DEF HelperReaped, SameUse, TypeOK, DisplayRecords
<1>2. \/ stack' = c
      \/ disp[d].started /\ stack' = c \o <<Frame("stopGreeter", d, "stop")>>
  BY NotCalled, Zenon DEF HelperReaped, Stop
<1>3. Nested(stack', disp, seat) /\ Balanced(stack', seat, app) /\ stack' \in Seq(Frames)
  <2>1. CASE stack' = c
    BY <2>1
  <2>2. CASE disp[d].started /\ stack' = c \o <<Frame("stopGreeter", d, "stop")>>
    <3>. DEFINE f == Frame("stopGreeter", d, "stop")
    <3>1. f.at = "stopGreeter" /\ f.display = d /\ f \in Frames
      BY FrameTypes DEF Frame
    <3>. HIDE DEF f
    <3>2. Nested(c \o <<f>>, disp, seat)
      BY <2>2, <3>1, CallNested
    <3>3. Balanced(c \o <<f>>, seat, app)
      BY <3>1, BalancedCall
    <3>4. c \o <<f>> \in Seq(Frames)
      BY <3>1, Called
    <3>. QED BY <2>2, <3>2, <3>3, <3>4 DEF f
  <2>. QED BY <1>2, <2>1, <2>2
<1>. QED BY <1>1, <1>3, SameUseKept DEF Core

\* Display::stop: the greeter, the session's helper, the display server.
LEMMA StopsCore ==
  ASSUME TypeOK, Core, DisplayStopsGreeter \/ DisplayStopsAuth \/ GreeterStops
  PROVE  Core'
<1>1. /\ stack # <<>> /\ stack \in Seq(Frames) /\ Len(stack) \in Nat \ {0}
      /\ Top = stack[Len(stack)] /\ Len(stack) \in 1 .. Len(stack)
      /\ Top \in Frames /\ Callers \in Seq(Frames)
  <2>1. stack # <<>> /\ stack \in Seq(Frames)
    BY DEF DisplayStopsGreeter, DisplayStopsAuth, GreeterStops, At, TypeOK
  <2>2. Len(stack) \in Nat \ {0}
    BY <2>1, LenProperties, EmptySeq
  <2>. QED BY <2>1, <2>2, TopTyped DEF Top
<1>. DEFINE d == Top.display
<1>2. Top.at # "create" /\ d \in Displays /\ disp[d].use # "free"
  <2>1. Top.at # "create"
    BY DEF DisplayStopsGreeter, DisplayStopsAuth, GreeterStops, At
  <2>. QED BY <1>1, <2>1, FrameTypes DEF Core, Nested, CallsNest
<1>3. ASSUME NEW p \in {"stopAuth", "stopServer"}, Top.at \in {"stopGreeter", "stopAuth"}
      PROVE  /\ GoTo(p) \in Seq(Frames) /\ Nested(GoTo(p), disp, seat)
             /\ Balanced(GoTo(p), seat, app)
             /\ \A i \in 1 .. Len(GoTo(p)) : Waits(GoTo(p)[i]) /\ GoTo(p)[i].display = d
  <2>. DEFINE f == [Top EXCEPT !.at = p]
  <2>1. f \in Frames /\ f.at = p /\ f.display = d
    BY <1>1, <1>3 DEF Frames
  <2>. HIDE DEF f
  <2>2. GoTo(p) = Append(SubSeq(stack, 1, Len(stack) - 1), f)
    BY DEF GoTo, Callers, f
  <2>. HIDE DEF d
  <2>3. d = stack[Len(stack)].display
    BY <1>1 DEF d
  <2>4. /\ Append(SubSeq(stack, 1, Len(stack) - 1), f) \in Seq(Frames)
        /\ Nested(Append(SubSeq(stack, 1, Len(stack) - 1), f), disp, seat)
        /\ \A i \in 1 .. Len(Append(SubSeq(stack, 1, Len(stack) - 1), f)) :
             /\ Waits(Append(SubSeq(stack, 1, Len(stack) - 1), f)[i])
             /\ Append(SubSeq(stack, 1, Len(stack) - 1), f)[i].display = f.display
    BY <1>1, <1>3, <2>1, <2>3, StopGoesOn DEF Core
  <2>5. Balanced(Append(SubSeq(stack, 1, Len(stack) - 1), f), seat, app)
    BY <1>1, <1>3, <2>1, BalancedGoesOn DEF Core
  <2>. QED BY <2>1, <2>2, <2>4, <2>5
<1>4. CASE DisplayStopsGreeter
  <2>1. disp[d].use = "alive" /\ Top.at = "stopGreeter"
    BY <1>1, <1>2, <1>4 DEF DisplayStopsGreeter, At, Core, Nested, RemovedAfterStop, ListedInUse
  <2>. DEFINE c == GoTo("stopAuth")
  <2>2. /\ c \in Seq(Frames) /\ Nested(c, disp, seat) /\ Balanced(c, seat, app)
        /\ \A i \in 1 .. Len(c) : Waits(c[i]) /\ c[i].display = d
    BY <1>3, <2>1
  <2>3. StopGreeter(d, c) /\ seat' = seat
    BY <1>4 DEF DisplayStopsGreeter
  <2>. HIDE DEF c, d
  <2>. QED BY <1>2, <2>1, <2>2, <2>3, StopGreeterCore DEF Core
<1>5. CASE DisplayStopsAuth
  <2>1. Top.at = "stopAuth"
    BY <1>5 DEF DisplayStopsAuth, At
  <2>. DEFINE c == GoTo("stopServer")
  <2>2. /\ c \in Seq(Frames) /\ Nested(c, disp, seat) /\ Balanced(c, seat, app)
        /\ \A i \in 1 .. Len(c) : Waits(c[i]) /\ c[i].display = d
    BY <1>3, <2>1
  <2>3. \/ stack' = c /\ disp' = disp
        \/ stack' = c /\ disp' = [disp EXCEPT ![d].helper = "OTHER"]
        \/ \E code : HelperReaped(d, code, c)
    BY <1>5 DEF DisplayStopsAuth
  <2>4. UNCHANGED <<seat, app>>
    BY <1>5 DEF DisplayStopsAuth
  <2>. HIDE DEF c, d
  <2>5. CASE stack' = c /\ (disp' = disp \/ disp' = [disp EXCEPT ![d].helper = "OTHER"])
    <3>1. SameUse(disp, disp')
      <4>1. CASE disp' = disp
        BY <4>1 DEF SameUse
      <4>2. CASE disp' = [disp EXCEPT ![d].helper = "OTHER"]
        BY <1>2, <4>2 DEF SameUse, TypeOK, DisplayRecords
      <4>. QED BY <2>5, <4>1, <4>2
    <3>. QED BY <2>2, <2>4, <2>5, <3>1, SameUseKept DEF Core
  <2>6. ASSUME NEW code, HelperReaped(d, code, c) PROVE Core'
    BY <1>2, <2>2, <2>4, <2>6, HelperReapedCore DEF Core
  <2>. QED BY <2>3, <2>5, <2>6
<1>6. CASE GreeterStops
  <2>1. disp[d].use = "alive" /\ Top.at = "greeterStop"
    BY <1>1, <1>2, <1>6 DEF GreeterStops, At, Core, Nested, RemovedAfterStop
  <2>2. /\ Callers \in Seq(Frames) /\ Nested(Callers, disp, seat)
        /\ \A i \in 1 .. Len(Callers) : Waits(Callers[i]) /\ Callers[i].display = d
    BY <1>1, <2>1, ReturnNested DEF Core, Callers, Stopping
  <2>3. Balanced(Callers, seat, app)
    BY <1>1, <2>1, BalancedReturn DEF Core, Callers
  <2>4. StopGreeter(d, Callers) /\ seat' = seat
    BY <1>6 DEF GreeterStops
  <2>. HIDE DEF d
  <2>. QED BY <1>2, <2>1, <2>2, <2>3, <2>4, StopGreeterCore DEF Core
<1>. QED BY <1>4, <1>5, <1>6

\* The end of Display::stop: the display is not started any more.
LEMMA StopEndsCore ==
  ASSUME TypeOK, Core, DisplayStopsServer
  PROVE  Core'
<1>1. /\ stack # <<>> /\ stack \in Seq(Frames) /\ Len(stack) \in Nat \ {0}
      /\ Top = stack[Len(stack)] /\ Len(stack) \in 1 .. Len(stack)
      /\ Top \in Frames /\ Callers \in Seq(Frames) /\ Top.at = "stopServer"
  <2>1. stack # <<>> /\ stack \in Seq(Frames) /\ Top.at = "stopServer"
    BY DEF DisplayStopsServer, At, TypeOK
  <2>2. Len(stack) \in Nat \ {0}
    BY <2>1, LenProperties, EmptySeq
  <2>. QED BY <2>1, <2>2, TopTyped DEF Top
<1>. DEFINE d == Top.display
<1>2. d \in Displays /\ disp[d].use # "free"
  BY <1>1, FrameTypes DEF Core, Nested, CallsNest
<1>3. /\ \A e \in Displays : /\ disp'[e].use = disp[e].use
                             /\ disp'[e].blocked = disp[e].blocked
                             /\ disp'[e].started => disp[e].started
                             /\ e # d => disp'[e] = disp[e]
      /\ ~disp'[d].started
      /\ UNCHANGED <<seat, app>>
      /\ stack' = Callers \o Emit(d, "stopped")
  BY <1>2 DEF DisplayStopsServer, TypeOK, DisplayRecords
<1>. DEFINE c == Callers
<1>4. /\ Len(c) = Len(stack) - 1 /\ c \in Seq(Frames)
      /\ \A i \in 1 .. Len(c) : c[i] = stack[i] /\ i \in 1 .. Len(stack) /\ i # Len(stack)
  BY <1>1, Returned DEF Callers
<1>. HIDE DEF c, d
<1>5. /\ \A i \in 1 .. Len(c) : Waits(c[i])
      /\ \A i \in 1 .. Len(c) : c[i].at # "create" /\ c[i].display = d
  <2>1. ASSUME NEW i \in 1 .. Len(c) PROVE Waits(c[i])
    BY <1>4 DEF Core, Nested, CallsNest
  <2>2. ASSUME NEW i \in 1 .. Len(c) PROVE c[i].at # "create"
    BY <2>1 DEF Waits
  <2>3. ASSUME NEW i \in 1 .. Len(c) PROVE c[i].display = d
    <3>1. stack[i].at # "create" /\ stack[Len(stack)].at # "create" /\ c[i] = stack[i]
      BY <1>1, <1>4, <2>2
    <3>2. stack[i].display = stack[Len(stack)].display
      BY <1>1, <1>4, <3>1 DEF Core, Nested, CallsNest
    <3>. QED BY <1>1, <3>1, <3>2 DEF d
  <2>. QED BY <2>1, <2>2, <2>3
<1>6. Nested(c, disp', seat)
  <2>1. CallsNest(c, disp')
    BY <1>2, <1>3, <1>5 DEF CallsNest
  <2>2. ChangesOneByOne(c, disp')
    <3>1. \A i \in 1 .. Len(c), j \in 1 .. Len(c) : Changing(c[i]) /\ Changing(c[j]) => i = j
      BY <1>4 DEF Core, Nested, ChangesOneByOne
    <3>2. ASSUME NEW i \in 1 .. Len(c), c[i].at = "removed" PROVE disp'[c[i].display].blocked
      <4>1. stack[i].at = "removed" /\ i \in 1 .. Len(stack) /\ stack[i].display = d
        BY <1>4, <1>5, <3>2
      <4>2. disp[stack[i].display].blocked
        BY <4>1 DEF Core, Nested, ChangesOneByOne
      <4>3. disp'[d].blocked
        BY <1>2, <1>3, <4>1, <4>2
      <4>. QED BY <1>5, <4>3
    <3>. QED BY <3>1, <3>2 DEF ChangesOneByOne
  <2>3. RemovedAfterStop(c, disp', seat)
    BY <1>2, <1>3, <1>5 DEF RemovedAfterStop, Waits
  <2>. QED BY <2>1, <2>2, <2>3 DEF Nested
<1>7. Balanced(c, seat, app)
  BY <1>1, BalancedReturn DEF Core, c, Callers
<1>8. ListedInUse(disp', seat)
  <2>1. ASSUME NEW e \in Displays, disp'[e].use = "free" PROVE disp'[e] = NoDisplay
    BY <1>2, <1>3, <2>1 DEF Core, ListedInUse
  <2>. QED BY <1>3, <2>1 DEF Core, ListedInUse
<1>9. Nested(stack', disp', seat) /\ Balanced(stack', seat, app)
  <2>1. CASE stack' = c
    BY <1>6, <1>7, <2>1
  <2>2. CASE ~disp[d].blocked /\ stack' = c \o <<Frame("remove", d, "stopped")>>
    <3>. DEFINE f == Frame("remove", d, "stopped")
    <3>1. f.at = "remove" /\ f.display = d /\ f.what = "stopped" /\ f \in Frames
      BY <1>2, FrameTypes DEF Frame
    <3>. HIDE DEF f
    <3>2. Nested(c \o <<f>>, disp', seat)
      BY <1>2, <1>3, <1>4, <1>5, <1>6, <2>2, <3>1, CallNested
    <3>3. Balanced(c \o <<f>>, seat, app)
      BY <1>4, <1>7, <3>1, BalancedCall
    <3>. QED BY <2>2, <3>2, <3>3 DEF f
  <2>3. c \o <<>> = c
    BY <1>4, NotCalled
  <2>. QED BY <1>3, <2>1, <2>2, <2>3 DEF Emit, c
<1>. QED BY <1>3, <1>8, <1>9 DEF Core

\* The list is finite, and a display counts once.
LEMMA ListSize ==
  ASSUME TypeOK, NEW d
  PROVE  /\ Cardinality(seat) \in Nat
         /\ Cardinality(seat \ {d}) \in Nat /\ Cardinality(seat \ {d}) <= Cardinality(seat)
         /\ d \in seat => Cardinality(seat \ {d}) + 1 = Cardinality(seat)
         /\ Cardinality(seat \cup {d}) <= Cardinality(seat) + 1
<1>1. IsFiniteSet(seat)
  <2>1. IsFiniteSet(Displays) /\ seat \in SUBSET Displays
    BY SeatAssumption, FS_Interval DEF TypeOK, Displays
  <2>. QED BY <2>1, FS_Subset
<1>2. Cardinality(seat) \in Nat
  BY <1>1, FS_CardinalityType
<1>3. /\ IsFiniteSet(seat \ {d})
      /\ Cardinality(seat \ {d}) = IF d \in seat THEN Cardinality(seat) - 1 ELSE Cardinality(seat)
  BY <1>1, FS_RemoveElement
<1>4. Cardinality(seat \ {d}) \in Nat
  BY <1>3, FS_CardinalityType
<1>5. Cardinality(seat \cup {d}) = IF d \in seat THEN Cardinality(seat) ELSE Cardinality(seat) + 1
  BY <1>1, FS_AddElement
<1>. QED BY <1>2, <1>3, <1>4, <1>5

\* removeDisplay takes the display off the list and stops it.
LEMMA RemoveCore ==
  ASSUME TypeOK, Core, RemoveDisplay
  PROVE  Core'
<1>1. /\ stack # <<>> /\ stack \in Seq(Frames) /\ Len(stack) \in Nat \ {0}
      /\ Top = stack[Len(stack)] /\ Len(stack) \in 1 .. Len(stack)
      /\ Top \in Frames /\ Callers \in Seq(Frames) /\ Top.at = "remove"
  <2>1. stack # <<>> /\ stack \in Seq(Frames) /\ Top.at = "remove"
    BY DEF RemoveDisplay, At, TypeOK
  <2>2. Len(stack) \in Nat \ {0}
    BY <2>1, LenProperties, EmptySeq
  <2>. QED BY <2>1, <2>2, TopTyped DEF Top
<1>. DEFINE d == Top.display
            n == Len(stack)
            f == [Top EXCEPT !.at = "removed"]
            s == Append(SubSeq(stack, 1, Len(stack) - 1), f)
            g == Frame("stopGreeter", d, "stop")
<1>2. d \in Displays /\ disp[d].use # "free"
  BY <1>1, FrameTypes DEF Core, Nested, CallsNest
<1>3. f \in Frames /\ f.at = "removed" /\ f.display = d /\ f.what = Top.what
  BY <1>1 DEF Frames
<1>4. g \in Frames /\ g.at = "stopGreeter" /\ g.display = d
  BY <1>2, FrameTypes DEF Frame
<1>5. /\ \A e \in Displays : /\ disp'[e].use = disp[e].use
                             /\ disp'[e].started = disp[e].started
                             /\ e # d => disp'[e] = disp[e]
      /\ disp'[d].blocked
      /\ seat' = seat \ {d} /\ app' = app
      /\ stack' = s \o Stop(d)
  BY <1>2 DEF RemoveDisplay, TypeOK, DisplayRecords, GoTo, Callers
<1>. HIDE DEF f
<1>6. /\ s \in Seq(Frames) /\ Len(s) = n
      /\ \A i \in 1 .. Len(s) : s[i] = IF i = n THEN f ELSE stack[i]
  BY <1>1, <1>3, Replaced
<1>7. \A i \in 1 .. n : /\ i # n => Waits(stack[i])
                        /\ i # n => ~Changing(stack[i])
                        /\ stack[i].display = d
  <2>1. ASSUME NEW i \in 1 .. n, i # n PROVE Waits(stack[i]) /\ ~Changing(stack[i])
    BY <1>1, <2>1 DEF Core, Nested, CallsNest, ChangesOneByOne, Changing
  <2>2. ASSUME NEW i \in 1 .. n PROVE stack[i].display = d
    <3>1. stack[i].at # "create" /\ stack[n].at # "create"
      BY <1>1, <2>1 DEF Waits
    <3>. QED BY <1>1, <3>1 DEF Core, Nested, CallsNest
  <2>. QED BY <2>1, <2>2
<1>8. \A i \in 1 .. n : /\ Waits(s[i]) /\ s[i].display = d
                        /\ i # n => ~Changing(s[i])
                        /\ i = n => s[i] = f
  BY <1>3, <1>6, <1>7 DEF Waits
<1>. HIDE DEF d, n, s, g
<1>9. Len(stack') \in Nat /\
      \/ ~disp[d].started /\ stack' = s /\ Len(stack') = n
      \/ /\ disp[d].started /\ Len(stack') = n + 1 /\ n + 1 \in 1 .. Len(stack')
         /\ \A i \in 1 .. Len(stack') : stack'[i] = IF i = n + 1 THEN g ELSE s[i]
  BY <1>1, <1>4, <1>5, <1>6, Called, NotCalled DEF Stop, g, n
<1>10. /\ n \in Nat \ {0}
       /\ \A i \in 1 .. Len(stack') :
            \/ i \in 1 .. n /\ i # n /\ stack'[i] = s[i] /\ Waits(stack'[i])
                 /\ ~Changing(stack'[i]) /\ stack'[i].display = d
            \/ i = n /\ stack'[i] = f
            \/ i = n + 1 /\ disp[d].started /\ Len(stack') = n + 1 /\ stack'[i] = g
  BY <1>1, <1>8, <1>9 DEF n
<1>11. \A i \in 1 .. Len(stack') : stack'[i].at # "create" /\ stack'[i].display = d
  BY <1>3, <1>4, <1>10 DEF Waits
<1>12. CallsNest(stack', disp')
  <2>1. \A i \in 1 .. Len(stack') : i # Len(stack') => Waits(stack'[i])
    BY <1>3, <1>9, <1>10 DEF Waits
  <2>2. disp'[d].use # "free"
    BY <1>2, <1>5
  <2>. QED BY <1>11, <2>1, <2>2 DEF CallsNest
<1>13. ChangesOneByOne(stack', disp')
  <2>1. \A i \in 1 .. Len(stack') : Changing(stack'[i]) => i = n
    BY <1>4, <1>10 DEF Changing
  <2>. QED BY <1>5, <1>11, <2>1 DEF ChangesOneByOne
<1>14. RemovedAfterStop(stack', disp', seat')
  <2>1. ASSUME NEW i \in 1 .. Len(stack'), stack'[i].at = "removed",
               disp'[stack'[i].display].started
        PROVE  \E j \in 1 .. Len(stack') : j > i /\ Stopping(stack'[j])
    <3>1. i = n /\ disp[d].started
      BY <1>2, <1>4, <1>5, <1>10, <1>11, <2>1 DEF Changing
    <3>2. n + 1 \in 1 .. Len(stack') /\ stack'[n + 1] = g
      BY <1>9, <3>1
    <3>. QED BY <1>4, <1>10, <3>1, <3>2 DEF Stopping
  <2>2. ASSUME NEW i \in 1 .. Len(stack'), stack'[i].at = "stopGreeter"
        PROVE  disp'[stack'[i].display].started
    BY <1>2, <1>3, <1>5, <1>10, <1>11, <2>2 DEF Waits
  <2>3. \A i \in 1 .. Len(stack') : stack'[i].at \notin {"greeterStop", "remove"}
    BY <1>3, <1>4, <1>10 DEF Waits
  <2>. QED BY <2>1, <2>2, <2>3 DEF RemovedAfterStop
<1>15. ListedInUse(disp', seat')
  <2>1. ASSUME NEW e \in Displays
        PROVE  /\ e \in seat' <=> disp'[e].use = "alive" /\ ~disp'[e].blocked
               /\ disp'[e].started => disp'[e].use = "alive"
               /\ disp'[e].use = "free" => disp'[e] = NoDisplay
    <3>1. CASE e = d
      BY <1>2, <1>5, <3>1 DEF Core, ListedInUse
    <3>2. CASE e # d
      BY <1>5, <3>2 DEF Core, ListedInUse
    <3>. QED BY <3>1, <3>2
  <2>. QED BY <2>1 DEF ListedInUse
<1>16. Balanced(stack', seat', app')
  <2>1. /\ Cardinality(seat) \in Nat /\ Cardinality(seat') \in Nat
        /\ Cardinality(seat') <= Cardinality(seat)
        /\ d \in seat => Cardinality(seat') + 1 = Cardinality(seat)
    BY <1>5, ListSize
  <2>2. \E i \in 1 .. Len(stack') : stack'[i].at = "removed"
    <3>1. n \in 1 .. Len(stack') /\ stack'[n].at = "removed"
      BY <1>3, <1>9, <1>10
    <3>. QED BY <3>1
  <2>3. ASSUME NEW i \in 1 .. Len(stack'), Owes(stack'[i])
        PROVE  Cardinality(seat') <= app'.switches
    <3>1. i = n /\ f.what = "failed"
      BY <1>3, <1>4, <1>10, <1>11, <2>3 DEF Owes, Changing
    <3>2. d \in seat
      BY <1>1, <1>3, <3>1 DEF Core, Nested, RemovedAfterStop, d
    <3>. QED BY <1>5, <2>1, <3>2 DEF Core, Balanced, TypeOK, AppRecords
  <2>4. Cardinality(seat') <= 1 + app'.switches
    BY <1>5, <2>1 DEF Core, Balanced, TypeOK, AppRecords
  <2>. QED BY <2>2, <2>3, <2>4 DEF Balanced
<1>. QED BY <1>12, <1>13, <1>14, <1>15, <1>16 DEF Core, Nested

\* The display is removed, and replaced if that is due.
LEMMA RemovedCore ==
  ASSUME TypeOK, Core, DisplayRemoved
  PROVE  Core'
<1>1. /\ stack # <<>> /\ stack \in Seq(Frames) /\ Len(stack) \in Nat \ {0}
      /\ Top = stack[Len(stack)] /\ Len(stack) \in 1 .. Len(stack)
      /\ Top \in Frames /\ Callers \in Seq(Frames) /\ Top.at = "removed"
  <2>1. stack # <<>> /\ stack \in Seq(Frames) /\ Top.at = "removed"
    BY DEF DisplayRemoved, At, TypeOK
  <2>2. Len(stack) \in Nat \ {0}
    BY <2>1, LenProperties, EmptySeq
  <2>. QED BY <2>1, <2>2, TopTyped DEF Top
<1>. DEFINE d == Top.display
            c == Callers
            fallback == Top.what = "failed" /\ disp[d].type # "x11-user"
<1>2. d \in Displays /\ disp[d].use # "free" /\ Top.what \in {"stopped", "failed"}
  BY <1>1, FrameTypes DEF Core, Nested, CallsNest, Frames
<1>3. disp[d].blocked /\ ~disp[d].started /\ d \notin seat
  <2>1. disp[d].blocked
    BY <1>1 DEF Core, Nested, ChangesOneByOne
  <2>2. ~disp[d].started
    BY <1>1 DEF Core, Nested, RemovedAfterStop
  <2>. QED BY <1>2, <2>1, <2>2 DEF Core, ListedInUse
<1>4. /\ \A e \in Displays : e # d => disp'[e] = disp[e]
      /\ disp'[d].use = "doomed" /\ ~disp'[d].started
      /\ seat' = seat
      /\ stack' = c \o CASE fallback -> CreateFallback
                         [] Top.what = "stopped" /\ seat = {} -> CreateDefault
                         [] OTHER -> <<>>
      /\ app' = IF Top.what = "failed" /\ ~fallback /\ seat = {}
                  THEN [app EXCEPT !.exit = 12] ELSE app
  BY <1>2, <1>3 DEF DisplayRemoved, TypeOK, DisplayRecords
<1>5. /\ c \in Seq(Frames) /\ Nested(c, disp, seat)
      /\ \A i \in 1 .. Len(c) : Waits(c[i]) /\ ~Changing(c[i]) /\ c[i].display = d
  BY <1>1, ReturnNested DEF Core, Callers, Stopping, Changing
<1>6. Len(c) = Len(stack) - 1 /\ \A i \in 1 .. Len(c) : c[i] = stack[i] /\ i \in 1 .. Len(stack)
  BY <1>1, Returned DEF Callers
<1>. HIDE DEF d, c
<1>7. Nested(c, disp', seat)
  <2>1. CallsNest(c, disp')
    BY <1>4, <1>5 DEF CallsNest
  <2>2. ChangesOneByOne(c, disp')
    BY <1>5 DEF ChangesOneByOne, Changing
  <2>3. RemovedAfterStop(c, disp', seat)
    BY <1>5 DEF RemovedAfterStop, Waits, Changing
  <2>. QED BY <2>1, <2>2, <2>3 DEF Nested
<1>8. ListedInUse(disp', seat')
  <2>1. ASSUME NEW e \in Displays
        PROVE  /\ e \in seat' <=> disp'[e].use = "alive" /\ ~disp'[e].blocked
               /\ disp'[e].started => disp'[e].use = "alive"
               /\ disp'[e].use = "free" => disp'[e] = NoDisplay
    <3>1. CASE e = d
      BY <1>3, <1>4, <3>1
    <3>2. CASE e # d
      BY <1>4, <3>2 DEF Core, ListedInUse
    <3>. QED BY <3>1, <3>2
  <2>. QED BY <2>1 DEF ListedInUse
<1>9. /\ Cardinality(seat) <= 1 + app.switches /\ Cardinality(seat) \in Nat
      /\ app.switches \in Nat
      /\ Top.what = "failed" => Cardinality(seat) <= app.switches
      /\ seat = {} => Cardinality(seat) <= app.switches
  <2>1. Cardinality(seat) \in Nat /\ app.switches \in Nat
    <3>1. Cardinality(seat) \in Nat
      BY ListSize
    <3>2. app.switches \in Nat
      BY SeatAssumption DEF TypeOK, AppRecords
    <3>. QED BY <3>1, <3>2
  <2>2. Top.what = "failed" => Cardinality(seat) <= app.switches
    BY <1>1 DEF Core, Balanced, Owes
  <2>3. seat = {} => Cardinality(seat) = 0
    BY FS_EmptySet
  <2>. QED BY <2>1, <2>2, <2>3 DEF Core, Balanced
<1>10. CASE stack' = c \o CreateDefault \/ stack' = c \o CreateFallback
  <2>1. PICK f \in Frames : f.at = "create" /\ stack' = c \o <<f>>
    <3>1. /\ Frame("create", 0, "default") \in Frames /\ Frame("create", 0, "x11-user") \in Frames
          /\ Frame("create", 0, "default").at = "create"
          /\ Frame("create", 0, "x11-user").at = "create"
      BY DEF Frame, Frames
    <3>. QED BY <1>10, <3>1 DEF CreateDefault, CreateFallback
  <2>2. Nested(stack', disp', seat)
    BY <1>5, <1>7, <2>1, CreateNested
  <2>3. Len(stack') \in 1 .. Len(stack') /\ stack'[Len(stack')].at = "create"
    BY <1>5, <2>1, Called, LenProperties
  <2>4. Cardinality(seat) <= app.switches /\ app' = app
    <3>1. fallback \/ (Top.what = "stopped" /\ seat = {})
      <4>1. CASE ~fallback /\ ~(Top.what = "stopped" /\ seat = {})
        <5>1. stack' = c
          BY <1>4, <1>5, <4>1, NotCalled
        <5>. QED BY <2>1, <5>1, <1>5, Called, LenProperties
      <4>. QED BY <4>1
    <3>. QED BY <1>4, <1>9, <3>1
  <2>5. Balanced(stack', seat', app')
    BY <1>4, <1>9, <2>3, <2>4 DEF Balanced
  <2>. QED BY <1>4, <1>8, <2>2, <2>5 DEF Core
<1>11. CASE stack' = c /\ ~fallback /\ ~(Top.what = "stopped" /\ seat = {})
  <2>1. ASSUME NEW i \in 1 .. Len(c) PROVE ~Owes(c[i])
    BY <1>5 DEF Owes, Changing
  <2>2. seat = {} => app'.exit = 12
    BY <1>2, <1>4, <1>11 DEF TypeOK, AppRecords
  <2>3. app'.switches = app.switches
    BY <1>4 DEF TypeOK, AppRecords
  <2>4. Balanced(stack', seat', app')
    BY <1>4, <1>9, <1>11, <2>1, <2>2, <2>3 DEF Balanced
  <2>. QED BY <1>4, <1>7, <1>8, <1>11, <2>4 DEF Core
<1>12. c \o <<>> = c
  BY <1>5, NotCalled
<1>. QED BY <1>4, <1>10, <1>11, <1>12

\* createDisplay adds a display that no call is on.
LEMMA CreateCore ==
  ASSUME TypeOK, Core, CreateDisplay
  PROVE  Core'
<1>1. /\ stack # <<>> /\ stack \in Seq(Frames) /\ Len(stack) \in Nat \ {0}
      /\ Top = stack[Len(stack)] /\ Len(stack) \in 1 .. Len(stack)
      /\ Top \in Frames /\ Callers \in Seq(Frames) /\ Top.at = "create"
  <2>1. stack # <<>> /\ stack \in Seq(Frames) /\ Top.at = "create"
    BY DEF CreateDisplay, At, TypeOK
  <2>2. Len(stack) \in Nat \ {0}
    BY <2>1, LenProperties, EmptySeq
  <2>. QED BY <2>1, <2>2, TopTyped DEF Top
<1>2. PICK d \in Displays :
        /\ disp[d].use = "free" /\ seat' = seat \cup {d}
        /\ \E type : StartDisplay(d, NewDisplay(type), 1)
  BY DEF CreateDisplay
<1>3. /\ \A e \in Displays : e # d => disp'[e] = disp[e]
      /\ disp'[d].use = "alive" /\ ~disp'[d].blocked
      /\ app'.exit = app.exit /\ app'.switches = app.switches
  <2>1. PICK type : StartDisplay(d, NewDisplay(type), 1)
    BY <1>2
  <2>2. PICK r : disp' = [disp EXCEPT ![d] = r] /\ r.use = "alive" /\ r.blocked = FALSE
    <3>1. PICK r : /\ disp' = [disp EXCEPT ![d] = r]
                   /\ \/ r = WithGreeter(NewDisplay(type))
                      \/ r = WithAutologin(NewDisplay(type))
                      \/ \E server : r = StartFailed(NewDisplay(type), server, 1)
      BY <2>1 DEF StartDisplay
    <3>2. r.use = "alive" /\ r.blocked = FALSE
      BY <3>1 DEF WithGreeter, WithAutologin, StartFailed, ServerUp, NewDisplay, NoDisplay
    <3>. QED BY <3>1, <3>2
  <2>3. app'.exit = app.exit /\ app'.switches = app.switches
    BY <2>1 DEF StartDisplay, TypeOK, AppRecords
  <2>. QED BY <2>2, <2>3 DEF TypeOK
<1>. DEFINE c == Callers
<1>4. stack' = c
  BY DEF CreateDisplay
<1>5. /\ c \in Seq(Frames) /\ Nested(c, disp, seat)
      /\ \A i \in 1 .. Len(c) : Waits(c[i]) /\ ~Changing(c[i])
  BY <1>1, ReturnNested DEF Core, Callers, Stopping, Changing
<1>. HIDE DEF c
<1>6. \A i \in 1 .. Len(c) : c[i].display \in Displays /\ c[i].display # d
  <2>1. \A i \in 1 .. Len(c) : c[i].at # "create" /\ c[i] \in Frames
    BY <1>5, ElementOfSeq DEF Waits
  <2>. QED BY <1>2, <1>5, <2>1, FrameTypes DEF Nested, CallsNest
<1>7. Nested(c, disp', seat')
  <2>1. CallsNest(c, disp')
    BY <1>3, <1>5, <1>6 DEF Nested, CallsNest
  <2>2. ChangesOneByOne(c, disp')
    BY <1>5 DEF ChangesOneByOne, Changing
  <2>3. RemovedAfterStop(c, disp', seat')
    BY <1>5 DEF RemovedAfterStop, Waits, Changing
  <2>. QED BY <2>1, <2>2, <2>3 DEF Nested
<1>8. ListedInUse(disp', seat')
  <2>1. ASSUME NEW e \in Displays
        PROVE  /\ e \in seat' <=> disp'[e].use = "alive" /\ ~disp'[e].blocked
               /\ disp'[e].started => disp'[e].use = "alive"
               /\ disp'[e].use = "free" => disp'[e] = NoDisplay
    <3>1. CASE e = d
      BY <1>2, <1>3, <3>1
    <3>2. CASE e # d
      BY <1>2, <1>3, <3>2 DEF Core, ListedInUse
    <3>. QED BY <3>1, <3>2
  <2>. QED BY <2>1 DEF ListedInUse
<1>9. Balanced(c, seat', app')
  <2>1. Cardinality(seat) <= app.switches
    BY <1>1 DEF Core, Balanced, Owes
  <2>2. Cardinality(seat') <= 1 + app.switches
    <3>1. Cardinality(seat) \in Nat /\ Cardinality(seat') <= Cardinality(seat) + 1
      BY <1>2, ListSize
    <3>2. Cardinality(seat') \in Nat
      <4>1. IsFiniteSet(Displays) /\ seat' \in SUBSET Displays
        BY <1>2, SeatAssumption, FS_Interval DEF TypeOK, Displays
      <4>. QED BY <4>1, FS_Subset, FS_CardinalityType
    <3>. QED BY <2>1, <3>1, <3>2, SeatAssumption DEF TypeOK, AppRecords
  <2>3. \A i \in 1 .. Len(c) : ~Owes(c[i])
    BY <1>5 DEF Owes, Changing
  <2>. QED BY <1>2, <1>3, <2>2, <2>3 DEF Balanced
<1>. QED BY <1>4, <1>7, <1>8, <1>9 DEF Core

\* The event loop: a finished process, a timer or a request starts a call.
LEMMA LoopCalls ==
  ASSUME TypeOK, Core, NEW d \in Displays,
         ServerFinished(d) \/ GreeterFinished(d) \/ HelperFinished(d) \/ GreeterStopTimer(d)
  PROVE  Core'
<1>1. stack = <<>> /\ disp[d].use # "doomed"
  BY DEF ServerFinished, GreeterFinished, HelperFinished, GreeterStopTimer, Idle
<1>2. /\ <<>> \in Seq(Frames) /\ Nested(<<>>, disp, seat) /\ Balanced(<<>>, seat, app)
      /\ \A i \in 1 .. Len(<<>>) : Waits(<<>>[i]) /\ <<>>[i].display = d
      /\ ListedInUse(disp, seat)
  BY <1>1, NothingNested, FrameTypes DEF Core
<1>3. disp[d].use = "alive"
  <2>1. disp[d] # NoDisplay
    BY DEF NoDisplay, ServerFinished, GreeterFinished, HelperFinished, GreeterStopTimer,
           GreeterCodes, HelperCodes
  <2>. QED BY <1>1, <1>2, <2>1 DEF ListedInUse, TypeOK, DisplayRecords, Uses
<1>4. CASE GreeterFinished(d)
  BY <1>2, <1>3, <1>4, StopGreeterCore DEF GreeterFinished
<1>5. CASE HelperFinished(d)
  BY <1>2, <1>3, <1>5, HelperReapedCore DEF HelperFinished
<1>6. CASE ServerFinished(d) \/ GreeterStopTimer(d)
  <2>1. SameUse(disp, disp') /\ UNCHANGED <<seat, app>>
    BY <1>3, <1>6 DEF ServerFinished, GreeterStopTimer, SameUse, TypeOK, DisplayRecords
  <2>2. \/ stack' = <<>>
        \/ \E f \in Frames : /\ stack' = <<f>> /\ f.display = d
                             /\ f.at \in {"stopGreeter", "greeterStop"}
                             /\ f.at = "stopGreeter" => disp[d].started
    <3>1. /\ Frame("stopGreeter", d, "stop") \in Frames
          /\ Frame("greeterStop", d, "stop") \in Frames
      BY FrameTypes
    <3>. QED BY <1>6, <3>1 DEF ServerFinished, GreeterStopTimer, Stop, Frame
  <2>3. Nested(stack', disp, seat) /\ Balanced(stack', seat, app) /\ stack' \in Seq(Frames)
    <3>1. CASE stack' = <<>>
      BY <1>2, <3>1
    <3>2. ASSUME NEW f \in Frames, stack' = <<f>>, f.display = d,
                 f.at \in {"stopGreeter", "greeterStop"},
                 f.at = "stopGreeter" => disp[d].started
          PROVE  /\ Nested(stack', disp, seat) /\ Balanced(stack', seat, app)
                 /\ stack' \in Seq(Frames)
      <4>1. stack' = <<>> \o <<f>>
        BY <3>2
      <4>2. Nested(<<>> \o <<f>>, disp, seat)
        BY <1>2, <1>3, <3>2, CallNested
      <4>3. Balanced(<<>> \o <<f>>, seat, app)
        BY <1>2, <3>2, BalancedCall
      <4>. QED BY <3>2, <4>1, <4>2, <4>3
    <3>. QED BY <2>2, <3>1, <3>2
  <2>. QED BY <1>2, <2>1, <2>3, SameUseKept DEF Core
<1>. QED BY <1>4, <1>5, <1>6

\* switchToGreeter asks for one more display.
LEMMA SwitchCore ==
  ASSUME TypeOK, Core, SwitchToGreeter
  PROVE  Core'
<1>. DEFINE f == Frame("create", 0, "default")
<1>1. f \in Frames /\ f.at = "create"
  BY DEF Frame, Frames
<1>2. /\ stack = <<>> /\ stack' = <<f>> /\ UNCHANGED <<seat, disp>>
      /\ app'.exit = app.exit /\ app'.switches = app.switches + 1
  BY DEF SwitchToGreeter, Idle, CreateDefault, TypeOK, AppRecords
<1>. HIDE DEF f
<1>3. stack' = <<>> \o <<f>> /\ <<>> \in Seq(Frames) /\ Nested(<<>>, disp, seat)
  BY <1>1, <1>2, NothingNested, FrameTypes
<1>4. Nested(stack', disp, seat)
  <2>1. \A i \in 1 .. Len(<<>>) : Waits(<<>>[i]) /\ ~Changing(<<>>[i])
    BY EmptySeq
  <2>2. Nested(<<>> \o <<f>>, disp, seat)
    BY <1>1, <1>3, <2>1, CreateNested
  <2>. QED BY <1>3, <2>2
<1>5. Balanced(stack', seat, app')
  <2>1. /\ Cardinality(seat) \in Nat
        /\ Cardinality(seat) <= 1 + app.switches
    BY ListSize DEF Core, Balanced
  <2>2. app.switches \in Nat
    BY SeatAssumption DEF TypeOK, AppRecords
  <2>3. 1 \in 1 .. Len(stack') /\ stack'[1].at = "create"
    BY <1>1, <1>2
  <2>. QED BY <1>2, <2>1, <2>2, <2>3 DEF Balanced
<1>. QED BY <1>2, <1>4, <1>5 DEF Core

\* A retry and the destructor: no call is in progress.
LEMMA RetryCore ==
  ASSUME TypeOK, Core, NEW d \in Displays, RetryTimer(d) \/ DestroyDisplay(d)
  PROVE  Core'
<1>1. stack = <<>> /\ stack' = stack /\ seat' = seat
  BY DEF RetryTimer, DestroyDisplay, Idle
<1>2. app'.exit = app.exit /\ app'.switches = app.switches
  BY DEF RetryTimer, DestroyDisplay, StartDisplay, TypeOK, AppRecords
<1>3. \A e \in Displays : e # d => disp'[e] = disp[e]
  BY DEF RetryTimer, DestroyDisplay, StartDisplay, TypeOK
<1>4. ListedInUse(disp', seat)
  <2>1. CASE DestroyDisplay(d)
    <3>1. disp'[d] = NoDisplay /\ disp[d].use = "doomed"
      BY <2>1 DEF DestroyDisplay, TypeOK
    <3>. QED BY <1>3, <3>1 DEF Core, ListedInUse, NoDisplay
  <2>2. CASE RetryTimer(d)
    <3>1. disp[d].use = "alive"
      BY <2>2 DEF RetryTimer
    <3>2. PICK r : disp' = [disp EXCEPT ![d] = r] /\ r.use = "alive" /\ r.blocked = disp[d].blocked
      <4>1. PICK r : /\ disp' = [disp EXCEPT ![d] = r]
                     /\ \/ r = WithGreeter(disp[d])
                        \/ r = WithAutologin(disp[d])
                        \/ \E server, try : r = StartFailed(disp[d], server, try)
        BY <2>2 DEF RetryTimer, StartDisplay
      <4>2. r.use = "alive" /\ r.blocked = disp[d].blocked
        <5>1. disp[d] \in DisplayRecords
          BY DEF TypeOK
        <5>. QED BY <3>1, <4>1, <5>1 DEF WithGreeter, WithAutologin, StartFailed, ServerUp, DisplayRecords
      <4>. QED BY <4>1, <4>2
    <3>3. disp'[d].use = "alive" /\ disp'[d].blocked = disp[d].blocked
      BY <3>2 DEF TypeOK
    <3>. QED BY <1>3, <3>1, <3>3 DEF Core, ListedInUse
  <2>. QED BY <2>1, <2>2
<1>5. Nested(stack', disp', seat')
  BY <1>1, NothingNested
<1>6. Balanced(stack', seat', app')
  BY <1>1, <1>2 DEF Core, Balanced
<1>. QED BY <1>1, <1>4, <1>5, <1>6 DEF Core

\* What processes and users do changes nothing but the parts of one display.
LEMMA QuietCore ==
  ASSUME TypeOK, Core, NEW d \in Displays,
         GreeterReports(d) \/ FromUsers(d) \/ Processes(d) \/ DestroyGreeterAuth(d)
  PROVE  Core'
<1>1. UNCHANGED <<seat, stack, app>>
  BY DEF GreeterReports, FromUsers, LogsIn, HelperRefused, SessionStarts, Processes,
         GreeterSendsReport, ServerDies, GreeterExits, HelperExits, DestroyGreeterAuth
<1>2. disp[d].use # "free"
  <2>1. disp[d] # NoDisplay
    BY DEF NoDisplay, GreeterReports, FromUsers, LogsIn, HelperRefused, SessionStarts, Processes,
           GreeterSendsReport, ServerDies, GreeterExits, HelperExits, DestroyGreeterAuth
  <2>. QED BY <2>1 DEF Core, ListedInUse
<1>3. SameUse(disp, disp')
  <2>1. CASE GreeterReports(d)
    <3>1. PICK b \in BOOLEAN, l \in BOOLEAN, g \in Greeters :
            disp' = [disp EXCEPT ![d].report = "none", ![d].reported = b, ![d].late = l,
                                 ![d].greeter = g]
      BY <2>1, ReportRead
    <3>. QED BY <1>2, <3>1 DEF SameUse, TypeOK, DisplayRecords
  <2>2. CASE LogsIn(d) \/ SessionStarts(d)
    BY <1>2, <2>2 DEF SameUse, TypeOK, DisplayRecords, LogsIn, SessionStarts
  <2>3. CASE HelperRefused(d)
    BY <1>2, <2>3 DEF SameUse, TypeOK, DisplayRecords, HelperRefused
  <2>4. CASE Processes(d)
    BY <1>2, <2>4 DEF SameUse, TypeOK, DisplayRecords, Processes, GreeterSendsReport, ServerDies,
                      GreeterExits, HelperExits
  <2>5. CASE DestroyGreeterAuth(d)
    BY <1>2, <2>5 DEF SameUse, TypeOK, DisplayRecords, DestroyGreeterAuth
  <2>. QED BY <2>1, <2>2, <2>3, <2>4, <2>5 DEF FromUsers
<1>4. stack \in Seq(Frames)
  BY DEF TypeOK
<1>. QED BY <1>1, <1>3, <1>4, SameUseKept DEF Core

\* All steps keep the calls nested, the list right and the account balanced.
LEMMA CoreStep == TypeOK /\ Core /\ [Next]_vars => Core'
<1> SUFFICES ASSUME TypeOK, Core, [Next]_vars PROVE Core'
  OBVIOUS
<1>1. CASE UNCHANGED vars
  BY <1>1 DEF vars, Core, Nested, CallsNest, ChangesOneByOne, RemovedAfterStop, ListedInUse,
              Balanced
<1>2. CASE CallGoesOn
  BY <1>2, CreateCore, StopsCore, StopEndsCore, RemoveCore, RemovedCore DEF CallGoesOn
<1>3. CASE SwitchToGreeter
  BY <1>3, SwitchCore
<1>4. ASSUME NEW d \in Displays, Served(d) PROVE Core'
  BY <1>4, LoopCalls, RetryCore, QuietCore DEF Served
<1>5. ASSUME NEW d \in Displays, \/ FromUsers(d) \/ Processes(d)
                                \/ DestroyDisplay(d) \/ DestroyGreeterAuth(d)
      PROVE  Core'
  BY <1>5, QuietCore, RetryCore
<1>. QED BY <1>1, <1>2, <1>3, <1>4, <1>5 DEF Next

\* Tries are counted: the timer is armed again only for one that is left.
LEMMA TriesStep == TypeOK /\ TriesLeft /\ [Next]_vars => TriesLeft'
<1> SUFFICES ASSUME TypeOK, TriesLeft, [Next]_vars, NEW d \in Displays, disp'[d].retry
             PROVE  disp'[d].try < MaxTries
  BY DEF TriesLeft
<1>1. ASSUME disp[d].retry, disp'[d].try = disp[d].try
      PROVE  disp'[d].try < MaxTries
  BY <1>1 DEF TriesLeft
<1>2. ASSUME NEW e \in Displays, NEW r \in DisplayRecords, NEW try, StartDisplay(e, r, try)
      PROVE  disp'[d].try < MaxTries \/ disp'[d] = disp[d]
  <2>1. CASE d # e
    BY <1>2, <2>1 DEF StartDisplay, TypeOK
  <2>2. CASE d = e
    <3>1. PICK q : disp' = [disp EXCEPT ![e] = q] /\ (q.retry => q.try < MaxTries)
      <4>1. WithGreeter(r).retry = FALSE /\ WithAutologin(r).retry = FALSE
        BY DEF WithGreeter, WithAutologin, ServerUp, DisplayRecords
      <4>2. \A server : StartFailed(r, server, try).retry => StartFailed(r, server, try).try < MaxTries
        BY DEF StartFailed, DisplayRecords
      <4>. QED BY <1>2, <4>1, <4>2 DEF StartDisplay
    <3>. QED BY <2>2, <3>1 DEF TypeOK
  <2>. QED BY <2>1, <2>2
<1>3. CASE CreateDisplay
  <2>1. PICK e \in Displays, type \in Types : StartDisplay(e, NewDisplay(type), 1)
    BY <1>3, CreatedType
  <2>2. NewDisplay(type) \in DisplayRecords
    BY NewDisplayTyped
  <2>3. disp'[d].try < MaxTries \/ disp'[d] = disp[d]
    BY <1>2, <2>1, <2>2
  <2>. QED BY <1>1, <2>3
<1>4. ASSUME NEW e \in Displays, RetryTimer(e) PROVE disp'[d].try < MaxTries
  <2>1. disp[e] \in DisplayRecords
    BY DEF TypeOK
  <2>2. disp'[d].try < MaxTries \/ disp'[d] = disp[d]
    BY <1>2, <1>4, <2>1 DEF RetryTimer
  <2>. QED BY <1>1, <2>2
<1>5. ASSUME NEW e \in Displays, DestroyDisplay(e) PROVE disp'[d].try < MaxTries
  BY <1>1, <1>5 DEF DestroyDisplay, NoDisplay, TypeOK
<1>6. ASSUME NEW e, NEW c, NEW code, e \in Displays, StopGreeter(e, c) \/ GreeterReaped(e, code, c)
      PROVE  disp'[d].try < MaxTries
  <2>1. \/ disp' = disp
        \/ disp' = [disp EXCEPT ![e].greeter = "OTHER"]
        \/ disp' = [disp EXCEPT ![e].greeter = "ended", ![e].reported = FALSE]
    BY <1>6 DEF StopGreeter, GreeterReaped
  <2>2. disp[d].retry /\ disp'[d].try = disp[d].try
    <3>1. CASE disp' = disp
      BY <3>1
    <3>2. CASE disp' = [disp EXCEPT ![e].greeter = "OTHER"]
      BY <1>6, <3>2 DEF TypeOK, DisplayRecords
    <3>3. CASE disp' = [disp EXCEPT ![e].greeter = "ended", ![e].reported = FALSE]
      BY <1>6, <3>3 DEF TypeOK, DisplayRecords
    <3>. QED BY <2>1, <3>1, <3>2, <3>3
  <2>. QED BY <1>1, <2>2
<1>7. ASSUME DisplayStopsAuth \/ DisplayStopsServer \/ RemoveDisplay \/ DisplayRemoved
      PROVE  disp'[d].try < MaxTries
  <2>1. disp[d].retry /\ disp'[d].try = disp[d].try
    <3>1. CASE DisplayStopsAuth
      <4>1. disp' = disp \/ \E v : disp' = [disp EXCEPT ![Top.display].helper = v]
        BY <3>1 DEF DisplayStopsAuth, HelperReaped
      <4>2. CASE disp' = disp
        BY <4>2
      <4>3. ASSUME NEW v, disp' = [disp EXCEPT ![Top.display].helper = v]
            PROVE  disp[d].retry /\ disp'[d].try = disp[d].try
        BY <4>3 DEF TypeOK, DisplayRecords
      <4>. QED BY <4>1, <4>2, <4>3
    <3>2. CASE DisplayStopsServer
      BY <3>2 DEF DisplayStopsServer, TypeOK, DisplayRecords
    <3>3. CASE RemoveDisplay
      BY <3>3 DEF RemoveDisplay, TypeOK, DisplayRecords
    <3>4. CASE DisplayRemoved
      BY <3>4 DEF DisplayRemoved, TypeOK, DisplayRecords
    <3>. QED BY <1>7, <3>1, <3>2, <3>3, <3>4
  <2>. QED BY <1>1, <2>1
<1>8. ASSUME DisplayStopsGreeter \/ GreeterStops PROVE disp'[d].try < MaxTries
  <2>1. Top.display \in Displays
    BY <1>8, TopTyped, FrameTypes DEF DisplayStopsGreeter, GreeterStops, At
  <2>. QED BY <1>6, <1>8, <2>1 DEF DisplayStopsGreeter, GreeterStops
<1>9. ASSUME NEW e \in Displays, GreeterFinished(e) PROVE disp'[d].try < MaxTries
  BY <1>6, <1>9 DEF GreeterFinished
<1>10. ASSUME NEW e \in Displays, ServerFinished(e) \/ GreeterReports(e) \/ HelperFinished(e)
                                    \/ GreeterStopTimer(e) \/ FromUsers(e) \/ Processes(e)
                                    \/ DestroyGreeterAuth(e)
       PROVE  disp'[d].try < MaxTries
  <2>1. disp[d].retry /\ disp'[d].try = disp[d].try
    <3>1. CASE ServerFinished(e)
      BY <3>1 DEF ServerFinished, TypeOK, DisplayRecords
    <3>2. CASE GreeterReports(e)
      <4>1. PICK b \in BOOLEAN, l \in BOOLEAN, g \in Greeters :
              disp' = [disp EXCEPT ![e].report = "none", ![e].reported = b, ![e].late = l,
                                   ![e].greeter = g]
        BY <3>2, ReportRead
      <4>. QED BY <4>1 DEF TypeOK, DisplayRecords
    <3>3. CASE HelperFinished(e)
      BY <3>3 DEF HelperFinished, HelperReaped, TypeOK, DisplayRecords
    <3>4. CASE GreeterStopTimer(e)
      BY <3>4 DEF GreeterStopTimer, TypeOK, DisplayRecords
    <3>5. CASE LogsIn(e)
      BY <3>5 DEF LogsIn, TypeOK, DisplayRecords
    <3>6. CASE HelperRefused(e)
      BY <3>6 DEF HelperRefused, TypeOK, DisplayRecords
    <3>7. CASE SessionStarts(e)
      BY <3>7 DEF SessionStarts, TypeOK, DisplayRecords
    <3>8. CASE ServerDies(e)
      BY <3>8 DEF ServerDies, TypeOK, DisplayRecords
    <3>9. CASE GreeterExits(e)
      BY <3>9 DEF GreeterExits, TypeOK, DisplayRecords
    <3>10. CASE HelperExits(e)
      BY <3>10 DEF HelperExits, TypeOK, DisplayRecords
    <3>11. CASE GreeterSendsReport(e)
      BY <3>11 DEF GreeterSendsReport, TypeOK, DisplayRecords
    <3>12. CASE DestroyGreeterAuth(e)
      BY <3>12 DEF DestroyGreeterAuth, TypeOK, DisplayRecords
    <3>. QED BY <1>10, <3>1, <3>2, <3>3, <3>4, <3>5, <3>6, <3>7, <3>8, <3>9, <3>10, <3>11, <3>12
         DEF FromUsers, Processes
  <2>. QED BY <1>1, <2>1
<1>11. CASE SwitchToGreeter \/ UNCHANGED vars
  BY <1>1, <1>11 DEF SwitchToGreeter, vars
<1>. QED
  BY <1>3, <1>4, <1>5, <1>7, <1>8, <1>9, <1>10, <1>11 DEF Next, CallGoesOn, Served

\* A set flag has a helper, or was set late.
LEMMA GreeterStopStep == TypeOK /\ GreeterStopIsSafe /\ [Next]_vars => GreeterStopIsSafe'
<1>. DEFINE Safe(r) == r.reported => r.greeter \notin {"none", "ended"} \/ r.late
<1> SUFFICES ASSUME TypeOK, GreeterStopIsSafe, [Next]_vars, NEW d \in Displays
             PROVE  Safe(disp'[d])
  BY DEF GreeterStopIsSafe
<1>0. Safe(disp[d]) /\ disp[d] \in DisplayRecords
  BY DEF GreeterStopIsSafe, TypeOK
<1>. DEFINE Kept == /\ disp'[d].reported = disp[d].reported
                    /\ disp'[d].greeter = disp[d].greeter
                    /\ disp'[d].late = disp[d].late
<1>1. ASSUME Kept PROVE Safe(disp'[d])
  BY <1>0, <1>1
<1>2. ASSUME NEW e \in Displays, NEW r, NEW try, StartDisplay(e, r, try), r \in DisplayRecords,
             Safe(r)
      PROVE  Safe(disp'[d])
  <2>1. CASE d # e
    BY <1>1, <1>2, <2>1 DEF StartDisplay, TypeOK
  <2>2. CASE d = e
    <3>1. PICK q : disp' = [disp EXCEPT ![e] = q] /\ Safe(q)
      <4>2. /\ WithGreeter(r).greeter = "starting"
            /\ WithAutologin(r).greeter = r.greeter /\ WithAutologin(r).reported = r.reported
            /\ WithAutologin(r).late = r.late
        BY <1>2 DEF WithGreeter, WithAutologin, ServerUp, DisplayRecords
      <4>3. \A server : /\ StartFailed(r, server, try).greeter = r.greeter
                        /\ StartFailed(r, server, try).reported = r.reported
                        /\ StartFailed(r, server, try).late = r.late
        BY <1>2 DEF StartFailed, DisplayRecords
      <4>. QED BY <1>2, <4>2, <4>3 DEF StartDisplay
    <3>. QED BY <2>2, <3>1 DEF TypeOK
  <2>. QED BY <2>1, <2>2
<1>3. CASE CreateDisplay
  <2>1. PICK e \in Displays, type \in Types : StartDisplay(e, NewDisplay(type), 1)
    BY <1>3, CreatedType
  <2>2. NewDisplay(type) \in DisplayRecords /\ Safe(NewDisplay(type))
    BY NewDisplayTyped DEF NewDisplay, NoDisplay
  <2>. QED BY <1>2, <2>1, <2>2
<1>4. ASSUME NEW e \in Displays, RetryTimer(e) PROVE Safe(disp'[d])
  <2>1. disp[e] \in DisplayRecords /\ Safe(disp[e])
    BY DEF TypeOK, GreeterStopIsSafe
  <2>. QED BY <1>2, <1>4, <2>1 DEF RetryTimer
<1>5. ASSUME NEW e \in Displays, DestroyDisplay(e) PROVE Safe(disp'[d])
  <2>1. CASE d # e
    BY <1>1, <1>5, <2>1 DEF DestroyDisplay, TypeOK
  <2>2. CASE d = e
    BY <1>5, <2>2 DEF DestroyDisplay, NoDisplay, TypeOK
  <2>. QED BY <2>1, <2>2
<1>6. ASSUME NEW e, NEW c, NEW code, e \in Displays, GreeterReaped(e, code, c)
      PROVE  Safe(disp'[d])
  <2>1. CASE d # e
    BY <1>1, <1>6, <2>1 DEF GreeterReaped, TypeOK
  <2>2. CASE d = e
    <3>1. disp'[d].reported = FALSE
      BY <1>6, <2>2 DEF GreeterReaped, TypeOK, DisplayRecords
    <3>. QED BY <3>1
  <2>. QED BY <2>1, <2>2
<1>7. ASSUME NEW e, NEW c, e \in Displays, StopGreeter(e, c)
      PROVE  Safe(disp'[d])
  <2>1. CASE disp' = [disp EXCEPT ![e].greeter = "OTHER"]
    <3>1. CASE d # e
      BY <1>1, <2>1, <3>1 DEF TypeOK
    <3>2. CASE d = e
      <4>1. disp'[d].greeter = "OTHER"
        BY <1>0, <2>1, <3>2 DEF TypeOK, DisplayRecords
      <4>. QED BY <4>1
    <3>. QED BY <3>1, <3>2
  <2>2. CASE disp' = disp
    BY <1>1, <2>2
  <2>. QED BY <1>6, <1>7, <2>1, <2>2 DEF StopGreeter
<1>8. ASSUME DisplayStopsGreeter \/ GreeterStops PROVE Safe(disp'[d])
  <2>1. Top.display \in Displays
    BY <1>8, TopTyped, FrameTypes DEF DisplayStopsGreeter, GreeterStops, At
  <2>. QED BY <1>7, <1>8, <2>1 DEF DisplayStopsGreeter, GreeterStops
<1>9. ASSUME \/ DisplayStopsAuth \/ DisplayStopsServer \/ RemoveDisplay \/ DisplayRemoved
             \/ \E e \in Displays :
                  \/ ServerFinished(e) \/ HelperFinished(e) \/ GreeterStopTimer(e)
                  \/ LogsIn(e) \/ SessionStarts(e) \/ GreeterSendsReport(e) \/ ServerDies(e)
                  \/ HelperExits(e)
      PROVE  Safe(disp'[d])
  <2>1. Kept
    <3>1. CASE DisplayStopsAuth
      <4>1. disp' = disp \/ \E v : disp' = [disp EXCEPT ![Top.display].helper = v]
        BY <3>1 DEF DisplayStopsAuth, HelperReaped
      <4>2. CASE disp' = disp
        BY <4>2
      <4>3. ASSUME NEW v, disp' = [disp EXCEPT ![Top.display].helper = v] PROVE Kept
        BY <1>0, <4>3 DEF TypeOK, DisplayRecords
      <4>. QED BY <4>1, <4>2, <4>3
    <3>2. CASE DisplayStopsServer
      BY <1>0, <3>2 DEF DisplayStopsServer, TypeOK, DisplayRecords
    <3>3. CASE RemoveDisplay
      BY <1>0, <3>3 DEF RemoveDisplay, TypeOK, DisplayRecords
    <3>4. CASE DisplayRemoved
      BY <1>0, <3>4 DEF DisplayRemoved, TypeOK, DisplayRecords
    <3>5. ASSUME NEW e \in Displays, ServerFinished(e) PROVE Kept
      BY <1>0, <3>5 DEF ServerFinished, TypeOK, DisplayRecords
    <3>6. ASSUME NEW e \in Displays, HelperFinished(e) PROVE Kept
      BY <1>0, <3>6 DEF HelperFinished, HelperReaped, TypeOK, DisplayRecords
    <3>7. ASSUME NEW e \in Displays, GreeterStopTimer(e) PROVE Kept
      BY <1>0, <3>7 DEF GreeterStopTimer, TypeOK, DisplayRecords
    <3>8. ASSUME NEW e \in Displays, LogsIn(e) PROVE Kept
      BY <1>0, <3>8 DEF LogsIn, TypeOK, DisplayRecords
    <3>9. ASSUME NEW e \in Displays, SessionStarts(e) PROVE Kept
      BY <1>0, <3>9 DEF SessionStarts, TypeOK, DisplayRecords
    <3>10. ASSUME NEW e \in Displays, GreeterSendsReport(e) PROVE Kept
      BY <1>0, <3>10 DEF GreeterSendsReport, TypeOK, DisplayRecords
    <3>11. ASSUME NEW e \in Displays, ServerDies(e) PROVE Kept
      BY <1>0, <3>11 DEF ServerDies, TypeOK, DisplayRecords
    <3>12. ASSUME NEW e \in Displays, HelperExits(e) PROVE Kept
      BY <1>0, <3>12 DEF HelperExits, TypeOK, DisplayRecords
    <3>. QED BY <1>9, <3>1, <3>2, <3>3, <3>4, <3>5, <3>6, <3>7, <3>8, <3>9, <3>10, <3>11, <3>12
  <2>. QED BY <1>1, <2>1
<1>10. ASSUME NEW e \in Displays, GreeterFinished(e) PROVE Safe(disp'[d])
  BY <1>6, <1>10 DEF GreeterFinished
<1>12. ASSUME NEW e \in Displays, GreeterReports(e) PROVE Safe(disp'[d])
  <2>1. PICK b \in BOOLEAN, l \in BOOLEAN, g \in Greeters :
          /\ disp' = [disp EXCEPT ![e].report = "none", ![e].reported = b, ![e].late = l,
                                  ![e].greeter = g]
          /\ b => g \notin {"none", "ended"} \/ l
    BY <1>12, ReportRead
  <2>2. CASE d # e
    BY <1>1, <2>1, <2>2 DEF TypeOK
  <2>3. CASE d = e
    <3>1. disp'[d].reported = b /\ disp'[d].late = l /\ disp'[d].greeter = g
      BY <1>0, <2>1, <2>3 DEF TypeOK, DisplayRecords
    <3>. QED BY <2>1, <3>1
  <2>. QED BY <2>2, <2>3
<1>13. ASSUME NEW e \in Displays, HelperRefused(e) \/ GreeterExits(e) \/ DestroyGreeterAuth(e)
       PROVE  Safe(disp'[d])
  <2>1. CASE d # e
    BY <1>1, <1>13, <2>1 DEF HelperRefused, GreeterExits, DestroyGreeterAuth, TypeOK
  <2>2. CASE d = e /\ HelperRefused(e)
    BY <1>0, <2>2 DEF HelperRefused, TypeOK, DisplayRecords
  <2>3. CASE d = e /\ GreeterExits(e)
    <3>1. PICK code \in GreeterCodes : disp' = [disp EXCEPT ![e].greeter = code]
      BY <2>3 DEF GreeterExits, GreeterCodes
    <3>2. disp'[d].greeter = code
      BY <1>0, <2>3, <3>1 DEF TypeOK, DisplayRecords
    <3>. QED BY <3>1, <3>2 DEF GreeterCodes
  <2>4. CASE d = e /\ DestroyGreeterAuth(e)
    BY <1>0, <2>4 DEF DestroyGreeterAuth, TypeOK, DisplayRecords
  <2>. QED BY <1>13, <2>1, <2>2, <2>3, <2>4
<1>15. CASE SwitchToGreeter \/ UNCHANGED vars
  BY <1>1, <1>15 DEF SwitchToGreeter, vars
<1>. QED
  BY <1>3, <1>4, <1>5, <1>8, <1>9, <1>10, <1>12, <1>13, <1>15
     DEF Next, CallGoesOn, Served, FromUsers, Processes

-----------------------------------------------------------------------------
(* The theorems *)

\* The seat starts with the call that creates its first display.
LEMMA InvInit == Init => Inv
<1> SUFFICES ASSUME Init PROVE Inv
  OBVIOUS
<1>. DEFINE f == Frame("create", 0, "default")
<1>1. /\ f.at = "create" /\ stack = <<f>> /\ f \in Frames
      /\ Len(stack) = 1 /\ stack[1] = f
  BY DEF Init, CreateDefault, Frame, Frames
<1>2. TypeOK
  <2>1. app \in AppRecords
    BY SeatAssumption DEF Init, AppRecords
  <2>. QED BY <2>1, NewDisplayTyped, FrameTypes DEF Init, TypeOK
<1>3. Nested(stack, disp, seat)
  <2>. HIDE DEF f
  <2>1. \A i \in 1 .. Len(stack) : i = Len(stack) /\ stack[i].at = "create"
    BY <1>1
  <2>. QED BY <2>1 DEF Nested, CallsNest, ChangesOneByOne, RemovedAfterStop
<1>4. ListedInUse(disp, seat)
  BY DEF Init, ListedInUse, NoDisplay
<1>5. Balanced(stack, seat, app)
  <2>. HIDE DEF f
  <2>1. seat = {} /\ app.switches = 0 /\ Cardinality(seat) = 0
    BY FS_EmptySet DEF Init
  <2>2. 1 \in 1 .. Len(stack) /\ stack[1].at = "create"
    BY <1>1
  <2>. QED BY <2>1, <2>2 DEF Balanced
<1>6. TriesLeft /\ GreeterStopIsSafe
  BY DEF Init, TriesLeft, GreeterStopIsSafe, NoDisplay
<1>. QED BY <1>2, <1>3, <1>4, <1>5, <1>6 DEF Inv, Core

\* Every step keeps the invariant.
LEMMA InvStep == Inv /\ [Next]_vars => Inv'
BY TypeStep, CoreStep, TriesStep, GreeterStopStep DEF Inv

\* The invariant holds in every reachable state.
LEMMA SeatInvariant == Spec => []Inv
BY InvInit, InvStep, PTL DEF Spec

\* Whenever the event loop turns, the seat has a display, unless the daemon has
\* given up, whatever was stopped, failed or removed inside what: for every
\* number of displays, tries and switches, every configured display server.
THEOREM SeatNeverDark == Spec => []SeatKeepsADisplay
<1>1. Inv => SeatKeepsADisplay
  BY EmptySeq DEF Inv, Core, Balanced, SeatKeepsADisplay
<1>. QED BY <1>1, SeatInvariant, PTL

\* A seat never has more displays than were asked for: one, and one for every
\* switchToGreeter; however often a display reports its end it is replaced once.
THEOREM DisplaysAreNotDoubled == Spec => []OneDisplayPerRequest
<1>1. Inv => OneDisplayPerRequest
  BY DEF Inv, Core, Balanced, OneDisplayPerRequest
<1>. QED BY <1>1, SeatInvariant, PTL

\* Greeter::stop follows a null pointer only when the greeter's report was read
\* after onHelperFinished, in the turn before its Auth object is deleted: in
\* every other order of report, end and handling, m_started implies the helper.
THEOREM GreeterStopHasAHelper == Spec => []GreeterStopIsSafe
<1>1. Inv => GreeterStopIsSafe
  BY DEF Inv
<1>. QED BY <1>1, SeatInvariant, PTL

\* The displays, the calls in progress and the counters keep their types.
THEOREM SeatTypeCorrect == Spec => []TypeOK
<1>1. Inv => TypeOK
  BY DEF Inv
<1>. QED BY <1>1, SeatInvariant, PTL
=============================================================================
