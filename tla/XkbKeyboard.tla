----------------------------- MODULE XkbKeyboard -----------------------------
(***************************************************************************)
(* KeyboardModel with its back ends.  On X11 the state of the locks and the *)
(* layout is the server's; the greeter keeps a copy, which it corrects from *)
(* StateNotify events and overwrites the server with as a whole when the    *)
(* theme changes a part of it:                                             *)
(*                                                                         *)
(*   theme -> KeyboardModel (copy) -- latch_lock_state --> X server         *)
(*                 ^--- queue (xcb) <-- wire (socket) <-- events --'        *)
(*                                                                         *)
(* xcb puts every event it meets while it waits for a reply in a queue of   *)
(* its own, and the socket notifier does not fire for those.                *)
(***************************************************************************)
EXTENDS Integers, Sequences, FiniteSets, SequencesExt

CONSTANTS
  Platforms,   \* of QGuiApplication: "xcb", "wayland"
  Layouts,     \* symbols of a keyboard: the tokens its name is made of
  Numlock      \* what the configuration may say: "on", "off", "none"

(* The name of the symbols of a keyboard, "pc+us+ru:2+inet(evdev)": tokens that *)
(* begin with a +, at the characters the expression matches.                  *)

Blacklist == {"inet", "group"}

GroupCount(text) == Cardinality({i \in DOMAIN text : text[i].name \notin Blacklist})

End(text) == Last(text).at + Last(text).length

\* parseShortNames.  The position moves by the length of the match and not to its
\* end: behind a gap a token is matched more than once, and the layouts after it get
\* the names of others.
ParseShortNames(text) ==
  LET from[pos \in 0 .. End(text)] ==
        LET next == {i \in DOMAIN text : text[i].at >= pos} IN
        IF next = {} THEN <<>>
        ELSE LET t == text[Min(next)] IN
             (IF t.name \in Blacklist THEN <<>> ELSE <<t.name>>) \o from[pos + t.length]
  IN from[0]

ASSUME KeyboardAssumption ==
  /\ Platforms \subseteq {"xcb", "wayland"}
  /\ Layouts \subseteq Seq([name : STRING, at : Nat, length : Nat \ {0}])
  /\ \A text \in Layouts :
       /\ \E i \in DOMAIN text : text[i].name \notin Blacklist
       /\ \A i \in 2 .. Len(text) : text[i].at >= text[i - 1].at + text[i - 1].length
  /\ Numlock \subseteq {"on", "off", "none"}

VARIABLES
  keyboard, \* KeyboardModel, KeyboardModelPrivate and the connection
  xserver   \* the X server's side

kbVars == <<keyboard, xserver>>

Locks == [num : BOOLEAN, caps : BOOLEAN, group : Nat]
Off == [num |-> FALSE, caps |-> FALSE, group |-> 0]

\* Where the constructor of KeyboardModel is.
Steps == {"connect", "leds", "layouts", "state", "select", "ready", "checking"}

KeyboardInit ==
  \E platform \in Platforms, text \in Layouts, numlock \in Numlock,
     leds \in [num : BOOLEAN, caps : {TRUE}] :
    /\ keyboard = [platform |-> platform, numlock |-> numlock,
                   pc |-> IF platform = "xcb" THEN "connect" ELSE "ready",
                   enabled |-> TRUE, copy |-> Off, layouts |-> <<>>,
                   mask |-> [num |-> FALSE, caps |-> FALSE],
                   wire |-> <<>>, queue |-> <<>>, notifier |-> FALSE]
    /\ xserver = [locks |-> Off, layouts |-> text, leds |-> leds,
                  selected |-> FALSE, read |-> {}, missed |-> {}]
    /\ platform = "wayland" => text = CHOOSE t \in Layouts : TRUE \* no X server to speak of
    /\ platform = "wayland" => leds.num

-----------------------------------------------------------------------------
(* The server *)

StateNotify(l) == [type |-> "StateNotify", locks |-> l]
NewKeyboardNotify == [type |-> "NewKeyboardNotify"]

\* Whether the greeter learns of a change of what it has read.
Unnoticed(x, what) ==
  [x EXCEPT !.missed = IF x.selected THEN @ \ {what} ELSE @ \cup ({what} \cap x.read)]

\* The server's state becomes l; whoever selected the events is told.
Becomes(x, w, l) ==
  IF x.locks = l THEN [x |-> x, wire |-> w]
  ELSE [x |-> Unnoticed([x EXCEPT !.locks = l], "locks"),
        wire |-> IF x.selected THEN Append(w, StateNotify(l)) ELSE w]

\* A key of the keyboard changes a lock or the layout.
Key ==
  \E l \in {[xserver.locks EXCEPT !.num = ~@], [xserver.locks EXCEPT !.caps = ~@],
             [xserver.locks EXCEPT !.group = (@ + 1) % GroupCount(xserver.layouts)]} :
    LET b == Becomes(xserver, keyboard.wire, l)
    IN xserver' = b.x /\ keyboard' = [keyboard EXCEPT !.wire = b.wire]

\* Another keyboard, with other layouts, takes over.
NewKeyboard ==
  \E text \in Layouts \ {xserver.layouts} :
    LET x == Unnoticed([xserver EXCEPT !.layouts = text], "layouts")
        w == IF x.selected THEN Append(keyboard.wire, NewKeyboardNotify) ELSE keyboard.wire
        b == Becomes(x, w, [x.locks EXCEPT !.group = @ % GroupCount(text)])
    IN xserver' = b.x /\ keyboard' = [keyboard EXCEPT !.wire = b.wire]

-----------------------------------------------------------------------------
(* XcbKeyboardBackend::init and connectEventsDispatcher, each a round trip. *)
(* A failing one disables the model and the rest of init is left out.       *)

\* What a round trip finds on the socket before its reply goes to the queue.
Reply(k) == [k EXCEPT !.queue = @ \o k.wire, !.wire = <<>>]

Disable(k) == [k EXCEPT !.enabled = FALSE, !.pc = "select"]

ConnectToDisplay ==
  /\ keyboard.pc = "connect"
  /\ keyboard' \in {[keyboard EXCEPT !.pc = "leds"], Disable(keyboard)}
  /\ UNCHANGED xserver

\* A lock without an indicator keeps the mask 0.
InitLedMap ==
  /\ keyboard.pc = "leds"
  /\ keyboard' \in {[keyboard EXCEPT !.pc = "layouts", !.mask = xserver.leds], Disable(keyboard)}
  /\ UNCHANGED xserver

\* A KeyboardLayout for every group, with the short name of the same index.
InitLayouts(k) ==
  LET short == ParseShortNames(xserver.layouts)
  IN [Reply(k) EXCEPT !.layouts =
        [i \in 1 .. GroupCount(xserver.layouts) |-> IF i <= Len(short) THEN short[i] ELSE ""]]

FirstLayouts ==
  /\ keyboard.pc = "layouts"
  /\ keyboard' = [InitLayouts(keyboard) EXCEPT !.pc = "state"]
  /\ xserver' = [xserver EXCEPT !.read = {"layouts"}]

\* A lock is on when one of its modifiers is, so never without a mask.
Seen(mask, l) == [num |-> l.num /\ mask.num, caps |-> l.caps /\ mask.caps, group |-> l.group]

InitState ==
  /\ keyboard.pc = "state"
  /\ \/ /\ keyboard' = [keyboard EXCEPT !.pc = "select", !.copy = Seen(keyboard.mask, xserver.locks)]
        /\ xserver' = [xserver EXCEPT !.read = @ \cup {"locks"}]
     \/ keyboard' = Disable(keyboard) /\ UNCHANGED xserver

\* Without the extension the events cannot be selected and nothing is listened to.
ConnectEventsDispatcher ==
  /\ keyboard.pc = "select"
  /\ IF keyboard.enabled
       THEN \/ /\ keyboard' = [keyboard EXCEPT !.pc = "ready", !.notifier = TRUE]
               /\ xserver' = [xserver EXCEPT !.selected = TRUE]
            \/ /\ keyboard' = [keyboard EXCEPT !.pc = "ready", !.enabled = FALSE]
               /\ UNCHANGED xserver
       ELSE keyboard' = [keyboard EXCEPT !.pc = "ready"] /\ UNCHANGED xserver

-----------------------------------------------------------------------------
(* KeyboardModel in the event loop *)

\* Mutant of SendChanges: only the locks are sent.
SendLocks(l) ==
  LET n == xserver.locks
      to == [num |-> IF keyboard.mask.num THEN l.num ELSE n.num,
             caps |-> IF keyboard.mask.caps THEN l.caps ELSE n.caps, group |-> n.group]
      b == Becomes(xserver, keyboard.wire, to)
  IN /\ xserver' = b.x
     /\ keyboard' = [keyboard EXCEPT !.copy = l, !.wire = b.wire, !.pc = "checking"]

\* A layout the keyboard no longer has becomes another one, for which there is
\* no event when it is the present one.
Wrapped(x, l) ==
  [x EXCEPT !.missed = IF l.group < GroupCount(x.layouts) THEN @ ELSE @ \cup {"locks"}]

\* sendChanges: both locks, as far as they have masks, and the layout.
SendChanges(l) ==
  LET n == xserver.locks
      to == [num |-> IF keyboard.mask.num THEN l.num ELSE n.num,
             caps |-> IF keyboard.mask.caps THEN l.caps ELSE n.caps,
             group |-> l.group % GroupCount(xserver.layouts)]
      b == Becomes(Wrapped(xserver, l), keyboard.wire, to)
  IN /\ xserver' = b.x
     /\ keyboard' = [keyboard EXCEPT !.copy = l, !.wire = b.wire, !.pc = "checking"]

\* setNumLockState, setCapsLockState, setCurrentLayout with a value that is new
\* to the model; the wayland back end sends nothing.
Set(l) ==
  /\ keyboard.pc = "ready" /\ keyboard.copy # l
  /\ IF keyboard.platform = "xcb" THEN SendChanges(l)
     ELSE keyboard' = [keyboard EXCEPT !.copy = l] /\ UNCHANGED xserver

\* The theme's buttons, which offer the layouts of the model.
ThemeSets ==
  \E l \in {[keyboard.copy EXCEPT !.num = ~@], [keyboard.copy EXCEPT !.caps = ~@]}
          \cup {[keyboard.copy EXCEPT !.group = i] : i \in 0 .. Len(keyboard.layouts) - 1} :
    Set(l)

\* xcb_request_check returns.
Checked ==
  /\ keyboard.pc = "checking"
  /\ keyboard' = [Reply(keyboard) EXCEPT !.pc = "ready"]
  /\ UNCHANGED xserver

\* dispatchEvents, when the socket is readable: every event there is, those in
\* the queue first.  The last state stays, and the layouts are as they are now.
DispatchEvents ==
  /\ keyboard.pc = "ready" /\ keyboard.notifier /\ keyboard.wire # <<>>
  /\ LET events == keyboard.queue \o keyboard.wire
         Of(type) == {i \in DOMAIN events : events[i].type = type}
         k == IF Of("NewKeyboardNotify") = {} THEN keyboard ELSE InitLayouts(keyboard)
         states == Of("StateNotify")
         copy == IF states = {} THEN k.copy ELSE Seen(k.mask, events[Max(states)].locks)
     IN keyboard' = [k EXCEPT !.copy = copy, !.wire = <<>>, !.queue = <<>>]
  /\ UNCHANGED xserver

\* The constructor of KeyboardModel.
KeyboardConstructor ==
  ConnectToDisplay \/ InitLedMap \/ FirstLayouts \/ InitState \/ ConnectEventsDispatcher

-----------------------------------------------------------------------------
(* Properties *)

\* Once the greeter has read what the X server sent, its copy is the server's
\* state, for the locks that have an indicator: no order of key presses and
\* changes by the theme makes one undo the other for good.  Except until the
\* next event after a change between the reading of the state and the selection
\* of the events, or after the choice of a layout that has just gone away.
KeyboardAgrees ==
  (/\ keyboard.pc = "ready" /\ keyboard.notifier /\ keyboard.wire = <<>> /\ keyboard.queue = <<>>
   /\ xserver.missed = {}) =>
    /\ Len(keyboard.layouts) = GroupCount(xserver.layouts)
    /\ keyboard.copy.group = xserver.locks.group
    /\ keyboard.mask.num => keyboard.copy.num = xserver.locks.num
    /\ keyboard.mask.caps => keyboard.copy.caps = xserver.locks.caps
=============================================================================
