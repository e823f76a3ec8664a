----------------------------- MODULE SeatManager -----------------------------
(***************************************************************************)
(* The daemon's start, its seats and their D-Bus objects: DaemonApp,        *)
(* SeatManager with its LogindSeat objects, DisplayManager, SignalHandler.  *)
(*                                                                         *)
(*   logind <-- calls -- bus <-- out -- daemon                             *)
(*          ------------- events ------->                                  *)
(*                                                                         *)
(* The daemon asks logind for the seats and then for each seat's            *)
(* CanGraphical without waiting, while SeatNew, SeatRemoved and             *)
(* PropertiesChanged arrive; the bus forwards a signal only once it has     *)
(* read the match rule for it.  "events" is the queue of the daemon's event *)
(* loop: what the bus delivered and what deleteLater posted, in order.      *)
(***************************************************************************)
EXTENDS Integers, Sequences, FiniteSets, SequencesExt

CONSTANTS
  Seats,      \* the names logind may use, "seat0" among them
  Services,   \* what the bus may offer at the start: see ServiceStates
  MaxChanges, \* bound for each seat on its being added, removed or changed in logind
  MaxSwitches \* bound on the calls of SwitchToGreeter

\* Who answers for seats: logind, ConsoleKit, ConsoleKit once it is started, nobody.
ServiceStates == {"login1", "consoleKit", "activatable", "none"}

\* Logind's manager, which has a match rule of its own; no seat is called that.
Manager == "manager"

ASSUME SeatManagerAssumption ==
  /\ Services \subseteq ServiceStates
  /\ "seat0" \in Seats /\ Manager \notin Seats /\ IsFiniteSet(Seats)
  /\ MaxChanges \in [Seats -> Nat] /\ MaxSwitches \in Nat

VARIABLES
  system,  \* the machine: the seat service, logind's seats, changes so far;
           \* "missed" notes which of them OneSeatPerName is not about
  daemon,  \* DaemonApp and what it owns
  out,     \* sent by the daemon, not yet read by the bus
  rules,   \* match rules the bus holds for the daemon
  calls,   \* forwarded to logind, not yet answered
  events,  \* the daemon's event queue
  signals  \* bytes in the socket pairs of SignalHandler

vars == <<system, daemon, out, rules, calls, events, signals>>

Unplugged == [present |-> FALSE, graphical |-> FALSE]

NewDaemon ==
  [pc |-> "starting",
   watched |-> <<>>,                       \* LogindSeat objects ever made
   systemSeats |-> [s \in Seats |-> 0],    \* m_systemSeats
   seats |-> [s \in Seats |-> 0],          \* SeatManager::m_seats
   made |-> <<>>,                          \* Seat objects, each with its D-Bus object
   list |-> <<>>,                          \* DisplayManager::m_seats
   paths |-> [s \in Seats |-> 0],          \* the object registered at each seat's path
   switches |-> 0]

Init ==
  /\ system \in [service : Services, testing : BOOLEAN, changes : {[s \in Seats |-> 0]}, missed : {{}},
                 seats : [Seats -> {Unplugged, [present |-> TRUE, graphical |-> FALSE],
                                               [present |-> TRUE, graphical |-> TRUE]}]]
  /\ daemon = NewDaemon
  /\ out = <<>> /\ rules = {} /\ calls = <<>> /\ events = <<>>
  /\ signals = {}

-----------------------------------------------------------------------------
(* DisplayManager's list.  A handler is an operator on a state d of the     *)
(* daemon; "post" collects what it leaves in the event queue.               *)

\* AddSeat and DisplayManagerSeat: registerObject fails on a path still taken.
AddSeat(d, s, id) ==
  [d EXCEPT !.list = Append(@, id),
            !.paths[s] = IF @ = 0 THEN id ELSE @]

\* RemoveSeat walks over the list while it removes from it: the loop's end is
\* the old end, and behind a removed entry the others move up by one.
Turn(d, s, w, i) ==
  LET id == w.memory[i]
      used == SubSeq(w.memory, 1, w.live)
      j == SelectInSeq(used, LAMBDA x : x = id)
  IN IF d.made[id].seat # s THEN w
     ELSE IF j = 0 THEN [w EXCEPT !.gone = Append(@, id)]
     ELSE [memory |-> RemoveAt(used, j) \o SubSeq(w.memory, w.live, Len(w.memory)),
           live |-> w.live - 1,
           gone |-> Append(w.gone, id)]

RemoveEntries(d, s) ==
  LET after[i \in 0 .. Len(d.list)] ==
        IF i = 0 THEN [memory |-> d.list, live |-> Len(d.list), gone |-> <<>>]
        ELSE Turn(d, s, after[i - 1], i)
  IN after[Len(d.list)]

Delete(what, id) == [type |-> "Delete", what |-> what, of |-> id]

-----------------------------------------------------------------------------
(* SeatManager *)

\* createSeat replaces whatever m_seats held for the name.
CreateSeat(d, s) ==
  LET id == Len(d.made) + 1
  IN AddSeat([d EXCEPT !.made = Append(@, [seat |-> s, alive |-> TRUE, displays |-> 1]),
                       !.seats[s] = id], s, id)

\* Mutant of RemoveSeat: the D-Bus object is taken from the list but not deleted.
RemoveSeatOnly(d, s) ==
  IF d.seats[s] = 0 THEN [d |-> d, post |-> <<>>]
  ELSE LET w == RemoveEntries(d, s)
       IN [d |-> [d EXCEPT !.seats[s] = 0, !.list = SubSeq(w.memory, 1, w.live)],
           post |-> <<Delete("seat", d.seats[s])>>]

\* removeSeat, and DisplayManager::RemoveSeat by its signal.
RemoveSeat(d, s) ==
  IF d.seats[s] = 0 THEN [d |-> d, post |-> <<>>]
  ELSE LET w == RemoveEntries(d, s)
       IN [d |-> [d EXCEPT !.seats[s] = 0, !.list = SubSeq(w.memory, 1, w.live)],
           post |-> <<Delete("seat", d.seats[s])>>
                      \o [i \in DOMAIN w.gone |-> Delete("path", w.gone[i])]]

\* The lambda logindSeatAdded connects to canGraphicalChanged of object o.
CanGraphicalChanged(d, o, value) ==
  LET e == [d EXCEPT !.watched[o].graphical = value]
      s == d.watched[o].seat
  IN IF value THEN [d |-> CreateSeat(e, s), post |-> <<>>] ELSE RemoveSeat(e, s)

Watchers(d, s) == {o \in DOMAIN d.watched : d.watched[o].seat = s /\ d.watched[o].alive}

\* Mutant of LogindSeatAdded: PropertiesChanged is subscribed after the question.
AskThenSubscribe(x, s) ==
  LET o == Len(x.d.watched) + 1
  IN [d |-> [x.d EXCEPT !.watched = Append(@, [seat |-> s, graphical |-> FALSE, alive |-> TRUE]),
                        !.systemSeats[s] = o],
      out |-> x.out \o <<[type |-> "Get", seat |-> s, of |-> o],
                         [type |-> "AddMatch", of |-> s]>>]

\* logindSeatAdded with the constructor of LogindSeat: the rule for its
\* PropertiesChanged is sent unless another object of that path has it.
LogindSeatAdded(x, s) ==
  LET o == Len(x.d.watched) + 1
  IN [d |-> [x.d EXCEPT !.watched = Append(@, [seat |-> s, graphical |-> FALSE, alive |-> TRUE]),
                        !.systemSeats[s] = o],
      out |-> x.out \o (IF Watchers(x.d, s) = {} THEN <<[type |-> "AddMatch", of |-> s]>>
                                                 ELSE <<>>)
                    \o <<[type |-> "Get", seat |-> s, of |-> o]>>]

\* logindSeatRemoved deletes the object m_systemSeats holds, if any.
LogindSeatRemoved(d, s) ==
  LET o == d.systemSeats[s]
      e == [d EXCEPT !.systemSeats[s] = 0,
                     !.watched = IF o = 0 THEN @ ELSE [@ EXCEPT ![o].alive = FALSE]]
      r == RemoveSeat(e, s)
  IN [d |-> r.d, post |-> r.post,
      out |-> IF o # 0 /\ Watchers(e, s) = {} THEN <<[type |-> "RemoveMatch", of |-> s]>>
                                              ELSE <<>>]

-----------------------------------------------------------------------------
(* DaemonApp *)

\* Logind::isAvailable, asked once: logind before ConsoleKit.
HasSeatService(service) == service \in {"login1", "consoleKit"}

\* SeatManager::initialize with a seat service.
FetchSeats == <<[type |-> "ListSeats", of |-> Manager], [type |-> "AddMatch", of |-> Manager]>>

\* The constructor of DaemonApp: ConsoleKit is started when it only could be,
\* then SeatManager::initialize.
Start ==
  /\ daemon.pc = "starting"
  /\ \E service \in IF system.service = "activatable" THEN {"consoleKit", "none"}
                                                     ELSE {system.service} :
       LET run == [daemon EXCEPT !.pc = "running"]
       IN /\ system' = [system EXCEPT !.service = service]
          /\ IF system.testing \/ ~HasSeatService(service)
               THEN daemon' = CreateSeat(run, "seat0") /\ UNCHANGED out
               ELSE daemon' = run /\ out' = FetchSeats
  /\ UNCHANGED <<rules, calls, events, signals>>

Running == daemon.pc = "running"

\* The handler of the first event, given the rest of the queue.
Handle(type) == Running /\ events # <<>> /\ Head(events).type = type

Apply(r) == daemon' = r.d /\ events' = Tail(events) \o r.post

\* logindSeatAdded for each of the seats, after i of them.
SeatsAdded(x, seats) ==
  LET after[i \in 0 .. Len(seats)] ==
        IF i = 0 THEN x ELSE LogindSeatAdded(after[i - 1], seats[i])
  IN after[Len(seats)]

SeatsListed ==
  /\ Handle("Seats")
  /\ LET x == SeatsAdded([d |-> daemon, out |-> out], Head(events).seats)
     IN daemon' = x.d /\ out' = x.out
  /\ events' = Tail(events)
  /\ UNCHANGED <<system, rules, calls, signals>>

SeatNew ==
  /\ Handle("SeatNew")
  /\ LET x == LogindSeatAdded([d |-> daemon, out |-> out], Head(events).of)
     IN daemon' = x.d /\ out' = x.out
  /\ events' = Tail(events)
  /\ UNCHANGED <<system, rules, calls, signals>>

SeatRemoved ==
  /\ Handle("SeatRemoved")
  /\ LET r == LogindSeatRemoved(daemon, Head(events).of)
     IN Apply(r) /\ out' = out \o r.out
  /\ UNCHANGED <<system, rules, calls, signals>>

\* Mutant of GotValue: every valid answer is announced.
GotValueAlways ==
  /\ Handle("Value")
  /\ LET e == Head(events)
     IN IF ~daemon.watched[e.of].alive \/ ~e.valid
          THEN events' = Tail(events) /\ UNCHANGED daemon
          ELSE Apply(CanGraphicalChanged(daemon, e.of, e.value))
  /\ UNCHANGED <<system, out, rules, calls, signals>>

\* The answer to CanGraphical: dropped with its object, or when it is an error,
\* or when it says what is known.
GotValue ==
  /\ Handle("Value")
  /\ LET e == Head(events)
         w == daemon.watched[e.of]
     IN IF ~w.alive \/ ~e.valid \/ e.value = w.graphical
          THEN events' = Tail(events) /\ UNCHANGED daemon
          ELSE Apply(CanGraphicalChanged(daemon, e.of, e.value))
  /\ UNCHANGED <<system, out, rules, calls, signals>>

\* LogindSeat::propertiesChanged of every object of that path, in the order
\* they were made; the signal is emitted whatever the value was.
Told(r, o, value) ==
  LET n == CanGraphicalChanged(r.d, o, value)
  IN [d |-> n.d, post |-> r.post \o n.post]

AllTold(d, s, value) ==
  LET after[o \in 0 .. Len(d.watched)] ==
        IF o = 0 THEN [d |-> d, post |-> <<>>]
        ELSE IF o \in Watchers(d, s) THEN Told(after[o - 1], o, value) ELSE after[o - 1]
  IN after[Len(d.watched)]

PropertiesChanged ==
  /\ Handle("Changed")
  /\ Apply(AllTold(daemon, Head(events).of, Head(events).value))
  /\ UNCHANGED <<system, out, rules, calls, signals>>

\* A deferred deletion: a Seat ends with its displays, a DisplayManagerSeat
\* leaves its path.
Deleted ==
  /\ Handle("Delete")
  /\ LET e == Head(events)
         s == daemon.made[e.of].seat
     IN daemon' = IF e.what = "seat"
                    THEN [daemon EXCEPT !.made[e.of].alive = FALSE]
                    ELSE [daemon EXCEPT !.paths[s] = IF @ = e.of THEN 0 ELSE @]
  /\ events' = Tail(events)
  /\ UNCHANGED <<system, out, rules, calls, signals>>

\* DisplayManagerSeat::SwitchToGreeter and SeatManager::switchToGreeter, called
\* by a client on a path the daemon has registered.
SwitchToGreeter(s) ==
  /\ Running /\ daemon.paths[s] # 0 /\ daemon.switches < MaxSwitches
  /\ daemon' = [daemon EXCEPT !.switches = @ + 1,
                              !.made = IF daemon.seats[s] = 0 THEN @
                                       ELSE [daemon.made EXCEPT ![daemon.seats[s]].displays = @ + 1]]
  /\ UNCHANGED <<system, out, rules, calls, events, signals>>

\* The handler of SIGINT or SIGTERM writes one byte to its socket pair; the
\* first of them ends the daemon, so one is enough.
Signalled(sig) ==
  /\ Running /\ signals = {}
  /\ signals' = {sig}
  /\ UNCHANGED <<system, daemon, out, rules, calls, events>>

\* handleSigint, handleSigterm and DaemonApp::quit: the loop ends and every
\* object goes with the application, the connection to the bus included.
HandleSignal(sig) ==
  /\ Running /\ sig \in signals
  /\ signals' = signals \ {sig}
  /\ daemon' = [NewDaemon EXCEPT !.pc = "stopped"]
  /\ out' = <<>> /\ rules' = {} /\ calls' = <<>> /\ events' = <<>>
  /\ UNCHANGED system

-----------------------------------------------------------------------------
(* The bus and logind *)

Emit(rule, msg) ==
  events' = IF Running /\ rule \in rules THEN Append(events, msg) ELSE events

\* The bus reads what the daemon sent: rules take effect, calls go to logind.
BusReads ==
  /\ out # <<>>
  /\ out' = Tail(out)
  /\ LET m == Head(out)
     IN CASE m.type = "AddMatch"    -> rules' = rules \cup {m.of} /\ UNCHANGED calls
          [] m.type = "RemoveMatch" -> rules' = rules \ {m.of} /\ UNCHANGED calls
          [] OTHER                  -> calls' = Append(calls, m) /\ UNCHANGED rules
  /\ UNCHANGED <<system, daemon, events, signals>>

LogindAnswers ==
  /\ calls # <<>>
  /\ calls' = Tail(calls)
  /\ LET m == Head(calls)
         present == {s \in Seats : system.seats[s].present}
     IN events' = Append(events,
          IF m.type = "ListSeats"
            THEN [type |-> "Seats", seats |-> SetToSeq(present)]
            ELSE [type |-> "Value", of |-> m.of, valid |-> system.seats[m.seat].present,
                  value |-> system.seats[m.seat].graphical])
  /\ UNCHANGED <<system, daemon, out, rules, signals>>

\* What the daemon holds, or will, of a seat's being graphical.
KnownGraphical(s) ==
  \/ daemon.systemSeats[s] # 0 /\ daemon.watched[daemon.systemSeats[s]].graphical
  \/ \E i \in DOMAIN events : events[i] = [type |-> "Changed", of |-> s, value |-> TRUE]

\* A seat changes; it is noted when it is no longer graphical and the daemon,
\* which knew it was, has its rule for it out of effect (see OneSeatPerName).
Change(s, to) ==
  /\ HasSeatService(system.service) /\ daemon.pc # "stopped"
  /\ system.changes[s] < MaxChanges[s]
  /\ system' = [system EXCEPT !.changes[s] = @ + 1, !.seats[s] = to,
                              !.missed = IF system.seats[s].graphical /\ to.present /\ KnownGraphical(s)
                                              /\ s \notin rules
                                         THEN @ \cup {s} ELSE @]
  /\ UNCHANGED <<daemon, out, rules, calls, signals>>

Plug(s) ==
  /\ ~system.seats[s].present
  /\ \E g \in BOOLEAN : Change(s, [present |-> TRUE, graphical |-> g])
  /\ Emit(Manager, [type |-> "SeatNew", of |-> s])

Unplug(s) ==
  /\ system.seats[s].present
  /\ Change(s, Unplugged)
  /\ Emit(Manager, [type |-> "SeatRemoved", of |-> s])

Toggle(s) ==
  /\ system.seats[s].present
  /\ LET g == ~system.seats[s].graphical
     IN /\ Change(s, [present |-> TRUE, graphical |-> g])
        /\ Emit(s, [type |-> "Changed", of |-> s, value |-> g])

DaemonStep ==
  \/ Start \/ SeatsListed \/ SeatNew \/ SeatRemoved
  \/ GotValue \/ PropertiesChanged \/ Deleted
  \/ \E sig \in {"SIGINT", "SIGTERM"} : HandleSignal(sig)

Next ==
  \/ DaemonStep \/ BusReads \/ LogindAnswers
  \/ \E s \in Seats : SwitchToGreeter(s) \/ Plug(s) \/ Unplug(s) \/ Toggle(s)
  \/ \E sig \in {"SIGINT", "SIGTERM"} : Signalled(sig)

Spec == Init /\ [][Next]_vars

-----------------------------------------------------------------------------
(* Properties *)

\* Nothing is on its way between logind and the daemon.
AtRest == Running /\ out = <<>> /\ calls = <<>> /\ events = <<>>

\* A LogindSeat that m_systemSeats has lost: its seat was both listed and announced.
Leaked(s) == \E o \in Watchers(daemon, s) : daemon.systemSeats[s] # o

\* At rest the daemon runs a seat exactly when it tracks it and logind says it
\* can be graphical, whatever order the answer to Get and the change notices
\* came in (SeatManager.cpp: LogindSeat, propertiesChanged).
RunsGraphicalSeats ==
  (AtRest /\ HasSeatService(system.service) /\ ~system.testing) =>
    \A s \in Seats : (daemon.seats[s] # 0) <=>
                       (daemon.systemSeats[s] # 0 /\ system.seats[s].graphical)

\* A name has at most one Seat that is not being deleted, and it is the one
\* m_seats holds (createSeat inserts over whatever is there), unless the seat
\* was both listed and announced, or a change was missed: the rule of a
\* LogindSeat goes with it, and one made while that is on its way may have been
\* told by the old rule what its own comes too late to take back.
OneSeatPerName ==
  \A id \in DOMAIN daemon.made :
    LET s == daemon.made[id].seat
    IN \/ Leaked(s) \/ s \in system.missed
       \/ ~daemon.made[id].alive
       \/ daemon.seats[s] = id
       \/ \E i \in DOMAIN events : events[i] = Delete("seat", id)

\* At rest no path answers for a seat that is no longer listed (the object is
\* deleted later than the entry, and a new one may be made in between).
NoStalePath ==
  AtRest => \A s \in Seats : daemon.paths[s] # 0 =>
              \E i \in DOMAIN daemon.list : daemon.list[i] = daemon.paths[s]
=============================================================================
