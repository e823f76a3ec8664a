---------------------------- MODULE TerminalsProofs ----------------------------
(***************************************************************************)
(* The three views of the terminals agree, no terminal that is seen to be  *)
(* in use is given away, and what is shown when a display stops is a place *)
(* where the last one is: for every number of terminals and displays, the  *)
(* three display servers, and any others that log in.                      *)
(*                                                                         *)
(* The inductive invariant has a conjunct for each stage of a display's    *)
(* greeter and login: where the kernel has the helper's session, and where *)
(* logind has it.                                                          *)
(***************************************************************************)
EXTENDS Terminals, WellFoundedInduction, SequenceTheorems, TLAPS

Ttys == Terminals \cup {0}
ServerTypes == {"x11", "wayland", "x11-user"}
GreeterStages == {"none", "starting", "opened", "running"}
AuthStages == {"idle", "auto", "asking", "refused", "opened", "running"}

Displays == [terminal : Ttys, greeter : GreeterStages, greeterTerminal : Ttys,
             auth : AuthStages, session : {"none", "x11", "wayland"},
             sessionTerminal : Ttys, reuse : Numbers \cup {"none", "gone"}]

Holders == ({"greeter", "session", "server"} \X Numbers) \cup ({"orphan"} \X Terminals)
           \cup ({"other"} \X Others)
Held == [Terminals -> SUBSET Holders]
Vts == [active : Terminals, held : Held]
Sessions == [tty : Terminals, of : Holders, state : {"active", "closing"}]

-----------------------------------------------------------------------------
(* The invariant, of any displays, terminals and sessions *)

\* The terminals a holder has open, and logind's sessions of it.
Where(held, h) == {u \in Terminals : h \in held[u]}
SessionsOf(sessions, h) == {s \in sessions : s.of = h}
Active(t, h) == [tty |-> t, of |-> h, state |-> "active"]

\* A number that is not in use is a new display's; the stages that need a terminal
\* have one, on Wayland the display's own until another compositor has to run.
StagesInv(ty, x) ==
  /\ x.terminal = 0 => x = NewDisplay
  /\ x.auth # "idle" => x.sessionTerminal \in Terminals
  /\ x.greeter # "none" => x.greeterTerminal \in Terminals
  /\ x.greeter = "opened" => ty # "x11"
  /\ x.auth = "auto" => x.greeter = "none"
  /\ ty # "x11" =>
       /\ x.greeter # "none" => x.greeterTerminal = x.terminal
       /\ x.auth = "auto" => x.sessionTerminal = x.terminal

\* The X server of a display has its terminal open.
ServerInv(ty, d, x, held) ==
  Where(held, <<"server", d>>) = IF ty = "x11" /\ x.terminal # 0 THEN {x.terminal} ELSE {}

\* A greeter is with logind since it opened, and has its terminal since it took it.
GreeterInv(ty, d, x, held, sessions) ==
  /\ Where(held, <<"greeter", d>>) =
       IF ty # "x11" /\ x.greeter = "running" THEN {x.greeterTerminal} ELSE {}
  /\ SessionsOf(sessions, <<"greeter", d>>) =
       IF x.greeter \in {"opened", "running"}
       THEN {Active(x.greeterTerminal, <<"greeter", d>>)} ELSE {}

\* So is a session, unless it runs on the daemon's X server.
SessionInv(ty, d, x, held, sessions) ==
  /\ Where(held, <<"session", d>>) =
       IF ~(ty = "x11" /\ x.session = "x11") /\ x.auth = "running" THEN {x.sessionTerminal} ELSE {}
  /\ SessionsOf(sessions, <<"session", d>>) =
       IF x.auth \in {"opened", "running"}
       THEN {Active(x.sessionTerminal, <<"session", d>>)} ELSE {}

DisplayInv(ty, d, x, held, sessions) ==
  /\ x \in Displays
  /\ StagesInv(ty, x)
  /\ ServerInv(ty, d, x, held)
  /\ GreeterInv(ty, d, x, held, sessions)
  /\ SessionInv(ty, d, x, held, sessions)

\* Others are where logind has them.
OthersInv(held, sessions) ==
  \A t \in Others : /\ Where(held, <<"other", t>>) \subseteq {t}
                    /\ SessionsOf(sessions, <<"other", t>>) \subseteq {Active(t, <<"other", t>>)}

\* A display is in the list once, and is one in use.
ListInv(ds, l) ==
  /\ l \in Seq(Numbers)
  /\ \A i, j \in 1 .. Len(l) : l[i] = l[j] => i = j
  /\ \A i \in 1 .. Len(l) : ds[l[i]].terminal # 0

ViewsInv(ty, ds, v, sessions) ==
  /\ ds \in [Numbers -> Displays] /\ v \in Vts /\ sessions \subseteq Sessions
  /\ \A d \in Numbers : DisplayInv(ty, d, ds[d], v.held, sessions)
  /\ OthersInv(v.held, sessions)

TerminalsInv ==
  /\ type \in ServerTypes
  /\ ViewsInv(type, disp, vt, logind)
  /\ ListInv(disp, list)

-----------------------------------------------------------------------------
(* Who has a terminal open *)

\* A set of numbers has a least element.
LEMMA LeastNumber ==
  ASSUME NEW I \in SUBSET Nat, I # {}
  PROVE  Min(I) \in I
<1>. DEFINE R == {ss \in Nat \X Nat : ss[1] < ss[2]}
<1>1. IsWellFoundedOn(R, Nat)
  BY NatLessThanWellFounded, Zenon DEF OpToRel
<1>2. \A a, b \in Nat : a < b => <<a, b>> \in R
  OBVIOUS
<1>. HIDE DEF R
<1>3. PICK x \in I : \A y \in I : ~(<<y, x>> \in R)
  BY <1>1, WFMin, Zenon
<1>4. \A y \in I : x <= y
  <2>. TAKE y \in I
  <2>1. x \in Nat /\ y \in Nat /\ ~(y < x)
    BY <1>2, <1>3, Zenon
  <2>. QED BY <2>1
<1>. QED BY <1>4 DEF Min

\* The terminals are numbers.
LEMMA TerminalNumbers == Terminals \subseteq Nat \ {0}
<1>1. \A n : \A t \in 1 .. n : t \in Nat /\ t # 0
  OBVIOUS
<1>. QED BY <1>1, TerminalsAssumption, Zenon

\* Leaving takes the holders from every terminal and nobody else from any.
LEMMA WhereLeave ==
  ASSUME NEW held, NEW holders, NEW h
  PROVE  Where(Leave(held, holders), h) = IF h \in holders THEN {} ELSE Where(held, h)
  BY DEF Where, Leave

\* Entering puts the holder on one terminal more and nobody else anywhere.
LEMMA WhereEnter ==
  ASSUME NEW held, NEW t \in Terminals, NEW g, NEW h
  PROVE  Where(Enter(held, t, g), h) = IF h = g THEN Where(held, h) \cup {t} ELSE Where(held, h)
  BY DEF Where, Enter

\* What is left is again a table of holders.
LEMMA LeaveType ==
  ASSUME NEW held \in Held, NEW holders
  PROVE  Leave(held, holders) \in Held
  BY DEF Leave, Held

\* Entering gives a table of holders.
LEMMA EnterType ==
  ASSUME NEW held \in Held, NEW t, NEW h \in Holders
  PROVE  Enter(held, t, h) \in Held
  BY DEF Enter, Held

\* The sequence left when a display leaves the list: the others, once each.
LEMMA RemoveFirstOnce ==
  ASSUME NEW S, NEW l \in Seq(S), NEW d,
         \A i, j \in 1 .. Len(l) : l[i] = l[j] => i = j
  PROVE  LET r == RemoveFirst(l, d)
         IN /\ r \in Seq(S)
            /\ \A i, j \in 1 .. Len(r) : r[i] = r[j] => i = j
            /\ \A i \in 1 .. Len(r) : r[i] # d /\ \E j \in 1 .. Len(l) : r[i] = l[j]
<1>. DEFINE I == {i \in 1 .. Len(l) : l[i] = d}
<1>1. Len(l) \in Nat
  BY LenProperties
<1>2. CASE I = {}
  <2>1. ~ \E i \in 1 .. Len(l) : l[i] = d
    BY <1>2
  <2>2. RemoveFirst(l, d) = l
    BY <2>1, Zenon DEF RemoveFirst
  <2>. QED BY <2>1, <2>2
<1>3. CASE I # {}
  <2>. DEFINE k == Min(I)
              r == RemoveFirst(l, d)
              a == SubSeq(l, 1, k - 1)
              b == SubSeq(l, k + 1, Len(l))
  <2>1. k \in I
    <3>1. I \in SUBSET Nat
      BY <1>1
    <3>. HIDE DEF I
    <3>. QED BY <1>3, <3>1, LeastNumber
  <2>2. k \in 1 .. Len(l) /\ l[k] = d
    BY <2>1
  <2>3. r = a \o b
    <3>1. \E i \in 1 .. Len(l) : l[i] = d
      BY <2>2, Zenon
    <3>2. SelectInSeq(l, LAMBDA v : v = d) = k
      BY <1>3, Zenon DEF SelectInSeq
    <3>. QED BY <3>1, <3>2, Zenon DEF RemoveFirst, RemoveAt
  <2>. HIDE DEF k, I, r
  <2>4. a \in Seq(S) /\ Len(a) = k - 1 /\ \A i \in 1 .. k - 1 : a[i] = l[i]
    BY <1>1, <2>2
  <2>5. b \in Seq(S) /\ Len(b) = Len(l) - k /\ \A i \in 1 .. Len(l) - k : b[i] = l[k + i]
    BY <1>1, <2>2
  <2>. HIDE DEF a, b
  <2>6. r \in Seq(S) /\ Len(r) = Len(l) - 1
    BY <1>1, <2>2, <2>3, <2>4, <2>5, ConcatProperties
  <2>7. \A i \in 1 .. Len(r) : r[i] = IF i < k THEN l[i] ELSE l[i + 1]
    <3>. SUFFICES ASSUME NEW i \in 1 .. Len(r) PROVE r[i] = IF i < k THEN l[i] ELSE l[i + 1]
      OBVIOUS
    <3>1. i \in 1 .. Len(a) + Len(b)
      BY <1>1, <2>2, <2>4, <2>5, <2>6
    <3>2. r[i] = IF i <= Len(a) THEN a[i] ELSE b[i - Len(a)]
      BY <2>3, <2>4, <2>5, <3>1, ConcatProperties
    <3>3. CASE i < k
      BY <1>1, <2>2, <2>4, <3>2, <3>3
    <3>4. CASE ~(i < k)
      <4>1. i - Len(a) \in 1 .. Len(l) - k /\ ~(i <= Len(a)) /\ k + (i - Len(a)) = i + 1
        BY <1>1, <2>2, <2>4, <2>6, <3>4
      <4>. QED BY <2>5, <3>2, <3>4, <4>1
    <3>. QED BY <3>3, <3>4
  <2>. DEFINE at(i) == IF i < k THEN i ELSE i + 1
  <2>8. \A i \in 1 .. Len(r) : at(i) \in 1 .. Len(l) /\ at(i) # k /\ r[i] = l[at(i)]
    BY <1>1, <2>2, <2>6, <2>7
  <2>9. \A i, j \in 1 .. Len(r) : at(i) = at(j) => i = j
    BY <1>1, <2>2, <2>6
  <2>. HIDE DEF at
  <2>10. \A i, j \in 1 .. Len(r) : r[i] = r[j] => i = j
    BY <2>8, <2>9
  <2>11. \A i \in 1 .. Len(r) : r[i] # d /\ \E j \in 1 .. Len(l) : r[i] = l[j]
    BY <2>2, <2>8
  <2>. QED BY <2>6, <2>10, <2>11 DEF r
<1>. QED BY <1>2, <1>3

\* One less than there were.
LEMMA RemoveFirstLength ==
  ASSUME NEW S, NEW l \in Seq(S), NEW d
  PROVE  Len(RemoveFirst(l, d)) = Len(l) - 1 \/ RemoveFirst(l, d) = l
<1>. DEFINE I == {i \in 1 .. Len(l) : l[i] = d}
<1>1. Len(l) \in Nat
  BY LenProperties
<1>2. CASE I = {}
  <2>1. ~ \E i \in 1 .. Len(l) : l[i] = d
    BY <1>2
  <2>. QED BY <2>1, Zenon DEF RemoveFirst
<1>3. CASE I # {}
  <2>. DEFINE k == Min(I)
  <2>1. k \in I
    <3>1. I \in SUBSET Nat
      BY <1>1
    <3>. HIDE DEF I
    <3>. QED BY <1>3, <3>1, LeastNumber
  <2>2. k \in 1 .. Len(l) /\ \E i \in 1 .. Len(l) : l[i] = d
    BY <2>1
  <2>3. SelectInSeq(l, LAMBDA v : v = d) = k
    BY <1>3, Zenon DEF SelectInSeq
  <2>. DEFINE a == SubSeq(l, 1, k - 1)
              b == SubSeq(l, k + 1, Len(l))
  <2>4. RemoveFirst(l, d) = a \o b
    BY <2>2, <2>3, Zenon DEF RemoveFirst, RemoveAt
  <2>. HIDE DEF k, I
  <2>5. a \in Seq(S) /\ Len(a) = k - 1
    BY <1>1, <2>2
  <2>6. b \in Seq(S) /\ Len(b) = Len(l) - k
    BY <1>1, <2>2
  <2>. HIDE DEF a, b
  <2>7. Len(a \o b) = Len(a) + Len(b)
    BY <2>5, <2>6, ConcatProperties
  <2>. QED BY <1>1, <2>2, <2>4, <2>5, <2>6, <2>7
<1>. QED BY <1>2, <1>3

-----------------------------------------------------------------------------
(* The terminals that are given *)

\* setUpNewVt returns a terminal, one that nobody has open while there is one.
LEMMA NewVtIsFree ==
  ASSUME vt.active \in Terminals, NEW held
  PROVE  /\ SetUpNewVt(held) \in Terminals
         /\ (\E t \in Terminals : held[t] = {}) => held[SetUpNewVt(held)] = {}
<1>. DEFINE free == {t \in Terminals : held[t] = {}}
<1>1. SetUpNewVt(held) = IF free = {} THEN vt.active ELSE Min(free)
  BY DEF SetUpNewVt
<1>2. free # {} => Min(free) \in free
  <2>1. free \in SUBSET Nat
    BY TerminalNumbers
  <2>. HIDE DEF free
  <2>. QED BY <2>1, LeastNumber
<1>. QED BY <1>1, <1>2

\* So does fetchAvailableVt, or one that no session of logind's is on.
LEMMA AvailableVtIsFree ==
  ASSUME vt.active \in Terminals, NEW sessions, NEW held
  PROVE  /\ FetchAvailableVt(sessions, held) \in Terminals
         /\ (\E t \in Terminals : held[t] = {}) =>
              \/ held[FetchAvailableVt(sessions, held)] = {}
              \/ ~IsTtyInUse(sessions, FetchAvailableVt(sessions, held))
  BY NewVtIsFree, TerminalsAssumption DEF FetchAvailableVt, CurrentVt

-----------------------------------------------------------------------------
(* What a step makes of one display *)

Record(t, g, gt, a, s, st, r) ==
  [terminal |-> t, greeter |-> g, greeterTerminal |-> gt, auth |-> a, session |-> s,
   sessionTerminal |-> st, reuse |-> r]

Greeting(x) ==
  Record(x.terminal, "starting", IF x.auth # "idle" THEN x.sessionTerminal ELSE x.terminal,
         x.auth, x.session, x.sessionTerminal, x.reuse)

LoggingIn(x, stage, session, t, reuse) ==
  Record(x.terminal, x.greeter, x.greeterTerminal, stage, session, t, reuse)

WithGreeter(x, stage) ==
  Record(x.terminal, stage, x.greeterTerminal, x.auth, x.session, x.sessionTerminal, x.reuse)

WithAuth(x, stage) ==
  Record(x.terminal, x.greeter, x.greeterTerminal, stage, x.session, x.sessionTerminal, x.reuse)

WithReuse(x, r) ==
  Record(x.terminal, x.greeter, x.greeterTerminal, x.auth, x.session, x.sessionTerminal, r)

\* The displays with display d as x.
Changed(ds, d, x) == [ds EXCEPT ![d] = x]

\* startAuth's choice of a terminal.
LoginTerminal(ds, d, session, held) ==
  IF IF type = "x11" THEN session = "wayland" ELSE ds[d].greeter # "none"
  THEN SetUpNewVt(held) ELSE ds[d].terminal

IsRecord(x) ==
  x = Record(x.terminal, x.greeter, x.greeterTerminal, x.auth, x.session, x.sessionTerminal, x.reuse)

\* A display is the record of its fields.
LEMMA DisplayShape ==
  ASSUME NEW x \in Displays
  PROVE  IsRecord(x)
  BY DEF Displays, IsRecord, Record

\* A record made of seven fields has them.
LEMMA RecordFields ==
  ASSUME NEW t, NEW g, NEW gt, NEW a, NEW s, NEW st, NEW r, NEW x,
         x = Record(t, g, gt, a, s, st, r)
  PROVE  /\ IsRecord(x)
         /\ x.terminal = t /\ x.greeter = g /\ x.greeterTerminal = gt /\ x.auth = a
         /\ x.session = s /\ x.sessionTerminal = st /\ x.reuse = r
  BY DEF Record, IsRecord

\* Changing a field of it changes that field.
LEMMA ChangeTerminal ==
  ASSUME NEW x, IsRecord(x), NEW v
  PROVE  [x EXCEPT !.terminal = v]
           = Record(v, x.greeter, x.greeterTerminal, x.auth, x.session, x.sessionTerminal, x.reuse)
  BY DEF Record, IsRecord

\* A change of the greeter's stage, and of no other field.
LEMMA ChangeGreeter ==
  ASSUME NEW x, IsRecord(x), NEW v
  PROVE  [x EXCEPT !.greeter = v]
           = Record(x.terminal, v, x.greeterTerminal, x.auth, x.session, x.sessionTerminal, x.reuse)
  BY DEF Record, IsRecord

\* Of its terminal.
LEMMA ChangeGreeterTerminal ==
  ASSUME NEW x, IsRecord(x), NEW v
  PROVE  [x EXCEPT !.greeterTerminal = v]
           = Record(x.terminal, x.greeter, v, x.auth, x.session, x.sessionTerminal, x.reuse)
  BY DEF Record, IsRecord

\* Of the stage of the login.
LEMMA ChangeAuth ==
  ASSUME NEW x, IsRecord(x), NEW v
  PROVE  [x EXCEPT !.auth = v]
           = Record(x.terminal, x.greeter, x.greeterTerminal, v, x.session, x.sessionTerminal, x.reuse)
  BY DEF Record, IsRecord

\* Of the kind of its session.
LEMMA ChangeSession ==
  ASSUME NEW x, IsRecord(x), NEW v
  PROVE  [x EXCEPT !.session = v]
           = Record(x.terminal, x.greeter, x.greeterTerminal, x.auth, v, x.sessionTerminal, x.reuse)
  BY DEF Record, IsRecord

\* Of the terminal of its session.
LEMMA ChangeSessionTerminal ==
  ASSUME NEW x, IsRecord(x), NEW v
  PROVE  [x EXCEPT !.sessionTerminal = v]
           = Record(x.terminal, x.greeter, x.greeterTerminal, x.auth, x.session, v, x.reuse)
  BY DEF Record, IsRecord

\* Of the display whose session it reuses.
LEMMA ChangeReuse ==
  ASSUME NEW x, IsRecord(x), NEW v
  PROVE  [x EXCEPT !.reuse = v]
           = Record(x.terminal, x.greeter, x.greeterTerminal, x.auth, x.session, x.sessionTerminal, v)
  BY DEF Record, IsRecord

\* Greeter::start and startAuth change one display, in these fields.
LEMMA StartGreeterIs ==
  ASSUME NEW ds \in [Numbers -> Displays], NEW d \in Numbers
  PROVE  StartGreeter(ds, d) = Changed(ds, d, Greeting(ds[d]))
<1>. DEFINE t == TerminalId(ds, d)
            x == ds[d]
            y == [x EXCEPT !.greeter = "starting"]
            z == [y EXCEPT !.greeterTerminal = t]
<1>1. t = IF x.auth # "idle" THEN x.sessionTerminal ELSE x.terminal
  BY DEF TerminalId
<1>2. StartGreeter(ds, d) = [ds EXCEPT ![d] = z]
  BY DEF StartGreeter
<1>3. IsRecord(x)
  BY DisplayShape
<1>. HIDE DEF t, x
<1>4. y = Record(x.terminal, "starting", x.greeterTerminal, x.auth, x.session, x.sessionTerminal, x.reuse)
  BY <1>3, ChangeGreeter, Zenon
<1>. HIDE DEF y
<1>5. /\ IsRecord(y) /\ y.terminal = x.terminal /\ y.greeter = "starting"
      /\ y.auth = x.auth /\ y.session = x.session /\ y.sessionTerminal = x.sessionTerminal
      /\ y.reuse = x.reuse
  BY <1>4, RecordFields
<1>6. z = Record(y.terminal, y.greeter, t, y.auth, y.session, y.sessionTerminal, y.reuse)
  BY <1>5, ChangeGreeterTerminal, Zenon
<1>. HIDE DEF z
<1>7. z = Greeting(x)
  BY <1>1, <1>5, <1>6 DEF Greeting
<1>. QED BY <1>2, <1>7 DEF x, Changed

\* startAuth changes the record of its display, as LoggingIn says.
LEMMA StartAuthIs ==
  ASSUME NEW ds \in [Numbers -> Displays], NEW d \in Numbers, NEW stage, NEW session, NEW held,
         NEW reuse
  PROVE  StartAuth(ds, d, stage, session, held, reuse)
           = Changed(ds, d, LoggingIn(ds[d], stage, session, LoginTerminal(ds, d, session, held), reuse))
<1>. DEFINE t == LoginTerminal(ds, d, session, held)
            x == ds[d]
            x1 == [x EXCEPT !.auth = stage]
            x2 == [x1 EXCEPT !.session = session]
            x3 == [x2 EXCEPT !.sessionTerminal = t]
            x4 == [x3 EXCEPT !.reuse = reuse]
<1>1. StartAuth(ds, d, stage, session, held, reuse) = [ds EXCEPT ![d] = x4]
  BY DEF StartAuth, LoginTerminal
<1>2. IsRecord(x)
  BY DisplayShape
<1>. HIDE DEF t, x
<1>3. x1 = Record(x.terminal, x.greeter, x.greeterTerminal, stage, x.session,
                  x.sessionTerminal, x.reuse)
  BY <1>2, ChangeAuth, Zenon
<1>. HIDE DEF x1
<1>4. /\ IsRecord(x1) /\ x1.terminal = x.terminal /\ x1.greeter = x.greeter
      /\ x1.greeterTerminal = x.greeterTerminal /\ x1.auth = stage
      /\ x1.sessionTerminal = x.sessionTerminal /\ x1.reuse = x.reuse
  BY <1>3, RecordFields
<1>5. x2 = Record(x1.terminal, x1.greeter, x1.greeterTerminal, x1.auth, session,
                  x1.sessionTerminal, x1.reuse)
  BY <1>4, ChangeSession, Zenon
<1>. HIDE DEF x2
<1>6. /\ IsRecord(x2) /\ x2.terminal = x.terminal /\ x2.greeter = x.greeter
      /\ x2.greeterTerminal = x.greeterTerminal /\ x2.auth = stage /\ x2.session = session
      /\ x2.reuse = x.reuse
  BY <1>4, <1>5, RecordFields
<1>7. x3 = Record(x2.terminal, x2.greeter, x2.greeterTerminal, x2.auth, x2.session, t, x2.reuse)
  BY <1>6, ChangeSessionTerminal, Zenon
<1>. HIDE DEF x3
<1>8. /\ IsRecord(x3) /\ x3.terminal = x.terminal /\ x3.greeter = x.greeter
      /\ x3.greeterTerminal = x.greeterTerminal /\ x3.auth = stage /\ x3.session = session
      /\ x3.sessionTerminal = t
  BY <1>6, <1>7, RecordFields
<1>9. x4 = Record(x3.terminal, x3.greeter, x3.greeterTerminal, x3.auth, x3.session,
                  x3.sessionTerminal, reuse)
  BY <1>8, ChangeReuse, Zenon
<1>. HIDE DEF x4
<1>10. x4 = LoggingIn(x, stage, session, t, reuse)
  BY <1>8, <1>9 DEF LoggingIn
<1>. QED BY <1>1, <1>10 DEF x, t, Changed

\* The fields of a display, and of one that starts its greeter or a login.
LEMMA RecordType ==
  ASSUME NEW t \in Ttys, NEW g \in GreeterStages, NEW gt \in Ttys, NEW a \in AuthStages,
         NEW s \in {"none", "x11", "wayland"}, NEW st \in Ttys, NEW r \in Numbers \cup {"none", "gone"}
  PROVE  Record(t, g, gt, a, s, st, r) \in Displays
  BY DEF Record, Displays

\* The fields of a display are of their types.
LEMMA DisplayFields ==
  ASSUME NEW x \in Displays
  PROVE  /\ x.terminal \in Ttys /\ x.greeter \in GreeterStages /\ x.greeterTerminal \in Ttys
         /\ x.auth \in AuthStages /\ x.session \in {"none", "x11", "wayland"}
         /\ x.sessionTerminal \in Ttys /\ x.reuse \in Numbers \cup {"none", "gone"}
  BY DEF Displays

\* A new display, without and with a terminal, field by field.
LEMMA NewDisplayIs ==
  /\ NewDisplay = Record(0, "none", 0, "idle", "none", 0, "none")
  /\ \A t : DisplayAt(t) = Record(t, "none", 0, "idle", "none", 0, "none")
<1>1. NewDisplay = Record(0, "none", 0, "idle", "none", 0, "none")
  BY DEF NewDisplay, Record
<1>2. IsRecord(NewDisplay)
  BY <1>1, RecordFields
<1>3. /\ NewDisplay.greeter = "none" /\ NewDisplay.greeterTerminal = 0 /\ NewDisplay.auth = "idle"
      /\ NewDisplay.session = "none" /\ NewDisplay.sessionTerminal = 0
      /\ NewDisplay.reuse = "none"
  BY <1>1, RecordFields
<1>4. ASSUME NEW t
      PROVE  DisplayAt(t) = Record(t, "none", 0, "idle", "none", 0, "none")
  <2>1. DisplayAt(t) = Record(t, NewDisplay.greeter, NewDisplay.greeterTerminal, NewDisplay.auth,
                              NewDisplay.session, NewDisplay.sessionTerminal, NewDisplay.reuse)
    BY <1>2, ChangeTerminal, Zenon DEF DisplayAt
  <2>. QED BY <1>3, <2>1
<1>. QED BY <1>1, <1>4

-----------------------------------------------------------------------------
(* A display whose holders are left alone *)

Own(d) == {<<"server", d>>, <<"greeter", d>>, <<"session", d>>}

SamePlaces(H, held1, sessions1, held2, sessions2) ==
  \A h \in H : /\ Where(held2, h) = Where(held1, h)
               /\ SessionsOf(sessions2, h) = SessionsOf(sessions1, h)

\* What is known of a display is kept when its holders stay where they are.
LEMMA DisplayFrame ==
  ASSUME NEW ty, NEW d, NEW x, NEW held1, NEW sessions1, NEW held2, NEW sessions2,
         SamePlaces(Own(d), held1, sessions1, held2, sessions2),
         DisplayInv(ty, d, x, held1, sessions1)
  PROVE  DisplayInv(ty, d, x, held2, sessions2)
<1>1. \A h \in Own(d) : /\ Where(held2, h) = Where(held1, h)
                        /\ SessionsOf(sessions2, h) = SessionsOf(sessions1, h)
  BY Zenon DEF SamePlaces
<1>2. /\ <<"server", d>> \in Own(d) /\ <<"greeter", d>> \in Own(d)
      /\ <<"session", d>> \in Own(d)
  BY DEF Own
<1>3. /\ Where(held2, <<"server", d>>) = Where(held1, <<"server", d>>)
      /\ Where(held2, <<"greeter", d>>) = Where(held1, <<"greeter", d>>)
      /\ Where(held2, <<"session", d>>) = Where(held1, <<"session", d>>)
      /\ SessionsOf(sessions2, <<"greeter", d>>) = SessionsOf(sessions1, <<"greeter", d>>)
      /\ SessionsOf(sessions2, <<"session", d>>) = SessionsOf(sessions1, <<"session", d>>)
  BY <1>1, <1>2, Zenon
<1>4. ServerInv(ty, d, x, held2)
  BY <1>3, Zenon DEF DisplayInv, ServerInv
<1>5. GreeterInv(ty, d, x, held2, sessions2)
  BY <1>3, Zenon DEF DisplayInv, GreeterInv
<1>6. SessionInv(ty, d, x, held2, sessions2)
  BY <1>3, Zenon DEF DisplayInv, SessionInv
<1>. QED BY <1>4, <1>5, <1>6 DEF DisplayInv

\* The holders of two displays, and others, are different ones.
LEMMA HoldersDiffer ==
  ASSUME NEW d, NEW n, d # n
  PROVE  Own(d) \cap Own(n) = {} /\ \A t : <<"other", t>> \notin Own(d) /\ <<"orphan", t>> \notin Own(d)
  BY DEF Own

-----------------------------------------------------------------------------
(* A display is created *)

\* The display starts its greeter, or a login at its own terminal or a new one.
Starts(x, t, held) ==
  \/ x = Record(t, "starting", t, "idle", "none", 0, "none")
  \/ \E s \in {"x11", "wayland"}, u \in Terminals :
       /\ x = Record(t, "none", 0, "auto", s, u, "none")
       /\ \/ u = t
          \/ type = "x11" /\ u = SetUpNewVt(held)

Created(c, ds, l, v, sessions, d, x) ==
  /\ ds[d].terminal = 0
  /\ c.ds = [ds EXCEPT ![d] = x]
  /\ c.list = Append(l, d)
  /\ c.vt = WithServer(v, d, NewTerminal(v, sessions))
  /\ Starts(x, NewTerminal(v, sessions), c.vt.held)

\* The terminal chosen is one.
LEMMA NewTerminalType ==
  ASSUME vt.active \in Terminals, NEW v, NEW sessions
  PROVE  NewTerminal(v, sessions) \in Terminals
  BY NewVtIsFree, AvailableVtIsFree DEF NewTerminal

\* What createDisplay does, of one number that is not in use.
LEMMA CreationIs ==
  ASSUME NEW ds \in [Numbers -> Displays], NEW l, NEW v, NEW sessions,
         vt.active \in Terminals, NEW c \in Creations(ds, l, v, sessions)
  PROVE  \E d \in Numbers : \E x : Created(c, ds, l, v, sessions, d, x)
<1>. DEFINE t == NewTerminal(v, sessions)
            OwnD(d) == [ds EXCEPT ![d] = DisplayAt(t)]
            Made(d, started, n) == [ds |-> started, list |-> Append(l, d), vt |-> WithServer(v, d, t),
                                    logins |-> n]
<1>1. \E d \in Numbers :
        /\ ds[d].terminal = 0
        /\ \/ \E s \in {"x11", "wayland"} :
                c = Made(d, StartAuth(OwnD(d), d, "auto", s, WithServer(v, d, t).held, "none"), logins + 1)
           \/ c = Made(d, StartGreeter(OwnD(d), d), logins)
  <2>1. CASE auto
    <3>1. c \in {Made(d, StartAuth(OwnD(d), d, "auto", s, WithServer(v, d, t).held, "none"), logins + 1) :
                   d \in {d \in Numbers : ds[d].terminal = 0}, s \in SessionTypes}
      BY <2>1 DEF Creations
    <3>2. SessionTypes \subseteq {"x11", "wayland"}
      BY DEF SessionTypes
    <3>. HIDE DEF Made, OwnD, t
    <3>. QED BY <3>1, <3>2
  <2>2. CASE ~auto
    <3>1. c \in {Made(d, StartGreeter(OwnD(d), d), logins) :
                   d \in {d \in Numbers : ds[d].terminal = 0}}
      BY <2>2 DEF Creations
    <3>. HIDE DEF Made, OwnD, t
    <3>. QED BY <3>1
  <2>. QED BY <2>1, <2>2
<1>2. t \in Terminals
  BY NewTerminalType
<1>3. PICK d \in Numbers :
        /\ ds[d].terminal = 0
        /\ \/ \E s \in {"x11", "wayland"} :
                c = Made(d, StartAuth(OwnD(d), d, "auto", s, WithServer(v, d, t).held, "none"), logins + 1)
           \/ c = Made(d, StartGreeter(OwnD(d), d), logins)
  BY <1>1
<1>. HIDE DEF t
<1>. DEFINE held == WithServer(v, d, t).held
            own == OwnD(d)
            x0 == DisplayAt(t)
<1>4. /\ x0 = Record(t, "none", 0, "idle", "none", 0, "none")
      /\ x0 \in Displays
  <2>1. x0 = Record(t, "none", 0, "idle", "none", 0, "none")
    BY NewDisplayIs
  <2>2. t \in Ttys /\ 0 \in Ttys
    BY <1>2 DEF Ttys
  <2>. QED BY <2>1, <2>2, RecordType DEF GreeterStages, AuthStages
<1>5. own \in [Numbers -> Displays] /\ own[d] = x0
  BY <1>4
<1>6. /\ x0.terminal = t /\ x0.greeter = "none" /\ x0.greeterTerminal = 0 /\ x0.auth = "idle"
      /\ x0.session = "none" /\ x0.sessionTerminal = 0 /\ x0.reuse = "none"
  BY <1>4, RecordFields
<1>7. ASSUME NEW x
      PROVE  [own EXCEPT ![d] = x] = [ds EXCEPT ![d] = x]
  OBVIOUS
<1>. HIDE DEF x0, own, held
<1>8. CASE c = Made(d, StartGreeter(OwnD(d), d), logins)
  <2>. DEFINE x == Record(t, "starting", t, "idle", "none", 0, "none")
  <2>1. StartGreeter(own, d) = [ds EXCEPT ![d] = x]
    <3>1. Greeting(x0) = x
      BY <1>6 DEF Greeting
    <3>. HIDE DEF x
    <3>. QED BY <1>5, <1>7, <3>1, StartGreeterIs DEF Changed
  <2>2. c = [ds |-> [ds EXCEPT ![d] = x], list |-> Append(l, d), vt |-> WithServer(v, d, t), logins |-> logins]
    BY <1>8, <2>1 DEF own
  <2>. HIDE DEF x
  <2>3. c.ds = [ds EXCEPT ![d] = x] /\ c.list = Append(l, d) /\ c.vt = WithServer(v, d, t)
    BY <2>2
  <2>4. Starts(x, t, c.vt.held)
    BY DEF Starts, x
  <2>. QED BY <1>3, <2>3, <2>4 DEF Created, t
<1>9. ASSUME NEW s \in {"x11", "wayland"},
             c = Made(d, StartAuth(OwnD(d), d, "auto", s, WithServer(v, d, t).held, "none"), logins + 1)
      PROVE  \E x : Created(c, ds, l, v, sessions, d, x)
  <2>. DEFINE u == LoginTerminal(own, d, s, held)
              x == Record(t, "none", 0, "auto", s, u, "none")
  <2>1. StartAuth(own, d, "auto", s, held, "none") = [ds EXCEPT ![d] = x]
    <3>1. LoggingIn(x0, "auto", s, u, "none") = x
      BY <1>6 DEF LoggingIn
    <3>. HIDE DEF x
    <3>. HIDE DEF u
    <3>2. [own EXCEPT ![d] = LoggingIn(own[d], "auto", s, u, "none")] = [ds EXCEPT ![d] = x]
      BY <1>5, <1>7, <3>1
    <3>. QED BY <1>5, <3>2, StartAuthIs DEF u, Changed
  <2>2. u \in Terminals /\ (u = t \/ (type = "x11" /\ u = SetUpNewVt(held)))
    BY <1>2, <1>5, <1>6, NewVtIsFree DEF LoginTerminal
  <2>3. c = [ds |-> [ds EXCEPT ![d] = x], list |-> Append(l, d), vt |-> WithServer(v, d, t), logins |-> logins + 1]
    BY <1>9, <2>1 DEF own, held
  <2>. HIDE DEF x, u
  <2>4. c.ds = [ds EXCEPT ![d] = x] /\ c.list = Append(l, d) /\ c.vt = WithServer(v, d, t)
    BY <2>3
  <2>5. c.vt.held = held
    BY <2>4 DEF held
  <2>6. Starts(x, t, c.vt.held)
    BY <2>2, <2>5 DEF Starts, x
  <2>. QED BY <1>3, <2>4, <2>6 DEF Created, t
<1>. QED BY <1>3, <1>8, <1>9

\* Where everybody is at w, compared with v, once the display has its server.
ServerEntered(v, w, d, t) ==
  /\ w \in Vts
  /\ \A h : h # <<"server", d>> => Where(w.held, h) = Where(v.held, h)
  /\ Where(w.held, <<"server", d>>) = IF type = "x11" THEN Where(v.held, <<"server", d>>) \cup {t}
                                      ELSE Where(v.held, <<"server", d>>)

\* Its X server enters the terminal and nobody else moves.
LEMMA WithServerPlaces ==
  ASSUME NEW v \in Vts, NEW d \in Numbers, NEW t \in Terminals, NEW w, w = WithServer(v, d, t)
  PROVE  ServerEntered(v, w, d, t)
<1>1. CASE type = "x11"
  <2>1. w = [active |-> t, held |-> Enter(v.held, t, <<"server", d>>)]
    BY <1>1 DEF WithServer
  <2>2. w.active = t /\ w.held = Enter(v.held, t, <<"server", d>>)
    BY <2>1
  <2>3. v.held \in Held /\ <<"server", d>> \in Holders
    BY DEF Vts, Holders
  <2>4. w.held \in Held
    BY <2>2, <2>3, EnterType
  <2>5. w \in Vts
    BY <2>1, <2>2, <2>4 DEF Vts
  <2>. QED BY <1>1, <2>2, <2>5, WhereEnter DEF ServerEntered
<1>2. CASE type # "x11"
  BY <1>2 DEF WithServer, ServerEntered
<1>. QED BY <1>1, <1>2

\* A number not in use has nothing open and no session.
LEMMA UnusedDisplay ==
  ASSUME NEW ty, NEW d, NEW x, NEW held, NEW sessions,
         DisplayInv(ty, d, x, held, sessions), x.terminal = 0
  PROVE  /\ x = NewDisplay
         /\ \A h \in Own(d) : Where(held, h) = {}
         /\ SessionsOf(sessions, <<"greeter", d>>) = {}
         /\ SessionsOf(sessions, <<"session", d>>) = {}
<1>1. x = NewDisplay
  BY DEF DisplayInv, StagesInv
<1>2. x.greeter = "none" /\ x.auth = "idle"
  BY <1>1 DEF NewDisplay
<1>3. Where(held, <<"server", d>>) = {}
  BY DEF DisplayInv, ServerInv
<1>4. Where(held, <<"greeter", d>>) = {} /\ SessionsOf(sessions, <<"greeter", d>>) = {}
  BY <1>2 DEF DisplayInv, GreeterInv
<1>5. Where(held, <<"session", d>>) = {} /\ SessionsOf(sessions, <<"session", d>>) = {}
  BY <1>2 DEF DisplayInv, SessionInv
<1>. QED BY <1>1, <1>3, <1>4, <1>5 DEF Own

\* A display that starts is one the invariant allows.
LEMMA StartsKeeps ==
  ASSUME NEW d, NEW x, NEW t \in Terminals, NEW held, NEW sessions, NEW w,
         Starts(x, t, w),
         Where(held, <<"server", d>>) = IF type = "x11" THEN {t} ELSE {},
         Where(held, <<"greeter", d>>) = {}, Where(held, <<"session", d>>) = {},
         SessionsOf(sessions, <<"greeter", d>>) = {}, SessionsOf(sessions, <<"session", d>>) = {}
  PROVE  DisplayInv(type, d, x, held, sessions)
<1>1. t \in Ttys /\ 0 \in Ttys /\ t # 0
  BY TerminalNumbers DEF Ttys
<1>2. CASE x = Record(t, "starting", t, "idle", "none", 0, "none")
  <2>1. x.terminal = t /\ x.greeter = "starting" /\ x.greeterTerminal = t /\ x.auth = "idle"
    BY <1>2, RecordFields
  <2>2. x \in Displays
    BY <1>1, <1>2, RecordType DEF GreeterStages, AuthStages
  <2>3. StagesInv(type, x)
    BY <1>1, <2>1 DEF StagesInv
  <2>4. ServerInv(type, d, x, held) /\ GreeterInv(type, d, x, held, sessions)
        /\ SessionInv(type, d, x, held, sessions)
    BY <1>1, <2>1 DEF ServerInv, GreeterInv, SessionInv
  <2>. QED BY <2>2, <2>3, <2>4 DEF DisplayInv
<1>3. ASSUME NEW s \in {"x11", "wayland"}, NEW u \in Terminals,
             x = Record(t, "none", 0, "auto", s, u, "none"),
             u = t \/ type = "x11"
      PROVE  DisplayInv(type, d, x, held, sessions)
  <2>1. /\ x.terminal = t /\ x.greeter = "none" /\ x.auth = "auto" /\ x.sessionTerminal = u
    BY <1>3, RecordFields
  <2>2. u \in Ttys
    BY DEF Ttys
  <2>3. x \in Displays
    BY <1>1, <1>3, <2>2, RecordType DEF GreeterStages, AuthStages
  <2>4. StagesInv(type, x)
    BY <1>1, <1>3, <2>1 DEF StagesInv
  <2>5. ServerInv(type, d, x, held) /\ GreeterInv(type, d, x, held, sessions)
        /\ SessionInv(type, d, x, held, sessions)
    BY <1>1, <2>1 DEF ServerInv, GreeterInv, SessionInv
  <2>. QED BY <2>3, <2>4, <2>5 DEF DisplayInv
<1>. QED BY <1>2, <1>3 DEF Starts

\* Others stay where they are when nobody of theirs moves.
LEMMA OthersFrame ==
  ASSUME NEW held1, NEW sessions1, NEW held2, NEW sessions2,
         \A t : Where(held2, <<"other", t>>) = Where(held1, <<"other", t>>),
         \A t : SessionsOf(sessions2, <<"other", t>>) = SessionsOf(sessions1, <<"other", t>>),
         OthersInv(held1, sessions1)
  PROVE  OthersInv(held2, sessions2)
  BY DEF OthersInv

\* A display created is one more in the invariant and in the list.
LEMMA CreationKeeps ==
  ASSUME NEW ds, NEW l, NEW v, NEW sessions, NEW c, NEW d \in Numbers, NEW x,
         vt.active \in Terminals, ViewsInv(type, ds, v, sessions), ListInv(ds, l),
         Created(c, ds, l, v, sessions, d, x)
  PROVE  ViewsInv(type, c.ds, c.vt, sessions) /\ ListInv(c.ds, c.list)
<1>. DEFINE t == NewTerminal(v, sessions)
<1>1. t \in Terminals
  BY NewTerminalType
<1>2. /\ ds \in [Numbers -> Displays] /\ v \in Vts /\ sessions \subseteq Sessions
      /\ \A n \in Numbers : DisplayInv(type, n, ds[n], v.held, sessions)
      /\ OthersInv(v.held, sessions)
  BY DEF ViewsInv
<1>3. /\ ds[d].terminal = 0 /\ c.ds = [ds EXCEPT ![d] = x] /\ c.list = Append(l, d)
      /\ c.vt = WithServer(v, d, t) /\ Starts(x, t, c.vt.held)
  BY DEF Created
<1>. HIDE DEF t
<1>4. /\ c.vt \in Vts
      /\ \A h : h # <<"server", d>> => Where(c.vt.held, h) = Where(v.held, h)
      /\ Where(c.vt.held, <<"server", d>>)
           = IF type = "x11" THEN Where(v.held, <<"server", d>>) \cup {t}
                             ELSE Where(v.held, <<"server", d>>)
  <2>. DEFINE w == c.vt
  <2>1. w = WithServer(v, d, t) /\ v \in Vts
    BY <1>2, <1>3
  <2>. HIDE DEF w
  <2>2. ServerEntered(v, w, d, t)
    BY <1>1, <2>1, WithServerPlaces, Zenon
  <2>. QED BY <2>2 DEF w, ServerEntered
<1>5. /\ \A h \in Own(d) : Where(v.held, h) = {}
      /\ SessionsOf(sessions, <<"greeter", d>>) = {}
      /\ SessionsOf(sessions, <<"session", d>>) = {}
  BY <1>2, <1>3, UnusedDisplay
<1>6. DisplayInv(type, d, x, c.vt.held, sessions)
  <2>1. <<"server", d>> \in Own(d) /\ <<"greeter", d>> \in Own(d) /\ <<"session", d>> \in Own(d)
    BY DEF Own
  <2>2. Where(c.vt.held, <<"server", d>>) = IF type = "x11" THEN {t} ELSE {}
    BY <1>4, <1>5, <2>1
  <2>3. Where(c.vt.held, <<"greeter", d>>) = {} /\ Where(c.vt.held, <<"session", d>>) = {}
    BY <1>4, <1>5, <2>1
  <2>. QED BY <1>1, <1>3, <1>5, <2>2, <2>3, StartsKeeps
<1>7. x \in Displays
  BY <1>6 DEF DisplayInv
<1>8. c.ds \in [Numbers -> Displays] /\ c.ds[d] = x /\ \A n \in Numbers \ {d} : c.ds[n] = ds[n]
  BY <1>2, <1>3, <1>7
<1>9. ASSUME NEW n \in Numbers
      PROVE  DisplayInv(type, n, c.ds[n], c.vt.held, sessions)
  <2>1. CASE n = d
    BY <1>6, <1>8, <2>1
  <2>2. CASE n # d
    <3>1. SamePlaces(Own(n), v.held, sessions, c.vt.held, sessions)
      BY <1>4, <2>2 DEF SamePlaces, Own
    <3>. QED BY <1>2, <1>8, <2>2, <3>1, DisplayFrame
  <2>. QED BY <2>1, <2>2
<1>10. OthersInv(c.vt.held, sessions)
  BY <1>2, <1>4, OthersFrame
<1>11. ViewsInv(type, c.ds, c.vt, sessions)
  BY <1>2, <1>4, <1>8, <1>9, <1>10 DEF ViewsInv
<1>12. ListInv(c.ds, c.list)
  <2>1. /\ l \in Seq(Numbers) /\ \A i, j \in 1 .. Len(l) : l[i] = l[j] => i = j
        /\ \A i \in 1 .. Len(l) : ds[l[i]].terminal # 0
    BY DEF ListInv
  <2>2. x.terminal # 0
    BY <1>1, <1>3, RecordFields, TerminalNumbers DEF Starts
  <2>3. /\ c.list \in Seq(Numbers) /\ Len(c.list) = Len(l) + 1 /\ Len(l) \in Nat
        /\ \A i \in 1 .. Len(l) : c.list[i] = l[i]
        /\ c.list[Len(l) + 1] = d
    BY <1>3, <2>1, AppendProperties, LenProperties
  <2>4. \A i \in 1 .. Len(l) : l[i] # d /\ l[i] \in Numbers
    BY <1>3, <2>1, ElementOfSeq
  <2>5. \A i, j \in 1 .. Len(c.list) : c.list[i] = c.list[j] => i = j
    BY <2>1, <2>3, <2>4
  <2>6. \A i \in 1 .. Len(c.list) : c.ds[c.list[i]].terminal # 0
    BY <1>8, <2>1, <2>2, <2>3, <2>4
  <2>. QED BY <2>3, <2>5, <2>6 DEF ListInv
<1>. QED BY <1>11, <1>12

-----------------------------------------------------------------------------
(* What a creation gives is free *)

\* Those who may have a terminal open that fetchAvailableVt takes to be free: compositors
\* nobody waits for, and others without a session.
Unseen(sessions) ==
  {h \in ({"orphan"} \X Terminals) \union ({"other"} \X Others) :
     h[1] = "other" => \A s \in sessions : s.of # h}

\* Nobody but display d, and more, has t open.
FreeFor(t, d, held, more) == held[t] \subseteq (Helpers(d) \union {<<"server", d>>}) \union more

\* So are the terminals that display d has new as y, when it was x.
GivenFree(x, y, d, held, sessions) ==
  /\ y.terminal \notin {x.terminal, 0} =>
       FreeFor(y.terminal, d, held, IF type = "x11" THEN {} ELSE Unseen(sessions))
  /\ y.sessionTerminal \notin {x.sessionTerminal, y.terminal, 0} =>
       FreeFor(y.sessionTerminal, d, held, {})

\* Where the helper starts the display server, whoever else has a terminal open has a
\* session there that fetchAvailableVt sees.
LEMMA HoldersAreInUse ==
  ASSUME NEW ty, ty # "x11", NEW ds, NEW v, NEW sessions, ViewsInv(ty, ds, v, sessions),
         NEW t \in Terminals, NEW h \in v.held[t], h \notin Unseen(sessions)
  PROVE  IsTtyInUse(sessions, t)
<1>1. /\ v \in Vts /\ OthersInv(v.held, sessions)
      /\ \A n \in Numbers : DisplayInv(ty, n, ds[n], v.held, sessions)
  BY DEF ViewsInv
<1>2. h \in Holders
  BY <1>1 DEF Vts, Held
<1>3. t \in Where(v.held, h)
  BY DEF Where
<1>4. ASSUME NEW u, Active(u, h) \in sessions, u = t
      PROVE  IsTtyInUse(sessions, t)
  BY <1>4 DEF IsTtyInUse, Active
<1>5. ASSUME NEW s, s \in SessionsOf(sessions, h)
      PROVE  s \in sessions
  BY <1>5 DEF SessionsOf
<1>6. ASSUME NEW n \in Numbers, h = <<"greeter", n>>
      PROVE  IsTtyInUse(sessions, t)
  <2>1. GreeterInv(ty, n, ds[n], v.held, sessions)
    BY <1>1 DEF DisplayInv
  <2>2. ds[n].greeter = "running" /\ t = ds[n].greeterTerminal
    BY <1>3, <1>6, <2>1 DEF GreeterInv
  <2>3. Active(ds[n].greeterTerminal, h) \in SessionsOf(sessions, h)
    BY <1>6, <2>1, <2>2 DEF GreeterInv
  <2>. QED BY <1>4, <1>5, <2>2, <2>3
<1>7. ASSUME NEW n \in Numbers, h = <<"session", n>>
      PROVE  IsTtyInUse(sessions, t)
  <2>1. SessionInv(ty, n, ds[n], v.held, sessions)
    BY <1>1 DEF DisplayInv
  <2>2. ds[n].auth = "running" /\ t = ds[n].sessionTerminal
    BY <1>3, <1>7, <2>1 DEF SessionInv
  <2>3. Active(ds[n].sessionTerminal, h) \in SessionsOf(sessions, h)
    BY <1>7, <2>1, <2>2 DEF SessionInv
  <2>. QED BY <1>4, <1>5, <2>2, <2>3
<1>8. ASSUME NEW n \in Numbers, h = <<"server", n>>
      PROVE  FALSE
  <2>1. ServerInv(ty, n, ds[n], v.held)
    BY <1>1 DEF DisplayInv
  <2>. QED BY <1>3, <1>8, <2>1 DEF ServerInv
<1>9. ASSUME NEW n \in Others, h = <<"other", n>>
      PROVE  IsTtyInUse(sessions, t)
  <2>1. Where(v.held, h) \subseteq {n} /\ SessionsOf(sessions, h) \subseteq {Active(n, h)}
    BY <1>1, <1>9 DEF OthersInv
  <2>2. h \in {"other"} \X Others /\ h[1] = "other"
    BY <1>9
  <2>3. PICK s \in sessions : s.of = h
    BY <2>2 DEF Unseen
  <2>4. Active(n, h) \in sessions
    BY <2>1, <2>3 DEF SessionsOf
  <2>. QED BY <1>3, <1>4, <2>1, <2>4
<1>10. ASSUME NEW n \in Terminals, h = <<"orphan", n>>
       PROVE  FALSE
  <2>1. h \in {"orphan"} \X Terminals /\ h[1] # "other"
    BY <1>10
  <2>. QED BY <2>1 DEF Unseen
<1>11. \/ \E n \in Numbers : h \in {<<"greeter", n>>, <<"session", n>>, <<"server", n>>}
       \/ \E n \in Terminals : h = <<"orphan", n>>
       \/ \E n \in Others : h = <<"other", n>>
  BY <1>2 DEF Holders
<1>. QED BY <1>6, <1>7, <1>8, <1>9, <1>10, <1>11

\* While a terminal stays free, the one chosen is free for the display.
LEMMA NewTerminalFree ==
  ASSUME NEW ds, NEW v, NEW sessions, NEW d \in Numbers, NEW t \in Terminals, NEW w,
         vt.active \in Terminals, type \in ServerTypes, ViewsInv(type, ds, v, sessions),
         t = NewTerminal(v, sessions), w = WithServer(v, d, t),
         \E u \in Terminals : w.held[u] = {}
  PROVE  FreeFor(t, d, w.held, IF type = "x11" THEN {} ELSE Unseen(sessions))
<1>1. v \in Vts
  BY DEF ViewsInv
<1>2. CASE type = "x11"
  <2>1. w = [active |-> t, held |-> Enter(v.held, t, <<"server", d>>)]
    BY <1>2 DEF WithServer
  <2>2. w.held = Enter(v.held, t, <<"server", d>>)
    BY <2>1
  <2>3. \A u \in Terminals : w.held[u] = v.held[u] \cup {h \in {<<"server", d>>} : u = t}
    BY <2>2 DEF Enter
  <2>4. \E u \in Terminals : v.held[u] = {}
    BY <2>3
  <2>5. v.held[t] = {}
    BY <1>2, <2>4, NewVtIsFree DEF NewTerminal
  <2>. QED BY <1>2, <2>3, <2>5 DEF FreeFor
<1>3. CASE type # "x11"
  <2>1. w = v
    BY <1>3 DEF WithServer
  <2>2. v.held[t] = {} \/ ~IsTtyInUse(sessions, t)
    BY <1>3, <2>1, AvailableVtIsFree DEF NewTerminal
  <2>3. \A h \in v.held[t] : h \in Unseen(sessions)
    BY <1>3, <2>2, HoldersAreInUse
  <2>. QED BY <1>3, <2>1, <2>3 DEF FreeFor
<1>. QED BY <1>2, <1>3

\* Everything a creation gives is free, if a terminal stays free.
LEMMA CreationGivesFree ==
  ASSUME NEW ds, NEW l, NEW v, NEW sessions, NEW c, NEW d \in Numbers, NEW x,
         vt.active \in Terminals, type \in ServerTypes, ViewsInv(type, ds, v, sessions),
         Created(c, ds, l, v, sessions, d, x), \E u \in Terminals : c.vt.held[u] = {}
  PROVE  \A n \in Numbers : GivenFree(ds[n], c.ds[n], n, c.vt.held, sessions)
<1>. DEFINE t == NewTerminal(v, sessions)
<1>1. t \in Terminals
  BY NewTerminalType
<1>2. /\ c.ds = [ds EXCEPT ![d] = x] /\ c.vt = WithServer(v, d, t) /\ Starts(x, t, c.vt.held)
  BY DEF Created
<1>3. ds \in [Numbers -> Displays]
  BY DEF ViewsInv
<1>4. FreeFor(t, d, c.vt.held, IF type = "x11" THEN {} ELSE Unseen(sessions))
  BY <1>1, <1>2, NewTerminalFree
<1>. HIDE DEF t
<1>5. x.terminal = t /\ (x.sessionTerminal \in {t, 0} \/ x.sessionTerminal = SetUpNewVt(c.vt.held))
  BY <1>2, RecordFields DEF Starts
<1>6. c.vt.held[SetUpNewVt(c.vt.held)] = {}
  BY NewVtIsFree
<1>7. GivenFree(ds[d], x, d, c.vt.held, sessions)
  BY <1>4, <1>5, <1>6 DEF GivenFree, FreeFor
<1>8. \A n \in Numbers \ {d} : GivenFree(ds[n], ds[n], n, c.vt.held, sessions)
  BY DEF GivenFree
<1>. QED BY <1>2, <1>3, <1>7, <1>8

-----------------------------------------------------------------------------
(* A display goes *)

VtsAfter(v, w) == w \in Vts /\ w.held = v.held

\* A jump changes what is shown and nothing else.
LEMMA JumpIs ==
  ASSUME NEW v \in Vts, NEW t
  PROVE  /\ VtsAfter(v, JumpToVt(v, t))
         /\ t \in Terminals => JumpToVt(v, t).active = t
<1>1. CASE t \in Terminals
  <2>. DEFINE w == [v EXCEPT !.active = t]
  <2>1. w \in Vts /\ w.held = v.held /\ w.active = t
    BY <1>1 DEF Vts
  <2>2. JumpToVt(v, t) = w
    BY <1>1 DEF JumpToVt
  <2>. QED BY <2>1, <2>2 DEF VtsAfter
<1>2. CASE t \notin Terminals
  BY <1>2 DEF JumpToVt, VtsAfter
<1>. QED BY <1>1, <1>2

\* Nothing of display d is left, and everybody else is where they were, but a
\* compositor whose helper was killed.
LEMMA WithoutPlaces ==
  ASSUME NEW d \in Numbers, NEW killed \in BOOLEAN, NEW held \in Held,
         killed => disp[d].sessionTerminal \in Terminals
  PROVE  /\ Without(held, d, killed) \in Held
         /\ \A h \in Own(d) : Where(Without(held, d, killed), h) = {}
         /\ \A h : h \notin Own(d) /\ h[1] # "orphan" =>
              Where(Without(held, d, killed), h) = Where(held, h)
<1>. DEFINE left == Leave(held, Helpers(d) \union {<<"server", d>>})
            t == disp[d].sessionTerminal
<1>1. Helpers(d) \union {<<"server", d>>} = Own(d)
  BY DEF Helpers, Own
<1>2. left \in Held /\ \A h : Where(left, h) = IF h \in Own(d) THEN {} ELSE Where(held, h)
  BY <1>1, LeaveType, WhereLeave
<1>3. /\ \A h \in Own(d) : h # <<"orphan", t>>
      /\ killed => <<"orphan", t>> \in Holders
      /\ \A h : h[1] # "orphan" => h # <<"orphan", t>>
  BY DEF Own, Holders
<1>4. Without(held, d, killed) = IF killed THEN Enter(left, t, <<"orphan", t>>) ELSE left
  BY DEF Without
<1>. HIDE DEF left
<1>5. CASE killed
  <2>1. Without(held, d, killed) = Enter(left, t, <<"orphan", t>>)
    BY <1>4, <1>5
  <2>2. \A h : h # <<"orphan", t>> => Where(Enter(left, t, <<"orphan", t>>), h) = Where(left, h)
    BY <1>5, WhereEnter
  <2>3. Enter(left, t, <<"orphan", t>>) \in Held
    BY <1>2, <1>3, <1>5, EnterType
  <2>. QED BY <1>2, <1>3, <2>1, <2>2, <2>3
<1>6. CASE ~killed
  BY <1>2, <1>4, <1>6
<1>. QED BY <1>5, <1>6

\* The sessions logind has when display d is gone.
LEMMA WithoutSessions ==
  ASSUME NEW d \in Numbers, NEW killed \in BOOLEAN, logind \subseteq Sessions
  PROVE  /\ LogindWithout(d, killed) \subseteq Sessions
         /\ \A h \in Helpers(d) : SessionsOf(LogindWithout(d, killed), h) = {}
         /\ \A h : h \notin Helpers(d) /\ h[1] # "orphan" =>
              SessionsOf(LogindWithout(d, killed), h) = SessionsOf(logind, h)
<1>. DEFINE kept == {s \in logind : s.of \notin Helpers(d)}
            closing == {[tty |-> s.tty, of |-> <<"orphan", s.tty>>, state |-> "closing"] :
                          s \in {s \in logind : killed /\ s.of = <<"session", d>>}}
<1>1. LogindWithout(d, killed) = kept \union closing
  BY DEF LogindWithout
<1>2. \A s \in closing : s \in Sessions /\ s.of[1] = "orphan"
  <2>1. \A s \in logind : <<"orphan", s.tty>> \in Holders
    BY DEF Holders, Sessions
  <2>2. \A s \in logind : [tty |-> s.tty, of |-> <<"orphan", s.tty>>, state |-> "closing"] \in Sessions
    BY <2>1 DEF Sessions
  <2>. QED BY <2>2
<1>3. \A h \in Helpers(d) : h[1] # "orphan"
  BY DEF Helpers
<1>. HIDE DEF closing
<1>4. kept \union closing \subseteq Sessions
  BY <1>2
<1>5. \A h \in Helpers(d) : SessionsOf(kept \union closing, h) = {}
  BY <1>2, <1>3 DEF SessionsOf
<1>6. \A h : h \notin Helpers(d) /\ h[1] # "orphan" =>
        SessionsOf(kept \union closing, h) = SessionsOf(logind, h)
  BY <1>2 DEF SessionsOf
<1>. QED BY <1>1, <1>4, <1>5, <1>6

\* A display that is not there is one the invariant allows.
LEMMA NewDisplayKeeps ==
  ASSUME NEW ty, NEW d, NEW held, NEW sessions,
         Where(held, <<"server", d>>) = {},
         Where(held, <<"greeter", d>>) = {}, Where(held, <<"session", d>>) = {},
         SessionsOf(sessions, <<"greeter", d>>) = {}, SessionsOf(sessions, <<"session", d>>) = {}
  PROVE  NewDisplay \in Displays /\ DisplayInv(ty, d, NewDisplay, held, sessions)
<1>1. /\ NewDisplay.terminal = 0 /\ NewDisplay.greeter = "none" /\ NewDisplay.auth = "idle"
  BY DEF NewDisplay
<1>2. NewDisplay \in Displays
  BY NewDisplayIs, RecordType DEF Ttys, GreeterStages, AuthStages
<1>3. StagesInv(ty, NewDisplay)
  BY <1>1 DEF StagesInv
<1>4. /\ ServerInv(ty, d, NewDisplay, held) /\ GreeterInv(ty, d, NewDisplay, held, sessions)
      /\ SessionInv(ty, d, NewDisplay, held, sessions)
  BY <1>1 DEF ServerInv, GreeterInv, SessionInv
<1>. QED BY <1>2, <1>3, <1>4 DEF DisplayInv

\* What the removal of a display leaves is what the invariant says of the others.
LEMMA RemovalKeeps ==
  ASSUME TerminalsInv, NEW d \in Numbers, NEW killed \in BOOLEAN, NEW v, VtsAfter(vt, v),
         killed => disp[d].sessionTerminal \in Terminals,
         NEW ds, ds = [disp EXCEPT ![d] = NewDisplay], NEW rest, rest = RemoveFirst(list, d),
         NEW gone, gone = [active |-> v.active, held |-> Without(v.held, d, killed)]
  PROVE  ViewsInv(type, ds, gone, LogindWithout(d, killed)) /\ ListInv(ds, rest)
<1>1. /\ disp \in [Numbers -> Displays] /\ vt \in Vts /\ logind \subseteq Sessions
      /\ \A n \in Numbers : DisplayInv(type, n, disp[n], vt.held, logind)
      /\ OthersInv(vt.held, logind) /\ ListInv(disp, list)
  BY DEF TerminalsInv, ViewsInv
<1>2. v \in Vts /\ v.held = vt.held /\ vt.held \in Held
  BY <1>1 DEF VtsAfter, Vts
<1>. DEFINE held == Without(v.held, d, killed)
            sessions == LogindWithout(d, killed)
<1>3. /\ held \in Held /\ \A h \in Own(d) : Where(held, h) = {}
      /\ \A h : h \notin Own(d) /\ h[1] # "orphan" => Where(held, h) = Where(vt.held, h)
  BY <1>2, WithoutPlaces
<1>4. /\ sessions \subseteq Sessions /\ \A h \in Helpers(d) : SessionsOf(sessions, h) = {}
      /\ \A h : h \notin Helpers(d) /\ h[1] # "orphan" =>
           SessionsOf(sessions, h) = SessionsOf(logind, h)
  BY <1>1, WithoutSessions
<1>5. gone.held = held /\ gone \in Vts
  <2>1. v.active \in Terminals
    BY <1>2 DEF Vts
  <2>. QED BY <1>3, <2>1 DEF Vts
<1>. HIDE DEF held, sessions
<1>6. DisplayInv(type, d, NewDisplay, held, sessions) /\ NewDisplay \in Displays
  <2>1. <<"server", d>> \in Own(d) /\ <<"greeter", d>> \in Own(d) /\ <<"session", d>> \in Own(d)
    BY DEF Own
  <2>2. <<"greeter", d>> \in Helpers(d) /\ <<"session", d>> \in Helpers(d)
    BY DEF Helpers
  <2>. QED BY <1>3, <1>4, <2>1, <2>2, NewDisplayKeeps
<1>7. ds \in [Numbers -> Displays] /\ ds[d] = NewDisplay /\ \A n \in Numbers \ {d} : ds[n] = disp[n]
  BY <1>1, <1>6
<1>8. ASSUME NEW n \in Numbers
      PROVE  DisplayInv(type, n, ds[n], held, sessions)
  <2>1. CASE n = d
    BY <1>6, <1>7, <2>1
  <2>2. CASE n # d
    <3>1. \A h \in Own(n) : h \notin Own(d) /\ h[1] # "orphan" /\ h \notin Helpers(d)
      BY <2>2 DEF Own, Helpers
    <3>2. SamePlaces(Own(n), vt.held, logind, held, sessions)
      BY <1>3, <1>4, <3>1 DEF SamePlaces
    <3>. QED BY <1>1, <1>7, <2>2, <3>2, DisplayFrame
  <2>. QED BY <2>1, <2>2
<1>9. OthersInv(held, sessions)
  <2>1. \A t : /\ <<"other", t>> \notin Own(d) /\ <<"other", t>>[1] # "orphan"
               /\ <<"other", t>> \notin Helpers(d)
    BY DEF Own, Helpers
  <2>2. \A t : Where(held, <<"other", t>>) = Where(vt.held, <<"other", t>>)
    BY <1>3, <2>1
  <2>3. \A t : SessionsOf(sessions, <<"other", t>>) = SessionsOf(logind, <<"other", t>>)
    BY <1>4, <2>1
  <2>. QED BY <1>1, <2>2, <2>3, OthersFrame
<1>10. ListInv(ds, rest)
  <2>1. /\ list \in Seq(Numbers) /\ \A i, j \in 1 .. Len(list) : list[i] = list[j] => i = j
        /\ \A i \in 1 .. Len(list) : disp[list[i]].terminal # 0
    BY <1>1 DEF ListInv
  <2>2. /\ rest \in Seq(Numbers)
        /\ \A i, j \in 1 .. Len(rest) : rest[i] = rest[j] => i = j
        /\ \A i \in 1 .. Len(rest) : rest[i] # d /\ \E j \in 1 .. Len(list) : rest[i] = list[j]
    BY <2>1, RemoveFirstOnce
  <2>3. \A i \in 1 .. Len(rest) : rest[i] \in Numbers \ {d} /\ disp[rest[i]].terminal # 0
    BY <2>1, <2>2, ElementOfSeq
  <2>. QED BY <1>7, <2>2, <2>3 DEF ListInv
<1>11. ViewsInv(type, ds, gone, sessions)
  BY <1>4, <1>5, <1>7, <1>8, <1>9 DEF ViewsInv
<1>. QED BY <1>10, <1>11 DEF sessions

-----------------------------------------------------------------------------
(* A display has stopped *)

\* A display forgets that the session it reuses has gone.
Forgotten(x, y) ==
  \/ y = x
  \/ x.reuse \in Numbers /\ y = WithReuse(x, "gone")

\* A display that forgets keeps every field but one.
LEMMA ForgottenFields ==
  ASSUME NEW x \in Displays, NEW y, Forgotten(x, y)
  PROVE  /\ y \in Displays /\ y.terminal = x.terminal /\ y.greeter = x.greeter
         /\ y.greeterTerminal = x.greeterTerminal /\ y.auth = x.auth /\ y.session = x.session
         /\ y.sessionTerminal = x.sessionTerminal
<1>1. CASE y = x
  BY <1>1
<1>2. CASE y = WithReuse(x, "gone")
  <2>1. y = Record(x.terminal, x.greeter, x.greeterTerminal, x.auth, x.session, x.sessionTerminal,
                  "gone")
    BY <1>2 DEF WithReuse
  <2>2. y \in Displays
    BY <2>1, DisplayFields, RecordType
  <2>. QED BY <2>1, <2>2, RecordFields
<1>. QED BY <1>1, <1>2 DEF Forgotten

\* That changes nothing the invariant looks at.
LEMMA ForgottenKeeps ==
  ASSUME NEW ty, NEW d, NEW x, NEW y, NEW held, NEW sessions,
         DisplayInv(ty, d, x, held, sessions), Forgotten(x, y)
  PROVE  DisplayInv(ty, d, y, held, sessions)
<1>1. x \in Displays /\ StagesInv(ty, x) /\ ServerInv(ty, d, x, held)
      /\ GreeterInv(ty, d, x, held, sessions) /\ SessionInv(ty, d, x, held, sessions)
  BY DEF DisplayInv
<1>2. /\ y \in Displays /\ y.terminal = x.terminal /\ y.greeter = x.greeter
      /\ y.greeterTerminal = x.greeterTerminal /\ y.auth = x.auth /\ y.session = x.session
      /\ y.sessionTerminal = x.sessionTerminal
  BY <1>1, ForgottenFields
<1>3. x.terminal = 0 => y = NewDisplay
  <2>1. NewDisplay.reuse = "none"
    BY DEF NewDisplay
  <2>2. "none" \notin Numbers
    BY TerminalsAssumption
  <2>. QED BY <1>1, <2>1, <2>2 DEF StagesInv, Forgotten
<1>4. StagesInv(ty, y)
  BY <1>1, <1>2, <1>3 DEF StagesInv
<1>5. ServerInv(ty, d, y, held)
  BY <1>1, <1>2 DEF ServerInv
<1>6. GreeterInv(ty, d, y, held, sessions) /\ SessionInv(ty, d, y, held, sessions)
  BY <1>1, <1>2, Zenon DEF GreeterInv, SessionInv
<1>. QED BY <1>2, <1>4, <1>5, <1>6 DEF DisplayInv

\* Nor does what is shown.
LEMMA ShownKeeps ==
  ASSUME NEW ty, NEW ds, NEW l, NEW v, NEW sessions, NEW ds2, NEW v2,
         ViewsInv(ty, ds, v, sessions), ListInv(ds, l), VtsAfter(v, v2), DOMAIN ds2 = Numbers,
         ds2 = [n \in Numbers |-> ds2[n]], \A n \in Numbers : Forgotten(ds[n], ds2[n])
  PROVE  ViewsInv(ty, ds2, v2, sessions) /\ ListInv(ds2, l)
<1>1. /\ ds \in [Numbers -> Displays] /\ v \in Vts /\ sessions \subseteq Sessions
      /\ \A d \in Numbers : DisplayInv(ty, d, ds[d], v.held, sessions)
      /\ OthersInv(v.held, sessions)
  BY DEF ViewsInv
<1>2. v2 \in Vts /\ v2.held = v.held
  BY DEF VtsAfter
<1>3. \A d \in Numbers : DisplayInv(ty, d, ds2[d], v2.held, sessions)
  BY <1>1, <1>2, ForgottenKeeps
<1>4. \A d \in Numbers : ds2[d] \in Displays /\ ds2[d].terminal = ds[d].terminal
  BY <1>1, ForgottenFields
<1>5. ds2 \in [Numbers -> Displays]
  BY <1>4
<1>6. ListInv(ds2, l)
  BY <1>4, ElementOfSeq DEF ListInv
<1>. QED BY <1>1, <1>2, <1>3, <1>5, <1>6 DEF ViewsInv

\* Forget changes that field, and only of displays that reuse the session.
LEMMA ForgetIs ==
  ASSUME NEW ds \in [Numbers -> Displays], NEW d \in Numbers
  PROVE  /\ Forget(ds, d) = [n \in Numbers |-> Forget(ds, d)[n]]
         /\ \A n \in Numbers : Forgotten(ds[n], Forget(ds, d)[n])
<1>1. Forget(ds, d) = [n \in Numbers |-> Forget(ds, d)[n]]
  BY DEF Forget
<1>2. ASSUME NEW n \in Numbers
      PROVE  Forgotten(ds[n], Forget(ds, d)[n])
  <2>. DEFINE x == ds[n]
              y == Forget(ds, d)[n]
  <2>1. y = IF x.reuse = d THEN [x EXCEPT !.reuse = "gone"] ELSE x
    BY DEF Forget
  <2>2. IsRecord(x)
    BY DisplayShape
  <2>. HIDE DEF x, y
  <2>3. [x EXCEPT !.reuse = "gone"] = WithReuse(x, "gone")
    BY <2>2, ChangeReuse DEF WithReuse
  <2>4. Forgotten(x, y)
    BY <2>1, <2>3 DEF Forgotten
  <2>. QED BY <2>4 DEF x, y
<1>. QED BY <1>1, <1>2

-----------------------------------------------------------------------------
(* The bodies of the two action properties *)

\* While a terminal stays free, every terminal given is free for its display.
GivenAreFree ==
  (\E u \in Terminals : vt'.held[u] = {})
    => \A n \in Numbers : GivenFree(disp[n], disp'[n], n, vt'.held, logind')

\* A display has stopped, and others stay, without a jump to a session reused.
Went ==
  /\ Len(list') < Len(list)
  /\ \E n \in Numbers : /\ disp[n].terminal # 0 /\ disp'[n].terminal = 0
                        /\ disp[n].reuse = "none" /\ ~DisplayServerFails(n)

\* Display n is where v shows, waits for the answer to a login, or has nothing left.
ShownAt(ty, n, x, v) ==
  \/ x.auth \in {"auto", "asking", "refused"}
  \/ <<"server", n>> \in v.held[v.active]
  \/ x.greeter # "none" /\ x.greeterTerminal = v.active
  \/ x.auth \in {"opened", "running"} /\ x.sessionTerminal = v.active
  \/ ty # "x11" /\ x.greeter = "none" /\ x.auth = "idle"

LandsOnTheLast == Went => ShownAt(type, Last(list'), disp'[Last(list')], vt')

\* What a display in use answers as its terminal is one.
LEMMA IsATerminal ==
  ASSUME NEW ty, NEW ds, NEW n \in Numbers, NEW held, NEW sessions,
         DisplayInv(ty, n, ds[n], held, sessions), ds[n].terminal # 0
  PROVE  ds[n].terminal \in Terminals /\ TerminalId(ds, n) \in Terminals
  BY DisplayFields DEF DisplayInv, StagesInv, TerminalId, Ttys

\* Where that is shown the display is shown.
LEMMA AnswersWhereItIs ==
  ASSUME NEW ty, NEW ds, NEW n \in Numbers, NEW v, NEW sessions,
         DisplayInv(ty, n, ds[n], v.held, sessions), ds[n].terminal # 0,
         v.active = TerminalId(ds, n)
  PROVE  ShownAt(ty, n, ds[n], v)
<1>. DEFINE x == ds[n]
<1>1. x \in Displays /\ StagesInv(ty, x) /\ ServerInv(ty, n, x, v.held)
  BY DEF DisplayInv
<1>2. v.active = IF x.auth # "idle" THEN x.sessionTerminal ELSE x.terminal
  BY DEF TerminalId
<1>3. x.terminal # 0
  OBVIOUS
<1>. HIDE DEF x
<1>4. x.terminal \in Terminals /\ x.auth \in AuthStages
  BY <1>1, <1>3, DisplayFields DEF Ttys
<1>5. CASE x.auth # "idle"
  BY <1>1, <1>2, <1>4, <1>5 DEF StagesInv, ShownAt, AuthStages, x
<1>6. CASE x.auth = "idle" /\ ty = "x11"
  <2>1. Where(v.held, <<"server", n>>) = {x.terminal}
    BY <1>1, <1>3, <1>6 DEF ServerInv
  <2>2. <<"server", n>> \in v.held[v.active]
    BY <1>2, <1>6, <2>1 DEF Where
  <2>. QED BY <1>2, <1>4, <1>6, <2>2 DEF ShownAt, x
<1>7. CASE x.auth = "idle" /\ ty # "x11"
  BY <1>1, <1>2, <1>3, <1>4, <1>7 DEF StagesInv, ShownAt, x
<1>. QED BY <1>5, <1>6, <1>7

-----------------------------------------------------------------------------
(* A display is removed, and perhaps another created *)

\* What is left: the others, or a display more.
Left(c, gone, sessions) ==
  \/ c.ds = gone.ds /\ c.list = gone.list /\ c.vt = gone.vt
  \/ \E n \in Numbers : \E x : Created(c, gone.ds, gone.list, gone.vt, sessions, n, x)

\* The fields of what removeDisplay leaves.
LEMMA RemovalIs ==
  ASSUME NEW d, NEW v, NEW killed, NEW gone, gone = Removal(d, v, killed)
  PROVE  /\ gone.ds = [disp EXCEPT ![d] = NewDisplay] /\ gone.list = RemoveFirst(list, d)
         /\ gone.vt = [active |-> v.active, held |-> Without(v.held, d, killed)]
  BY DEF Removal

\* The two ways to go on from a removal.
LEMMA LeftIs ==
  ASSUME TerminalsInv, NEW gone, NEW sessions, NEW c, gone.ds \in [Numbers -> Displays],
         c = gone \/ c \in Replacements(gone, sessions)
  PROVE  Left(c, gone, sessions)
<1>1. vt.active \in Terminals
  BY DEF TerminalsInv, ViewsInv, Vts
<1>2. ASSUME c \in Replacements(gone, sessions)
      PROVE  \E n \in Numbers : \E x : Created(c, gone.ds, gone.list, gone.vt, sessions, n, x)
  <2>1. c \in Creations(gone.ds, gone.list, gone.vt, sessions)
    BY <1>2 DEF Replacements
  <2>. QED BY <1>1, <2>1, CreationIs
<1>. QED BY <1>2 DEF Left

\* What a removal leaves, or a creation after it, is what the invariant says.
LEMMA LeftKeeps ==
  ASSUME TerminalsInv, NEW d \in Numbers, NEW killed \in BOOLEAN, NEW v, VtsAfter(vt, v),
         killed => disp[d].sessionTerminal \in Terminals,
         NEW gone, gone = Removal(d, v, killed),
         NEW c, c = gone \/ c \in Replacements(gone, logind'),
         disp' = Forget(c.ds, d), list' = c.list, type' = type, VtsAfter(c.vt, vt'),
         logind' = LogindWithout(d, killed)
  PROVE  /\ ViewsInv(type, gone.ds, gone.vt, logind') /\ ListInv(gone.ds, gone.list)
         /\ Left(c, gone, logind')
         /\ c.ds \in [Numbers -> Displays] /\ \A n \in Numbers : Forgotten(c.ds[n], disp'[n])
         /\ TerminalsInv'
<1>1. /\ gone.ds = [disp EXCEPT ![d] = NewDisplay] /\ gone.list = RemoveFirst(list, d)
      /\ gone.vt = [active |-> v.active, held |-> Without(v.held, d, killed)]
  BY RemovalIs
<1>2. ViewsInv(type, gone.ds, gone.vt, logind') /\ ListInv(gone.ds, gone.list)
  BY <1>1, RemovalKeeps
<1>3. gone.ds \in [Numbers -> Displays]
  BY <1>2 DEF ViewsInv
<1>4. Left(c, gone, logind')
  BY <1>3, LeftIs
<1>5. vt.active \in Terminals /\ type \in ServerTypes
  BY DEF TerminalsInv, ViewsInv, Vts
<1>6. ViewsInv(type, c.ds, c.vt, logind') /\ ListInv(c.ds, c.list)
  <2>1. CASE c.ds = gone.ds /\ c.list = gone.list /\ c.vt = gone.vt
    BY <1>2, <2>1
  <2>2. ASSUME NEW n \in Numbers, NEW x, Created(c, gone.ds, gone.list, gone.vt, logind', n, x)
        PROVE  ViewsInv(type, c.ds, c.vt, logind') /\ ListInv(c.ds, c.list)
    BY <1>2, <1>5, <2>2, CreationKeeps
  <2>. QED BY <1>4, <2>1, <2>2 DEF Left
<1>7. c.ds \in [Numbers -> Displays]
  BY <1>6 DEF ViewsInv
<1>8. /\ disp' = [n \in Numbers |-> disp'[n]]
      /\ \A n \in Numbers : Forgotten(c.ds[n], disp'[n])
  BY <1>7, ForgetIs
<1>9. ViewsInv(type, disp', vt', logind') /\ ListInv(disp', c.list)
  <2>1. DOMAIN disp' = Numbers
    BY <1>8
  <2>. QED BY <1>6, <1>8, <2>1, ShownKeeps
<1>10. ViewsInv(type', disp', vt', logind') /\ ListInv(disp', list') /\ type' \in ServerTypes
  BY <1>5, <1>9
<1>11. TerminalsInv'
  BY <1>10, Zenon DEF TerminalsInv
<1>. QED BY <1>2, <1>4, <1>7, <1>8, <1>11

\* Everything it gives is free, and nobody but d goes.
LEMMA LeftGivesFree ==
  ASSUME TerminalsInv, NEW d \in Numbers, NEW gone,
         gone.ds = [disp EXCEPT ![d] = NewDisplay],
         NEW c, Left(c, gone, logind'), ViewsInv(type, gone.ds, gone.vt, logind'),
         c.ds \in [Numbers -> Displays], \A n \in Numbers : Forgotten(c.ds[n], disp'[n]),
         VtsAfter(c.vt, vt')
  PROVE  GivenAreFree /\ \A n \in Numbers : disp[n].terminal # 0 /\ disp'[n].terminal = 0 => n = d
<1>1. vt.active \in Terminals /\ type \in ServerTypes /\ disp \in [Numbers -> Displays]
  BY DEF TerminalsInv, ViewsInv, Vts
<1>2. \A n \in Numbers : /\ disp'[n].terminal = c.ds[n].terminal
                         /\ disp'[n].sessionTerminal = c.ds[n].sessionTerminal
  BY ForgottenFields
<1>3. vt'.held = c.vt.held
  BY DEF VtsAfter
<1>4. GivenAreFree
  <2>1. SUFFICES ASSUME \E u \in Terminals : vt'.held[u] = {}
                 PROVE  \A n \in Numbers : GivenFree(disp[n], disp'[n], n, vt'.held, logind')
    BY DEF GivenAreFree
  <2>2. \A n \in Numbers : GivenFree(gone.ds[n], c.ds[n], n, c.vt.held, logind')
    <3>1. CASE c.ds = gone.ds
      BY <3>1 DEF GivenFree
    <3>2. ASSUME NEW n \in Numbers, NEW x, Created(c, gone.ds, gone.list, gone.vt, logind', n, x)
          PROVE  \A k \in Numbers : GivenFree(gone.ds[k], c.ds[k], k, c.vt.held, logind')
      <4>1. \E u \in Terminals : c.vt.held[u] = {}
        BY <1>3, <2>1
      <4>. QED BY <1>1, <3>2, <4>1, CreationGivesFree, Zenon
    <3>. QED BY <3>1, <3>2 DEF Left
  <2>3. NewDisplay.terminal = 0 /\ NewDisplay.sessionTerminal = 0
    BY DEF NewDisplay
  <2>4. \A n \in Numbers : GivenFree(disp[n], c.ds[n], n, c.vt.held, logind')
    BY <1>1, <2>2, <2>3 DEF GivenFree
  <2>. QED BY <1>2, <1>3, <2>4 DEF GivenFree
<1>5. ASSUME NEW n \in Numbers, disp[n].terminal # 0, disp'[n].terminal = 0, n # d
      PROVE  FALSE
  <2>1. gone.ds[n] = disp[n] /\ c.ds[n].terminal = 0
    BY <1>1, <1>2, <1>5
  <2>2. CASE c.ds = gone.ds
    BY <1>5, <2>1, <2>2
  <2>3. ASSUME NEW k \in Numbers, NEW x, Created(c, gone.ds, gone.list, gone.vt, logind', k, x)
        PROVE  FALSE
    <3>1. gone.ds[k].terminal = 0 /\ c.ds = [gone.ds EXCEPT ![k] = x]
      BY <2>3 DEF Created
    <3>2. c.ds[n] = gone.ds[n]
      BY <1>1, <1>5, <2>1, <3>1
    <3>. QED BY <1>5, <2>1, <3>2
  <2>. QED BY <2>2, <2>3 DEF Left
<1>. QED BY <1>4, <1>5

\* A display that stops leaves the invariant, gives what is free, and lands.
LEMMA StoppedKeeps ==
  ASSUME TerminalsInv, NEW d \in Numbers, NEW killed \in BOOLEAN, NEW v, VtsAfter(vt, v),
         killed => disp[d].sessionTerminal \in Terminals, DisplayStopped(d, v, killed)
  PROVE  TerminalsInv' /\ GivenAreFree /\ LandsOnTheLast
<1>. DEFINE gone == Removal(d, v, killed)
            r == disp[d].reuse
            reused == {s.tty : s \in {s \in logind : s.of = <<"session", r>>}}
<1>1. type' = type /\ logind' = LogindWithout(d, killed)
  BY DEF DisplayStopped
<1>2. PICK c \in IF gone.list # <<>> THEN {gone} ELSE Replacements(gone, logind') :
          /\ Becomes(c, d)
          /\ vt' = IF r # "none" THEN JumpToVt(c.vt, IF reused = {} THEN 0 ELSE Min(reused))
                   ELSE IF gone.list = <<>> THEN c.vt
                   ELSE JumpToVt(c.vt, TerminalId(gone.ds, Last(gone.list)))
  BY Zenon DEF DisplayStopped
<1>3. disp' = Forget(c.ds, d) /\ list' = c.list
  BY <1>2 DEF Becomes
<1>4. /\ gone.ds = [disp EXCEPT ![d] = NewDisplay] /\ gone.list = RemoveFirst(list, d)
      /\ gone.vt = [active |-> v.active, held |-> Without(v.held, d, killed)]
  BY RemovalIs
<1>5. /\ disp \in [Numbers -> Displays] /\ ListInv(disp, list) /\ type \in ServerTypes
      /\ vt.active \in Terminals
  BY DEF TerminalsInv, ViewsInv, Vts
<1>. HIDE DEF gone, reused, r
<1>6. c = gone \/ c \in Replacements(gone, logind')
  BY <1>2
<1>7. ViewsInv(type, gone.ds, gone.vt, logind') /\ ListInv(gone.ds, gone.list)
  BY <1>1, <1>4, RemovalKeeps
<1>8. gone.ds \in [Numbers -> Displays] /\ gone.vt \in Vts
  BY <1>7 DEF ViewsInv
<1>9. Left(c, gone, logind')
  BY <1>6, <1>8, LeftIs
<1>10. c.vt \in Vts
  <2>1. CASE c.vt = gone.vt
    BY <1>8, <2>1
  <2>2. ASSUME NEW n \in Numbers, NEW x, Created(c, gone.ds, gone.list, gone.vt, logind', n, x)
        PROVE  c.vt \in Vts
    <3>1. ViewsInv(type, c.ds, c.vt, logind')
      BY <1>5, <1>7, <2>2, CreationKeeps
    <3>. QED BY <3>1 DEF ViewsInv
  <2>. QED BY <1>9, <2>1, <2>2 DEF Left
<1>11. VtsAfter(c.vt, vt')
  BY <1>2, <1>10, JumpIs DEF VtsAfter
<1>12. /\ c.ds \in [Numbers -> Displays] /\ \A n \in Numbers : Forgotten(c.ds[n], disp'[n])
       /\ TerminalsInv'
  BY <1>1, <1>3, <1>6, <1>11, LeftKeeps DEF gone
<1>13. GivenAreFree /\ \A n \in Numbers : disp[n].terminal # 0 /\ disp'[n].terminal = 0 => n = d
  BY <1>4, <1>7, <1>9, <1>11, <1>12, LeftGivesFree
<1>14. LandsOnTheLast
  <2>1. SUFFICES ASSUME Went PROVE ShownAt(type, Last(list'), disp'[Last(list')], vt')
    BY DEF LandsOnTheLast
  <2>2. gone.list # <<>>
    <3>1. SUFFICES ASSUME gone.list = <<>> PROVE FALSE
      OBVIOUS
    <3>2. c \in Replacements(gone, logind')
      BY <1>2, <3>1
    <3>3. c \in Creations(gone.ds, gone.list, gone.vt, logind')
      BY <3>2 DEF Replacements
    <3>4. PICK n \in Numbers : \E x : Created(c, gone.ds, gone.list, gone.vt, logind', n, x)
      BY <1>5, <1>8, <3>3, CreationIs
    <3>5. Len(c.list) = 1
      BY <3>1, <3>4 DEF Created
    <3>6. Len(list) \in Nat /\ list \in Seq(Numbers)
      BY <1>5, LenProperties DEF ListInv
    <3>7. Len(list) > 1
      BY <1>3, <2>1, <3>5, <3>6 DEF Went
    <3>8. Len(gone.list) = Len(list) - 1 \/ gone.list = list
      BY <1>4, <3>6, RemoveFirstLength
    <3>. DEFINE m == Len(list)
                k == Len(gone.list)
    <3>9. k = 0 /\ m \in Nat /\ m > 1 /\ (k = m - 1 \/ k = m)
      BY <3>1, <3>6, <3>7, <3>8
    <3>. HIDE DEF m, k
    <3>. QED BY <3>9
  <2>3. c = gone /\ disp[d].reuse = "none"
    BY <1>2, <1>13, <2>1, <2>2 DEF Went, r
  <2>. DEFINE e == Last(gone.list)
  <2>4. e \in Numbers /\ gone.ds[e].terminal # 0
    BY <1>7, <2>2, ElementOfSeq, LenProperties DEF ListInv, Last
  <2>5. vt' = JumpToVt(gone.vt, TerminalId(gone.ds, e)) /\ list' = gone.list
    BY <1>2, <1>3, <2>2, <2>3 DEF r
  <2>. HIDE DEF e
  <2>6. DisplayInv(type, e, gone.ds[e], gone.vt.held, logind')
    BY <1>7, <2>4 DEF ViewsInv
  <2>7. vt'.held = gone.vt.held
    BY <1>8, <2>5, JumpIs DEF VtsAfter
  <2>8. TerminalId(gone.ds, e) \in Terminals
    BY <2>4, <2>6, IsATerminal
  <2>9. vt'.active = TerminalId(gone.ds, e)
    BY <1>8, <2>5, <2>8, JumpIs
  <2>10. ShownAt(type, e, gone.ds[e], vt')
    BY <2>4, <2>6, <2>7, <2>9, AnswersWhereItIs
  <2>11. /\ disp'[e].greeter = gone.ds[e].greeter
         /\ disp'[e].greeterTerminal = gone.ds[e].greeterTerminal
         /\ disp'[e].auth = gone.ds[e].auth
         /\ disp'[e].sessionTerminal = gone.ds[e].sessionTerminal
    BY <1>12, <2>3, <2>4, ForgottenFields
  <2>12. ShownAt(type, e, disp'[e], vt')
    BY <2>10, <2>11 DEF ShownAt
  <2>. QED BY <2>5, <2>12 DEF e
<1>. QED BY <1>12, <1>13, <1>14

\* A display whose display server failed leaves the invariant, and gives what is free.
LEMMA DisplayServerFailsKeeps ==
  ASSUME TerminalsInv, NEW d \in Numbers, DisplayServerFails(d)
  PROVE  TerminalsInv' /\ GivenAreFree /\ LandsOnTheLast
<1>. DEFINE gone == Removal(d, vt, FALSE)
<1>1. type' = type /\ logind' = LogindWithout(d, FALSE)
  BY DEF DisplayServerFails
<1>2. PICK c \in IF TypeOf(d) = "x11-user" THEN {gone} ELSE Replacements(gone, logind') :
        Becomes(c, d) /\ vt' = c.vt
  BY Zenon DEF DisplayServerFails
<1>3. disp' = Forget(c.ds, d) /\ list' = c.list
  BY <1>2 DEF Becomes
<1>4. /\ gone.ds = [disp EXCEPT ![d] = NewDisplay] /\ gone.list = RemoveFirst(list, d)
      /\ gone.vt = [active |-> vt.active, held |-> Without(vt.held, d, FALSE)]
  BY DEF Removal
<1>5. vt \in Vts /\ VtsAfter(vt, vt)
  BY DEF TerminalsInv, ViewsInv, VtsAfter
<1>. HIDE DEF gone
<1>6. c = gone \/ c \in Replacements(gone, logind')
  BY <1>2
<1>7. ViewsInv(type, gone.ds, gone.vt, logind') /\ ListInv(gone.ds, gone.list)
  BY <1>1, <1>4, <1>5, RemovalKeeps
<1>8. gone.ds \in [Numbers -> Displays] /\ gone.vt \in Vts /\ vt.active \in Terminals
  BY <1>5, <1>7 DEF ViewsInv, Vts
<1>9. Left(c, gone, logind')
  BY <1>6, <1>8, LeftIs
<1>10. VtsAfter(c.vt, vt')
  <2>1. CASE c.vt = gone.vt
    BY <1>2, <1>8, <2>1 DEF VtsAfter
  <2>2. ASSUME NEW n \in Numbers, NEW x, Created(c, gone.ds, gone.list, gone.vt, logind', n, x)
        PROVE  c.vt \in Vts
    <3>1. ViewsInv(type, c.ds, c.vt, logind')
      BY <1>7, <1>8, <2>2, CreationKeeps
    <3>. QED BY <3>1 DEF ViewsInv
  <2>. QED BY <1>2, <1>9, <2>1, <2>2 DEF Left, VtsAfter
<1>11. /\ c.ds \in [Numbers -> Displays] /\ \A n \in Numbers : Forgotten(c.ds[n], disp'[n])
       /\ TerminalsInv'
  BY <1>1, <1>3, <1>5, <1>6, <1>10, LeftKeeps DEF gone
<1>12. GivenAreFree /\ \A n \in Numbers : disp[n].terminal # 0 /\ disp'[n].terminal = 0 => n = d
  BY <1>4, <1>7, <1>9, <1>10, <1>11, LeftGivesFree
<1>13. ~Went
  BY <1>12 DEF Went
<1>. QED BY <1>11, <1>12, <1>13 DEF LandsOnTheLast

-----------------------------------------------------------------------------
(* The other steps *)

\* What every step keeps.
StepKeeps == TerminalsInv' /\ GivenAreFree /\ LandsOnTheLast

\* Nothing is given when no display has a terminal it had not.
LEMMA NothingGiven ==
  ASSUME \A n \in Numbers : /\ disp'[n].terminal = disp[n].terminal
                            /\ disp'[n].sessionTerminal = disp[n].sessionTerminal
  PROVE  GivenAreFree
  BY DEF GivenAreFree, GivenFree

\* Nothing goes while the list stays as it is, or gets longer.
LEMMA NobodyWent ==
  ASSUME list' = list
  PROVE  LandsOnTheLast
<1>1. ~(Len(list') < Len(list))
  BY SMT
<1>. QED BY <1>1 DEF LandsOnTheLast, Went

\* A change of display d alone: its record, its places, and those of nobody else but
\* of a compositor whose helper was killed.
LEMMA OneDisplayChanges ==
  ASSUME TerminalsInv, NEW d \in Numbers, NEW x, NEW ds, ds = [disp EXCEPT ![d] = x],
         vt' \in Vts, logind' \subseteq Sessions,
         DisplayInv(type, d, x, vt'.held, logind'), x.terminal = disp[d].terminal,
         \A h : h \notin Own(d) /\ h[1] # "orphan" =>
                 /\ Where(vt'.held, h) = Where(vt.held, h)
                 /\ SessionsOf(logind', h) = SessionsOf(logind, h)
  PROVE  ViewsInv(type, ds, vt', logind') /\ ListInv(ds, list)
<1>1. /\ disp \in [Numbers -> Displays] /\ vt \in Vts /\ logind \subseteq Sessions
      /\ \A n \in Numbers : DisplayInv(type, n, disp[n], vt.held, logind)
      /\ OthersInv(vt.held, logind) /\ ListInv(disp, list)
  BY DEF TerminalsInv, ViewsInv
<1>2. x \in Displays
  BY DEF DisplayInv
<1>3. ds \in [Numbers -> Displays] /\ ds[d] = x /\ \A n \in Numbers \ {d} : ds[n] = disp[n]
  BY <1>1, <1>2
<1>4. ASSUME NEW n \in Numbers
      PROVE  DisplayInv(type, n, ds[n], vt'.held, logind')
  <2>1. CASE n = d
    BY <1>3, <2>1
  <2>2. CASE n # d
    <3>1. \A h \in Own(n) : h \notin Own(d) /\ h[1] # "orphan"
      BY <2>2 DEF Own
    <3>2. SamePlaces(Own(n), vt.held, logind, vt'.held, logind')
      BY <3>1 DEF SamePlaces
    <3>. QED BY <1>1, <1>3, <2>2, <3>2, DisplayFrame
  <2>. QED BY <2>1, <2>2
<1>5. OthersInv(vt'.held, logind')
  <2>1. \A t : <<"other", t>> \notin Own(d) /\ <<"other", t>>[1] # "orphan"
    BY DEF Own
  <2>2. \A t : Where(vt'.held, <<"other", t>>) = Where(vt.held, <<"other", t>>)
    BY <2>1
  <2>3. \A t : SessionsOf(logind', <<"other", t>>) = SessionsOf(logind, <<"other", t>>)
    BY <2>1
  <2>. QED BY <1>1, <2>2, <2>3, OthersFrame
<1>6. ListInv(ds, list)
  BY <1>1, <1>3, ElementOfSeq DEF ListInv
<1>. QED BY <1>3, <1>4, <1>5, <1>6 DEF ViewsInv

\* A step that is such a change keeps the invariant.
LEMMA OneDisplayKeeps ==
  ASSUME TerminalsInv, NEW d \in Numbers, NEW x,
         disp' = [disp EXCEPT ![d] = x], vt' \in Vts, logind' \subseteq Sessions,
         type' = type, list' = list,
         DisplayInv(type, d, x, vt'.held, logind'), x.terminal = disp[d].terminal,
         \A h : h \notin Own(d) /\ h[1] # "orphan" =>
                 /\ Where(vt'.held, h) = Where(vt.held, h)
                 /\ SessionsOf(logind', h) = SessionsOf(logind, h)
  PROVE  TerminalsInv'
<1>1. ViewsInv(type, disp', vt', logind') /\ ListInv(disp', list)
  BY OneDisplayChanges
<1>2. ViewsInv(type', disp', vt', logind') /\ ListInv(disp', list') /\ type' \in ServerTypes
  BY <1>1 DEF TerminalsInv
<1>. QED BY <1>2, Zenon DEF TerminalsInv

\* What the invariant says of one display.
LEMMA DisplayKnown ==
  ASSUME TerminalsInv, NEW d \in Numbers
  PROVE  /\ disp \in [Numbers -> Displays] /\ vt \in Vts /\ logind \subseteq Sessions
         /\ type \in ServerTypes /\ vt.active \in Terminals
         /\ disp[d] \in Displays /\ StagesInv(type, disp[d]) /\ ServerInv(type, d, disp[d], vt.held)
         /\ GreeterInv(type, d, disp[d], vt.held, logind)
         /\ SessionInv(type, d, disp[d], vt.held, logind)
  BY DEF TerminalsInv, ViewsInv, DisplayInv, Vts

\* The displays with display d at another stage of its greeter or login.
GreeterAt(ds, d, stage) == [ds EXCEPT ![d].greeter = stage]
AuthAt(ds, d, stage) == [ds EXCEPT ![d].auth = stage]

\* A stage of a display's greeter or login changes that field.
LEMMA StageIs ==
  ASSUME NEW ds \in [Numbers -> Displays], NEW d \in Numbers, NEW stage
  PROVE  /\ GreeterAt(ds, d, stage) = Changed(ds, d, WithGreeter(ds[d], stage))
         /\ AuthAt(ds, d, stage) = Changed(ds, d, WithAuth(ds[d], stage))
<1>. DEFINE x == ds[d]
            g == [x EXCEPT !.greeter = stage]
            a == [x EXCEPT !.auth = stage]
<1>1. IsRecord(x)
  BY DisplayShape
<1>2. /\ [ds EXCEPT ![d].greeter = stage] = [ds EXCEPT ![d] = g]
      /\ [ds EXCEPT ![d].auth = stage] = [ds EXCEPT ![d] = a]
  OBVIOUS
<1>. HIDE DEF x
<1>3. g = WithGreeter(x, stage) /\ a = WithAuth(x, stage)
  BY <1>1, ChangeGreeter, ChangeAuth DEF WithGreeter, WithAuth
<1>. HIDE DEF g, a
<1>. QED BY <1>2, <1>3 DEF x, GreeterAt, AuthAt, Changed

\* The fields of a display whose greeter is at another stage.
LEMMA WithGreeterFields ==
  ASSUME NEW x \in Displays, NEW stage \in GreeterStages, NEW y, y = WithGreeter(x, stage)
  PROVE  /\ y \in Displays /\ y.terminal = x.terminal /\ y.greeter = stage
         /\ y.greeterTerminal = x.greeterTerminal /\ y.auth = x.auth /\ y.session = x.session
         /\ y.sessionTerminal = x.sessionTerminal
<1>1. y = Record(x.terminal, stage, x.greeterTerminal, x.auth, x.session, x.sessionTerminal, x.reuse)
  BY DEF WithGreeter
<1>2. y \in Displays
  BY <1>1, DisplayFields, RecordType
<1>. QED BY <1>1, <1>2, RecordFields

\* The fields of a display whose login is at another stage.
LEMMA WithAuthFields ==
  ASSUME NEW x \in Displays, NEW stage \in AuthStages, NEW y, y = WithAuth(x, stage)
  PROVE  /\ y \in Displays /\ y.terminal = x.terminal /\ y.greeter = x.greeter
         /\ y.greeterTerminal = x.greeterTerminal /\ y.auth = stage /\ y.session = x.session
         /\ y.sessionTerminal = x.sessionTerminal
<1>1. y = Record(x.terminal, x.greeter, x.greeterTerminal, stage, x.session, x.sessionTerminal, x.reuse)
  BY DEF WithAuth
<1>2. y \in Displays
  BY <1>1, DisplayFields, RecordType
<1>. QED BY <1>1, <1>2, RecordFields

\* Opening a session adds one, and showing a terminal puts its holder there.
LEMMA OpenedSessions ==
  ASSUME NEW t \in Terminals, NEW who \in Holders, Opened(t, who), logind \subseteq Sessions
  PROVE  /\ logind' \subseteq Sessions
         /\ SessionsOf(logind', who) = SessionsOf(logind, who) \cup {Active(t, who)}
         /\ \A h : h # who => SessionsOf(logind', h) = SessionsOf(logind, h)
<1>1. logind' = logind \cup {Active(t, who)}
  BY DEF Opened, Active
<1>2. Active(t, who) \in Sessions /\ Active(t, who).of = who
  BY DEF Active, Sessions
<1>. QED BY <1>1, <1>2 DEF SessionsOf

\* Showing a terminal puts its holder there, and moves nobody else.
LEMMA ShowsPlaces ==
  ASSUME NEW t \in Terminals, NEW who \in Holders, Shows(t, who), vt \in Vts
  PROVE  /\ vt' \in Vts
         /\ Where(vt'.held, who) = Where(vt.held, who) \cup {t}
         /\ \A h : h # who => Where(vt'.held, h) = Where(vt.held, h)
<1>1. vt' = [active |-> t, held |-> Enter(vt.held, t, who)]
  BY DEF Shows
<1>2. Enter(vt.held, t, who) \in Held
  BY EnterType DEF Vts
<1>. QED BY <1>1, <1>2, WhereEnter DEF Vts

\* Leaving, of helpers and of others.
LEMMA LeavesPlaces ==
  ASSUME NEW who, vt \in Vts, vt' = [vt EXCEPT !.held = Leave(vt.held, {who})]
  PROVE  /\ vt' \in Vts
         /\ Where(vt'.held, who) = {}
         /\ \A h : h # who => Where(vt'.held, h) = Where(vt.held, h)
<1>1. Leave(vt.held, {who}) \in Held
  BY LeaveType DEF Vts
<1>2. vt'.held = Leave(vt.held, {who}) /\ vt' \in Vts
  BY <1>1 DEF Vts
<1>. QED BY <1>2, WhereLeave

\* Nor does the end of a session change those of others.
LEMMA LeavesSessions ==
  ASSUME NEW who, logind \subseteq Sessions, logind' = {s \in logind : s.of # who}
  PROVE  /\ logind' \subseteq Sessions /\ SessionsOf(logind', who) = {}
         /\ \A h : h # who => SessionsOf(logind', h) = SessionsOf(logind, h)
  BY DEF SessionsOf

\* A helper leaves, and perhaps what it ran stays as a compositor nobody waits for.
LEMMA HelperLeavesPlaces ==
  ASSUME NEW who, who[1] # "orphan", NEW t, NEW killed \in BOOLEAN, killed => t \in Terminals,
         vt \in Vts, logind \subseteq Sessions, HelperLeaves(who, t, killed)
  PROVE  /\ vt' \in Vts /\ Where(vt'.held, who) = {}
         /\ logind' \subseteq Sessions /\ SessionsOf(logind', who) = {}
         /\ \A h : h # who /\ h[1] # "orphan" => /\ Where(vt'.held, h) = Where(vt.held, h)
                                               /\ SessionsOf(logind', h) = SessionsOf(logind, h)
<1>. DEFINE left == Leave(vt.held, {who})
            orphan == <<"orphan", t>>
            held == IF killed THEN Enter(left, t, orphan) ELSE left
            rest == {s \in logind : s.of # who}
            closing == [tty |-> t, of |-> orphan, state |-> "closing"]
<1>1. vt' = [vt EXCEPT !.held = held] /\ logind' = rest \union IF killed THEN {closing} ELSE {}
  BY DEF HelperLeaves
<1>2. left \in Held /\ \A h : Where(left, h) = IF h = who THEN {} ELSE Where(vt.held, h)
  BY LeaveType, WhereLeave DEF Vts
<1>3. orphan[1] = "orphan" /\ (killed => orphan \in Holders)
  BY DEF Holders
<1>4. closing.of = orphan /\ (killed => closing \in Sessions)
  BY <1>3 DEF Sessions
<1>. HIDE DEF left, orphan, closing
<1>5. held \in Held /\ \A h : h[1] # "orphan" => Where(held, h) = Where(left, h)
  <2>1. CASE killed
    <3>1. held = Enter(left, t, orphan)
      BY <2>1
    <3>2. ASSUME NEW h
          PROVE  Where(Enter(left, t, orphan), h) =
                   IF h = orphan THEN Where(left, h) \cup {t} ELSE Where(left, h)
      BY <2>1, SMT DEF Where, Enter
    <3>3. Enter(left, t, orphan) \in Held
      BY <1>2, <1>3, <2>1, EnterType
    <3>. HIDE DEF held
    <3>4. ASSUME NEW h, h[1] # "orphan"
          PROVE  Where(held, h) = Where(left, h)
      <4>1. h # orphan
        BY <1>3, <3>4
      <4>. QED BY <3>1, <3>2, <4>1, Zenon
    <3>. QED BY <3>1, <3>3, <3>4
  <2>2. CASE ~killed
    BY <1>2, <2>2
  <2>. QED BY <2>1, <2>2
<1>. HIDE DEF held
<1>6. vt' \in Vts /\ vt'.held = held
  BY <1>1, <1>5 DEF Vts
<1>7. /\ logind' \subseteq Sessions /\ SessionsOf(logind', who) = {}
      /\ \A h : h # who /\ h[1] # "orphan" => SessionsOf(logind', h) = SessionsOf(logind, h)
  BY <1>1, <1>3, <1>4 DEF SessionsOf
<1>. QED BY <1>2, <1>5, <1>6, <1>7

\* The holders of a display are holders, and three different ones.
LEMMA OwnHolders ==
  ASSUME NEW d \in Numbers
  PROVE  /\ <<"greeter", d>> \in Holders /\ <<"session", d>> \in Holders
         /\ <<"greeter", d>> \in Own(d) /\ <<"session", d>> \in Own(d) /\ <<"server", d>> \in Own(d)
         /\ <<"greeter", d>> # <<"session", d>> /\ <<"greeter", d>> # <<"server", d>>
         /\ <<"session", d>> # <<"server", d>> /\ \A h \in Own(d) : h[1] # "orphan"
  BY DEF Holders, Own

\* A greeter's session opens.
LEMMA GreeterOpensKeeps ==
  ASSUME TerminalsInv, NEW d \in Numbers, GreeterOpens(d)
  PROVE  StepKeeps
<1>. DEFINE x == disp[d]
            stage == IF type = "x11" THEN "running" ELSE "opened"
            y == WithGreeter(x, stage)
            t == x.greeterTerminal
<1>1. /\ disp \in [Numbers -> Displays] /\ vt \in Vts /\ logind \subseteq Sessions
      /\ type \in ServerTypes /\ x \in Displays
      /\ StagesInv(type, x) /\ ServerInv(type, d, x, vt.held)
      /\ GreeterInv(type, d, x, vt.held, logind) /\ SessionInv(type, d, x, vt.held, logind)
  BY DisplayKnown
<1>2. x.greeter = "starting" /\ disp' = [disp EXCEPT ![d] = y] /\ Opened(t, <<"greeter", d>>)
      /\ type' = type /\ list' = list /\ vt' = vt
  <2>1. /\ x.greeter = "starting" /\ disp' = [disp EXCEPT ![d].greeter = stage]
        /\ Opened(t, <<"greeter", d>>) /\ type' = type /\ list' = list /\ vt' = vt
    BY DEF GreeterOpens
  <2>2. GreeterAt(disp, d, stage) = Changed(disp, d, y)
    BY <1>1, StageIs, Zenon
  <2>. QED BY <2>1, <2>2, Zenon DEF GreeterAt, Changed
<1>3. t \in Terminals /\ x.terminal # 0
  <2>1. NewDisplay.greeter = "none"
    BY DEF NewDisplay
  <2>. QED BY <1>1, <1>2, <2>1 DEF StagesInv
<1>4. stage \in GreeterStages
  BY DEF GreeterStages
<1>. HIDE DEF t, x, stage, y
<1>5. /\ y \in Displays /\ y.terminal = x.terminal /\ y.greeter = stage
      /\ y.greeterTerminal = x.greeterTerminal /\ y.auth = x.auth /\ y.session = x.session
      /\ y.sessionTerminal = x.sessionTerminal
  BY <1>1, <1>4, WithGreeterFields DEF y
<1>6. /\ logind' \subseteq Sessions
      /\ SessionsOf(logind', <<"greeter", d>>) = SessionsOf(logind, <<"greeter", d>>) \cup {Active(t, <<"greeter", d>>)}
      /\ \A h : h # <<"greeter", d>> => SessionsOf(logind', h) = SessionsOf(logind, h)
  BY <1>1, <1>2, <1>3, OwnHolders, OpenedSessions
<1>7. StagesInv(type, y)
  BY <1>1, <1>2, <1>3, <1>5 DEF StagesInv, stage
<1>8. ServerInv(type, d, y, vt'.held)
  BY <1>1, <1>2, <1>5 DEF ServerInv
<1>9. GreeterInv(type, d, y, vt'.held, logind')
  BY <1>1, <1>2, <1>5, <1>6 DEF GreeterInv, stage, t
<1>10. SessionInv(type, d, y, vt'.held, logind')
  <2>1. SessionsOf(logind', <<"session", d>>) = SessionsOf(logind, <<"session", d>>)
    BY <1>6, OwnHolders
  <2>. QED BY <1>1, <1>2, <1>5, <2>1, Zenon DEF SessionInv
<1>11. DisplayInv(type, d, y, vt'.held, logind')
  BY <1>5, <1>7, <1>8, <1>9, <1>10 DEF DisplayInv
<1>12. TerminalsInv'
  BY <1>1, <1>2, <1>5, <1>6, <1>11, OwnHolders, OneDisplayKeeps DEF x
<1>13. GivenAreFree
  BY <1>1, <1>2, <1>5, NothingGiven DEF x
<1>. QED BY <1>2, <1>12, <1>13, NobodyWent DEF StepKeeps

\* The child of its helper takes the terminal.
LEMMA GreeterTakesTerminalKeeps ==
  ASSUME TerminalsInv, NEW d \in Numbers, GreeterTakesTerminal(d)
  PROVE  StepKeeps
<1>. DEFINE x == disp[d]
            y == WithGreeter(x, "running")
            t == x.greeterTerminal
<1>1. /\ disp \in [Numbers -> Displays] /\ vt \in Vts /\ logind \subseteq Sessions
      /\ type \in ServerTypes /\ x \in Displays
      /\ StagesInv(type, x) /\ ServerInv(type, d, x, vt.held)
      /\ GreeterInv(type, d, x, vt.held, logind) /\ SessionInv(type, d, x, vt.held, logind)
  BY DisplayKnown
<1>2. x.greeter = "opened" /\ disp' = [disp EXCEPT ![d] = y] /\ Shows(t, <<"greeter", d>>)
      /\ type' = type /\ list' = list /\ logind' = logind
  <2>1. /\ x.greeter = "opened" /\ disp' = [disp EXCEPT ![d].greeter = "running"]
        /\ Shows(t, <<"greeter", d>>) /\ type' = type /\ list' = list /\ logind' = logind
    BY DEF GreeterTakesTerminal
  <2>2. GreeterAt(disp, d, "running") = Changed(disp, d, y)
    BY <1>1, StageIs, Zenon
  <2>. QED BY <2>1, <2>2, Zenon DEF GreeterAt, Changed
<1>3. t \in Terminals /\ type # "x11"
  BY <1>1, <1>2 DEF StagesInv
<1>. HIDE DEF t, x, y
<1>5. /\ y \in Displays /\ y.terminal = x.terminal /\ y.greeter = "running"
      /\ y.greeterTerminal = x.greeterTerminal /\ y.auth = x.auth /\ y.session = x.session
      /\ y.sessionTerminal = x.sessionTerminal
  BY <1>1, WithGreeterFields DEF y, GreeterStages
<1>6. /\ vt' \in Vts
      /\ Where(vt'.held, <<"greeter", d>>) = Where(vt.held, <<"greeter", d>>) \cup {t}
      /\ \A h : h # <<"greeter", d>> => Where(vt'.held, h) = Where(vt.held, h)
  BY <1>1, <1>2, <1>3, OwnHolders, ShowsPlaces
<1>7. StagesInv(type, y)
  <2>1. x.terminal # 0
    <3>1. NewDisplay.greeter = "none"
      BY DEF NewDisplay
    <3>. QED BY <1>1, <1>2, <3>1 DEF StagesInv
  <2>. QED BY <1>1, <1>2, <1>5, <2>1 DEF StagesInv
<1>8. ServerInv(type, d, y, vt'.held)
  BY <1>1, <1>5, <1>6, OwnHolders DEF ServerInv
<1>9. GreeterInv(type, d, y, vt'.held, logind')
  BY <1>1, <1>2, <1>3, <1>5, <1>6 DEF GreeterInv, t
<1>10. SessionInv(type, d, y, vt'.held, logind')
  <2>1. Where(vt'.held, <<"session", d>>) = Where(vt.held, <<"session", d>>)
    BY <1>6, OwnHolders
  <2>. QED BY <1>1, <1>2, <1>5, <2>1, Zenon DEF SessionInv
<1>11. DisplayInv(type, d, y, vt'.held, logind')
  BY <1>5, <1>7, <1>8, <1>9, <1>10 DEF DisplayInv
<1>12. TerminalsInv'
  BY <1>1, <1>2, <1>5, <1>6, <1>11, OwnHolders, OneDisplayKeeps DEF x
<1>13. GivenAreFree
  BY <1>1, <1>2, <1>5, NothingGiven DEF x
<1>. QED BY <1>2, <1>12, <1>13, NobodyWent DEF StepKeeps

\* Or cannot, or its helper fails, and the display stops.
LEMMA GreeterFailsKeeps ==
  ASSUME TerminalsInv, NEW d \in Numbers, GreeterTtyFails(d) \/ GreeterFails(d)
  PROVE  StepKeeps
<1>1. VtsAfter(vt, JumpToVt(vt, InitialVt)) /\ VtsAfter(vt, vt)
  BY DisplayKnown, JumpIs DEF VtsAfter
<1>2. CASE GreeterTtyFails(d)
  <2>1. DisplayStopped(d, JumpToVt(vt, InitialVt), FALSE)
    BY <1>2 DEF GreeterTtyFails
  <2>. QED BY <1>1, <2>1, StoppedKeeps DEF StepKeeps
<1>3. CASE GreeterFails(d)
  <2>1. DisplayStopped(d, vt, FALSE)
    BY <1>3 DEF GreeterFails
  <2>. QED BY <1>1, <2>1, StoppedKeeps DEF StepKeeps
<1>. QED BY <1>2, <1>3

\* A greeter ends, and the display stays.
LEMMA GreeterEndsKeeps ==
  ASSUME TerminalsInv, NEW d \in Numbers, GreeterEnds(d)
  PROVE  StepKeeps
<1>. DEFINE x == disp[d]
            y == WithGreeter(x, "none")
            who == <<"greeter", d>>
<1>1. /\ disp \in [Numbers -> Displays] /\ vt \in Vts /\ logind \subseteq Sessions
      /\ type \in ServerTypes /\ x \in Displays
      /\ StagesInv(type, x) /\ ServerInv(type, d, x, vt.held)
      /\ GreeterInv(type, d, x, vt.held, logind) /\ SessionInv(type, d, x, vt.held, logind)
  BY DisplayKnown
<1>2. /\ x.greeter # "none" /\ disp' = [disp EXCEPT ![d] = y] /\ type' = type /\ list' = list
      /\ \E killed \in BOOLEAN : HelperLeaves(who, x.greeterTerminal, killed)
  <2>. DEFINE may == type # "x11" /\ x.greeter = "running" /\ MayBeOrphaned
  <2>1. /\ x.greeter # "none" /\ disp' = GreeterAt(disp, d, "none")
        /\ type' = type /\ list' = list
        /\ \E killed \in {FALSE, may} : HelperLeaves(who, x.greeterTerminal, killed)
    BY Zenon DEF GreeterEnds, GreeterAt
  <2>2. GreeterAt(disp, d, "none") = Changed(disp, d, y)
    BY <1>1, StageIs, Zenon
  <2>3. may \in BOOLEAN
    OBVIOUS
  <2>. HIDE DEF may
  <2>. QED BY <2>1, <2>2, <2>3, Zenon DEF Changed
<1>3. PICK killed \in BOOLEAN : HelperLeaves(who, x.greeterTerminal, killed)
  BY <1>2
<1>4. x.greeterTerminal \in Terminals /\ x.terminal # 0 /\ who[1] # "orphan"
  <2>1. NewDisplay.greeter = "none"
    BY DEF NewDisplay
  <2>. QED BY <1>1, <1>2, <2>1 DEF StagesInv
<1>. HIDE DEF x, y
<1>5. /\ y \in Displays /\ y.terminal = x.terminal /\ y.greeter = "none"
      /\ y.greeterTerminal = x.greeterTerminal /\ y.auth = x.auth /\ y.session = x.session
      /\ y.sessionTerminal = x.sessionTerminal
  BY <1>1, WithGreeterFields DEF y, GreeterStages
<1>6. /\ vt' \in Vts /\ Where(vt'.held, who) = {}
      /\ logind' \subseteq Sessions /\ SessionsOf(logind', who) = {}
      /\ \A h : h # who /\ h[1] # "orphan" => /\ Where(vt'.held, h) = Where(vt.held, h)
                                            /\ SessionsOf(logind', h) = SessionsOf(logind, h)
  BY <1>1, <1>3, <1>4, HelperLeavesPlaces
<1>7. \A h \in Own(d) : h # who => /\ Where(vt'.held, h) = Where(vt.held, h)
                                /\ SessionsOf(logind', h) = SessionsOf(logind, h)
  BY <1>6, OwnHolders
<1>8. StagesInv(type, y)
  BY <1>1, <1>2, <1>4, <1>5 DEF StagesInv
<1>9. ServerInv(type, d, y, vt'.held)
  BY <1>1, <1>5, <1>7, OwnHolders DEF ServerInv
<1>10. GreeterInv(type, d, y, vt'.held, logind')
  BY <1>5, <1>6 DEF GreeterInv
<1>11. SessionInv(type, d, y, vt'.held, logind')
  <2>1. /\ Where(vt'.held, <<"session", d>>) = Where(vt.held, <<"session", d>>)
        /\ SessionsOf(logind', <<"session", d>>) = SessionsOf(logind, <<"session", d>>)
    BY <1>7, OwnHolders
  <2>. QED BY <1>1, <1>5, <2>1, Zenon DEF SessionInv
<1>12. DisplayInv(type, d, y, vt'.held, logind')
  BY <1>5, <1>8, <1>9, <1>10, <1>11 DEF DisplayInv
<1>13. TerminalsInv'
  <2>1. \A h : h \notin Own(d) /\ h[1] # "orphan" =>
               /\ Where(vt'.held, h) = Where(vt.held, h)
               /\ SessionsOf(logind', h) = SessionsOf(logind, h)
    BY <1>6, OwnHolders
  <2>. QED BY <1>2, <1>5, <1>6, <1>12, <2>1, OneDisplayKeeps DEF x
<1>14. GivenAreFree
  BY <1>1, <1>2, <1>5, NothingGiven DEF x
<1>. QED BY <1>2, <1>13, <1>14, NobodyWent DEF StepKeeps

\* A login is asked for, at the display's terminal or at one that is free.
LEMMA LogsInKeeps ==
  ASSUME TerminalsInv, NEW d \in Numbers, LogsIn(d)
  PROVE  StepKeeps
<1>. DEFINE x == disp[d]
<1>1. /\ disp \in [Numbers -> Displays] /\ vt \in Vts /\ logind \subseteq Sessions
      /\ type \in ServerTypes /\ x \in Displays /\ vt.active \in Terminals
      /\ StagesInv(type, x) /\ ServerInv(type, d, x, vt.held)
      /\ GreeterInv(type, d, x, vt.held, logind) /\ SessionInv(type, d, x, vt.held, logind)
  BY DisplayKnown
<1>2. PICK session \in {"x11", "wayland"}, r \in {"none"} \union Online :
        disp' = StartAuth(disp, d, "asking", session, vt.held, r)
  <2>1. \E session \in SessionTypes, r \in {"none"} \union Online :
          disp' = StartAuth(disp, d, "asking", session, vt.held, r)
    BY DEF LogsIn
  <2>2. SessionTypes \subseteq {"x11", "wayland"}
    BY DEF SessionTypes
  <2>. QED BY <2>1, <2>2
<1>3. /\ x.greeter = "running" /\ x.auth = "idle"
      /\ type' = type /\ list' = list /\ vt' = vt /\ logind' = logind
  BY DEF LogsIn, MayLogIn
<1>4. r \in Numbers \cup {"none", "gone"}
  BY DEF Online
<1>. DEFINE u == LoginTerminal(disp, d, session, vt.held)
            y == LoggingIn(x, "asking", session, u, r)
<1>5. disp' = [disp EXCEPT ![d] = y]
  <2>1. StartAuth(disp, d, "asking", session, vt.held, r) = Changed(disp, d, y)
    BY <1>1, StartAuthIs
  <2>. QED BY <1>2, <2>1, Zenon DEF Changed
<1>6. x.terminal \in Terminals
  <2>1. NewDisplay.greeter = "none"
    BY DEF NewDisplay
  <2>. QED BY <1>1, <1>3, <2>1, DisplayFields DEF StagesInv, Ttys
<1>7. u \in Terminals /\ (u = x.terminal \/ u = SetUpNewVt(vt.held))
  BY <1>1, <1>6, NewVtIsFree DEF LoginTerminal
<1>. HIDE DEF x, y, u
<1>8. y = Record(x.terminal, x.greeter, x.greeterTerminal, "asking", session, u, r)
  BY DEF y, LoggingIn
<1>9. /\ y.terminal = x.terminal /\ y.greeter = x.greeter
      /\ y.greeterTerminal = x.greeterTerminal /\ y.auth = "asking" /\ y.session = session
      /\ y.sessionTerminal = u
  BY <1>8, RecordFields
<1>10. y \in Displays
  <2>1. u \in Ttys /\ "asking" \in AuthStages /\ session \in {"none", "x11", "wayland"}
    BY <1>7 DEF Ttys, AuthStages
  <2>. QED BY <1>1, <1>4, <1>8, <2>1, DisplayFields, RecordType
<1>11. StagesInv(type, y)
  BY <1>1, <1>3, <1>6, <1>7, <1>9, TerminalNumbers DEF StagesInv
<1>12. ServerInv(type, d, y, vt'.held)
  BY <1>1, <1>3, <1>9 DEF ServerInv
<1>13. GreeterInv(type, d, y, vt'.held, logind')
  BY <1>1, <1>3, <1>9, Zenon DEF GreeterInv
<1>14. SessionInv(type, d, y, vt'.held, logind')
  BY <1>1, <1>3, <1>9 DEF SessionInv
<1>15. DisplayInv(type, d, y, vt'.held, logind')
  BY <1>10, <1>11, <1>12, <1>13, <1>14 DEF DisplayInv
<1>16. TerminalsInv'
  BY <1>1, <1>3, <1>5, <1>9, <1>15, OneDisplayKeeps DEF x
<1>17. GivenAreFree
  <2>1. SUFFICES ASSUME \E t \in Terminals : vt.held[t] = {}
                 PROVE  \A n \in Numbers : GivenFree(disp[n], disp'[n], n, vt.held, logind')
    BY <1>3 DEF GivenAreFree
  <2>2. vt.held[SetUpNewVt(vt.held)] = {}
    BY <1>1, <2>1, NewVtIsFree
  <2>3. GivenFree(x, y, d, vt.held, logind')
    BY <1>7, <1>9, <2>2 DEF GivenFree, FreeFor
  <2>4. \A n \in Numbers \ {d} : GivenFree(disp[n], disp'[n], n, vt.held, logind')
    BY <1>1, <1>5 DEF GivenFree
  <2>. QED BY <1>1, <1>5, <2>3, <2>4 DEF x
<1>. QED BY <1>3, <1>16, <1>17, NobodyWent DEF StepKeeps

\* The greeter of a display that starts one is where the display answers.
LEMMA GreetingFields ==
  ASSUME NEW x \in Displays, NEW y, y = Greeting(x)
  PROVE  /\ y \in Displays /\ y.terminal = x.terminal /\ y.greeter = "starting"
         /\ y.greeterTerminal = IF x.auth # "idle" THEN x.sessionTerminal ELSE x.terminal
         /\ y.auth = x.auth /\ y.session = x.session /\ y.sessionTerminal = x.sessionTerminal
<1>. DEFINE t == IF x.auth # "idle" THEN x.sessionTerminal ELSE x.terminal
<1>1. y = Record(x.terminal, "starting", t, x.auth, x.session, x.sessionTerminal, x.reuse)
  BY DEF Greeting
<1>2. t \in Ttys /\ "starting" \in GreeterStages
  BY DisplayFields DEF GreeterStages
<1>. HIDE DEF t
<1>3. y \in Displays
  <2>1. /\ x.terminal \in Ttys /\ x.auth \in AuthStages /\ x.session \in {"none", "x11", "wayland"}
        /\ x.sessionTerminal \in Ttys /\ x.reuse \in Numbers \cup {"none", "gone"}
    BY DisplayFields
  <2>. QED BY <1>1, <1>2, <2>1, RecordType
<1>4. /\ y.terminal = x.terminal /\ y.greeter = "starting" /\ y.greeterTerminal = t
      /\ y.auth = x.auth /\ y.session = x.session /\ y.sessionTerminal = x.sessionTerminal
  BY <1>1, RecordFields
<1>. QED BY <1>3, <1>4 DEF t

\* A login is refused; after an automatic one a greeter starts where the login was.
LEMMA RefusedKeeps ==
  ASSUME TerminalsInv, NEW d \in Numbers, Refused(d)
  PROVE  StepKeeps
<1>. DEFINE x == disp[d]
            g == IF x.auth = "auto" THEN Greeting(x) ELSE x
            y == WithAuth(g, "refused")
            ds == IF x.auth = "auto" THEN StartGreeter(disp, d) ELSE disp
<1>1. /\ disp \in [Numbers -> Displays] /\ vt \in Vts /\ logind \subseteq Sessions
      /\ type \in ServerTypes /\ x \in Displays
      /\ StagesInv(type, x) /\ ServerInv(type, d, x, vt.held)
      /\ GreeterInv(type, d, x, vt.held, logind) /\ SessionInv(type, d, x, vt.held, logind)
  BY DisplayKnown
<1>2. /\ x.auth \in {"auto", "asking"} /\ disp' = AuthAt(ds, d, "refused")
      /\ type' = type /\ list' = list /\ vt' = vt /\ logind' = logind
  BY Zenon DEF Refused, AuthAt
<1>3. x.terminal # 0
  <2>1. NewDisplay.auth = "idle"
    BY DEF NewDisplay
  <2>. QED BY <1>1, <1>2, <2>1 DEF StagesInv
<1>4. /\ g \in Displays /\ g.terminal = x.terminal /\ g.session = x.session
      /\ g.sessionTerminal = x.sessionTerminal
      /\ x.auth # "auto" => g = x
      /\ x.auth = "auto" => g.greeter = "starting" /\ g.greeterTerminal = x.sessionTerminal
  <2>1. CASE x.auth = "auto"
    <3>. DEFINE z == Greeting(x)
    <3>1. g = z
      BY <2>1
    <3>. HIDE DEF z, g, x
    <3>2. /\ z \in Displays /\ z.terminal = x.terminal /\ z.greeter = "starting"
          /\ z.greeterTerminal = IF x.auth # "idle" THEN x.sessionTerminal ELSE x.terminal
          /\ z.session = x.session /\ z.sessionTerminal = x.sessionTerminal
      BY <1>1, GreetingFields DEF z
    <3>. QED BY <2>1, <3>1, <3>2
  <2>2. CASE x.auth # "auto"
    BY <1>1, <2>2
  <2>. QED BY <2>1, <2>2
<1>5. ds = Changed(disp, d, g)
  <2>1. CASE x.auth = "auto"
    <3>1. StartGreeter(disp, d) = Changed(disp, d, Greeting(disp[d]))
      BY <1>1, StartGreeterIs
    <3>. QED BY <2>1, <3>1
  <2>2. CASE x.auth # "auto"
    BY <1>1, <2>2 DEF Changed
  <2>. QED BY <2>1, <2>2
<1>. HIDE DEF x, g, y, ds
<1>6. ds \in [Numbers -> Displays] /\ ds[d] = g
  BY <1>1, <1>4, <1>5 DEF Changed
<1>7. disp' = [disp EXCEPT ![d] = y]
  <2>1. AuthAt(ds, d, "refused") = Changed(ds, d, y)
    BY <1>6, StageIs DEF y
  <2>2. Changed(ds, d, y) = [disp EXCEPT ![d] = y]
    BY <1>1, <1>5 DEF Changed
  <2>. QED BY <1>2, <2>1, <2>2
<1>8. /\ y \in Displays /\ y.terminal = g.terminal /\ y.greeter = g.greeter
      /\ y.greeterTerminal = g.greeterTerminal /\ y.auth = "refused" /\ y.session = g.session
      /\ y.sessionTerminal = g.sessionTerminal
  BY <1>4, WithAuthFields DEF y, AuthStages
<1>9. StagesInv(type, y)
  <2>1. x.sessionTerminal \in Terminals
    BY <1>1, <1>2 DEF StagesInv
  <2>2. CASE x.auth = "auto"
    BY <1>1, <1>3, <1>4, <1>8, <2>1, <2>2 DEF StagesInv
  <2>3. CASE x.auth # "auto"
    BY <1>1, <1>3, <1>4, <1>8, <2>1, <2>3 DEF StagesInv
  <2>. QED BY <2>2, <2>3
<1>10. ServerInv(type, d, y, vt'.held)
  BY <1>1, <1>2, <1>4, <1>8 DEF ServerInv
<1>11. GreeterInv(type, d, y, vt'.held, logind')
  <2>1. CASE x.auth = "auto"
    <3>1. x.greeter = "none"
      BY <1>1, <2>1 DEF StagesInv
    <3>. QED BY <1>1, <1>2, <1>4, <1>8, <2>1, <3>1 DEF GreeterInv
  <2>2. CASE x.auth # "auto"
    BY <1>1, <1>2, <1>4, <1>8, <2>2, Zenon DEF GreeterInv
  <2>. QED BY <2>1, <2>2
<1>12. SessionInv(type, d, y, vt'.held, logind')
  BY <1>1, <1>2, <1>4, <1>8 DEF SessionInv
<1>13. DisplayInv(type, d, y, vt'.held, logind')
  BY <1>8, <1>9, <1>10, <1>11, <1>12 DEF DisplayInv
<1>14. TerminalsInv'
  BY <1>1, <1>2, <1>4, <1>7, <1>8, <1>13, OneDisplayKeeps DEF x
<1>15. GivenAreFree
  BY <1>1, <1>4, <1>7, <1>8, NothingGiven DEF x
<1>. QED BY <1>2, <1>14, <1>15, NobodyWent DEF StepKeeps

\* The fields of a display in which no login is going on.
LEMMA IdleFields ==
  ASSUME NEW x \in Displays, NEW y, y = Idle(x)
  PROVE  /\ y \in Displays /\ y.terminal = x.terminal /\ y.greeter = x.greeter
         /\ y.greeterTerminal = x.greeterTerminal /\ y.auth = "idle" /\ y.session = "none"
         /\ y.sessionTerminal = 0
<1>. DEFINE a == [x EXCEPT !.auth = "idle"]
            b == [a EXCEPT !.session = "none"]
            c == [b EXCEPT !.sessionTerminal = 0]
<1>1. y = c
  BY DEF Idle
<1>2. IsRecord(x)
  BY DisplayShape
<1>3. a = Record(x.terminal, x.greeter, x.greeterTerminal, "idle", x.session, x.sessionTerminal,
                 x.reuse)
  BY <1>2, ChangeAuth, Zenon
<1>. HIDE DEF a
<1>4. /\ IsRecord(a) /\ a.terminal = x.terminal /\ a.greeter = x.greeter
      /\ a.greeterTerminal = x.greeterTerminal /\ a.auth = "idle"
      /\ a.sessionTerminal = x.sessionTerminal /\ a.reuse = x.reuse
  BY <1>3, RecordFields
<1>5. b = Record(a.terminal, a.greeter, a.greeterTerminal, a.auth, "none", a.sessionTerminal,
                 a.reuse)
  BY <1>4, ChangeSession, Zenon
<1>. HIDE DEF b
<1>6. /\ IsRecord(b) /\ b.terminal = x.terminal /\ b.greeter = x.greeter
      /\ b.greeterTerminal = x.greeterTerminal /\ b.auth = "idle" /\ b.session = "none"
      /\ b.reuse = x.reuse
  BY <1>4, <1>5, RecordFields
<1>7. c = Record(b.terminal, b.greeter, b.greeterTerminal, b.auth, b.session, 0, b.reuse)
  BY <1>6, ChangeSessionTerminal, Zenon
<1>. HIDE DEF c
<1>8. y = Record(x.terminal, x.greeter, x.greeterTerminal, "idle", "none", 0, x.reuse)
  BY <1>1, <1>6, <1>7
<1>9. /\ x.terminal \in Ttys /\ x.greeter \in GreeterStages /\ x.greeterTerminal \in Ttys
      /\ x.reuse \in Numbers \cup {"none", "gone"}
  BY DisplayFields
<1>10. 0 \in Ttys /\ "idle" \in AuthStages
  BY DEF Ttys, AuthStages
<1>11. y \in Displays
  BY <1>8, <1>9, <1>10, RecordType
<1>. QED BY <1>8, <1>11, RecordFields

\* The helper of a login exits as if it had been refused, and the display stays.
LEMMA EndsAsRefusedKeeps ==
  ASSUME TerminalsInv, NEW d \in Numbers, EndsAsRefused(d)
  PROVE  StepKeeps
<1>. DEFINE x == disp[d]
            y == Idle(x)
            ds == [disp EXCEPT ![d] = y]
            who == <<"session", d>>
<1>1. /\ disp \in [Numbers -> Displays] /\ vt \in Vts /\ logind \subseteq Sessions
      /\ type \in ServerTypes /\ x \in Displays
      /\ StagesInv(type, x) /\ ServerInv(type, d, x, vt.held)
      /\ GreeterInv(type, d, x, vt.held, logind) /\ SessionInv(type, d, x, vt.held, logind)
  BY DisplayKnown
<1>2. /\ x.auth # "idle" /\ disp' = Forget(ds, d) /\ type' = type /\ list' = list
      /\ HelperLeaves(who, x.sessionTerminal, FALSE)
  BY DEF EndsAsRefused
<1>3. x.terminal # 0 /\ who[1] # "orphan"
  <2>1. NewDisplay.auth = "idle"
    BY DEF NewDisplay
  <2>. QED BY <1>1, <1>2, <2>1 DEF StagesInv
<1>. HIDE DEF x, y
<1>4. /\ y \in Displays /\ y.terminal = x.terminal /\ y.greeter = x.greeter
      /\ y.greeterTerminal = x.greeterTerminal /\ y.auth = "idle" /\ y.session = "none"
      /\ y.sessionTerminal = 0
  BY <1>1, IdleFields DEF y
<1>5. /\ vt' \in Vts /\ Where(vt'.held, who) = {}
      /\ logind' \subseteq Sessions /\ SessionsOf(logind', who) = {}
      /\ \A h : h # who /\ h[1] # "orphan" => /\ Where(vt'.held, h) = Where(vt.held, h)
                                            /\ SessionsOf(logind', h) = SessionsOf(logind, h)
  <2>1. FALSE \in BOOLEAN
    OBVIOUS
  <2>. QED BY <1>1, <1>2, <1>3, <2>1, HelperLeavesPlaces
<1>6. \A h \in Own(d) : h # who => /\ Where(vt'.held, h) = Where(vt.held, h)
                                /\ SessionsOf(logind', h) = SessionsOf(logind, h)
  BY <1>5, OwnHolders
<1>7. StagesInv(type, y)
  BY <1>1, <1>3, <1>4 DEF StagesInv
<1>8. ServerInv(type, d, y, vt'.held)
  BY <1>1, <1>4, <1>6, OwnHolders DEF ServerInv
<1>9. GreeterInv(type, d, y, vt'.held, logind')
  <2>1. /\ Where(vt'.held, <<"greeter", d>>) = Where(vt.held, <<"greeter", d>>)
        /\ SessionsOf(logind', <<"greeter", d>>) = SessionsOf(logind, <<"greeter", d>>)
    BY <1>6, OwnHolders
  <2>. QED BY <1>1, <1>4, <2>1, Zenon DEF GreeterInv
<1>10. SessionInv(type, d, y, vt'.held, logind')
  BY <1>4, <1>5 DEF SessionInv
<1>11. DisplayInv(type, d, y, vt'.held, logind')
  BY <1>4, <1>7, <1>8, <1>9, <1>10 DEF DisplayInv
<1>12. ViewsInv(type, ds, vt', logind') /\ ListInv(ds, list)
  <2>1. \A h : h \notin Own(d) /\ h[1] # "orphan" =>
               /\ Where(vt'.held, h) = Where(vt.held, h)
               /\ SessionsOf(logind', h) = SessionsOf(logind, h)
    BY <1>5, OwnHolders
  <2>. QED BY <1>4, <1>5, <1>11, <2>1, OneDisplayChanges DEF x
<1>13. ds \in [Numbers -> Displays] /\ VtsAfter(vt', vt')
  BY <1>5, <1>12 DEF ViewsInv, VtsAfter
<1>14. /\ ds[d] = y /\ \A n \in Numbers \ {d} : ds[n] = disp[n]
  BY <1>1
<1>. HIDE DEF ds
<1>15. disp' = [n \in Numbers |-> disp'[n]] /\ \A n \in Numbers : Forgotten(ds[n], disp'[n])
  BY <1>2, <1>13, ForgetIs
<1>16. TerminalsInv'
  <2>1. DOMAIN disp' = Numbers
    BY <1>15
  <2>2. ViewsInv(type, disp', vt', logind') /\ ListInv(disp', list)
    BY <1>12, <1>13, <1>15, <2>1, ShownKeeps
  <2>3. ViewsInv(type', disp', vt', logind') /\ ListInv(disp', list') /\ type' \in ServerTypes
    BY <1>1, <1>2, <2>2
  <2>. QED BY <2>3, Zenon DEF TerminalsInv
<1>17. GivenAreFree
  <2>1. ASSUME NEW n \in Numbers
        PROVE  /\ disp'[n].terminal = disp[n].terminal
               /\ disp'[n].sessionTerminal \in {disp[n].sessionTerminal, 0}
    <3>1. disp'[n].terminal = ds[n].terminal /\ disp'[n].sessionTerminal = ds[n].sessionTerminal
      BY <1>13, <1>15, ForgottenFields
    <3>. QED BY <1>4, <1>14, <3>1 DEF x
  <2>. QED BY <2>1 DEF GivenAreFree, GivenFree
<1>. QED BY <1>2, <1>16, <1>17, NobodyWent DEF StepKeeps

\* A session opens.
LEMMA SessionOpensKeeps ==
  ASSUME TerminalsInv, NEW d \in Numbers, SessionOpens(d)
  PROVE  StepKeeps
<1>. DEFINE x == disp[d]
            y == WithAuth(x, "opened")
            t == x.sessionTerminal
<1>1. /\ disp \in [Numbers -> Displays] /\ vt \in Vts /\ logind \subseteq Sessions
      /\ type \in ServerTypes /\ x \in Displays
      /\ StagesInv(type, x) /\ ServerInv(type, d, x, vt.held)
      /\ GreeterInv(type, d, x, vt.held, logind) /\ SessionInv(type, d, x, vt.held, logind)
  BY DisplayKnown
<1>2. /\ x.auth \in {"auto", "asking"} /\ disp' = [disp EXCEPT ![d] = y] /\ Opened(t, <<"session", d>>)
      /\ type' = type /\ list' = list /\ vt' = vt
  <2>1. /\ x.auth \in {"auto", "asking"} /\ disp' = AuthAt(disp, d, "opened") /\ Opened(t, <<"session", d>>)
        /\ type' = type /\ list' = list /\ vt' = vt
    BY Zenon DEF SessionOpens, AuthAt
  <2>2. AuthAt(disp, d, "opened") = Changed(disp, d, y)
    BY <1>1, StageIs, Zenon
  <2>. QED BY <2>1, <2>2, Zenon DEF Changed
<1>3. x.terminal # 0 /\ t \in Terminals
  <2>1. NewDisplay.auth = "idle"
    BY DEF NewDisplay
  <2>. QED BY <1>1, <1>2, <2>1 DEF StagesInv
<1>. HIDE DEF x, y, t
<1>4. /\ y \in Displays /\ y.terminal = x.terminal /\ y.greeter = x.greeter
      /\ y.greeterTerminal = x.greeterTerminal /\ y.auth = "opened" /\ y.session = x.session
      /\ y.sessionTerminal = x.sessionTerminal
  BY <1>1, WithAuthFields DEF y, AuthStages
<1>5. /\ logind' \subseteq Sessions
      /\ SessionsOf(logind', <<"session", d>>) = SessionsOf(logind, <<"session", d>>) \cup {Active(t, <<"session", d>>)}
      /\ \A h : h # <<"session", d>> => SessionsOf(logind', h) = SessionsOf(logind, h)
  BY <1>1, <1>2, <1>3, OwnHolders, OpenedSessions
<1>6. StagesInv(type, y)
  BY <1>1, <1>2, <1>3, <1>4 DEF StagesInv
<1>7. ServerInv(type, d, y, vt'.held)
  BY <1>1, <1>2, <1>4 DEF ServerInv
<1>8. GreeterInv(type, d, y, vt'.held, logind')
  <2>1. SessionsOf(logind', <<"greeter", d>>) = SessionsOf(logind, <<"greeter", d>>)
    BY <1>5, OwnHolders
  <2>. QED BY <1>1, <1>2, <1>4, <2>1, Zenon DEF GreeterInv
<1>9. SessionInv(type, d, y, vt'.held, logind')
  BY <1>1, <1>2, <1>4, <1>5 DEF SessionInv, t
<1>10. DisplayInv(type, d, y, vt'.held, logind')
  BY <1>4, <1>6, <1>7, <1>8, <1>9 DEF DisplayInv
<1>11. TerminalsInv'
  BY <1>1, <1>2, <1>4, <1>5, <1>10, OwnHolders, OneDisplayKeeps DEF x
<1>12. GivenAreFree
  BY <1>1, <1>2, <1>4, NothingGiven DEF x
<1>. QED BY <1>2, <1>11, <1>12, NobodyWent DEF StepKeeps

\* And takes its terminal, if it brings a display server.
LEMMA SessionTakesTerminalKeeps ==
  ASSUME TerminalsInv, NEW d \in Numbers, SessionTakesTerminal(d)
  PROVE  StepKeeps
<1>. DEFINE x == disp[d]
            y == WithAuth(x, "running")
            t == x.sessionTerminal
            on == type = "x11" /\ x.session = "x11"
<1>1. /\ disp \in [Numbers -> Displays] /\ vt \in Vts /\ logind \subseteq Sessions
      /\ type \in ServerTypes /\ x \in Displays
      /\ StagesInv(type, x) /\ ServerInv(type, d, x, vt.held)
      /\ GreeterInv(type, d, x, vt.held, logind) /\ SessionInv(type, d, x, vt.held, logind)
  BY DisplayKnown
<1>2. /\ x.auth = "opened" /\ disp' = [disp EXCEPT ![d] = y]
      /\ (on => vt' = vt) /\ (~on => Shows(t, <<"session", d>>))
      /\ type' = type /\ list' = list /\ logind' = logind
  <2>1. /\ x.auth = "opened" /\ disp' = AuthAt(disp, d, "running")
        /\ (on => vt' = vt) /\ (~on => Shows(t, <<"session", d>>))
        /\ type' = type /\ list' = list /\ logind' = logind
    BY Zenon DEF SessionTakesTerminal, AuthAt, OnDaemonsServer
  <2>2. AuthAt(disp, d, "running") = Changed(disp, d, y)
    BY <1>1, StageIs, Zenon
  <2>. QED BY <2>1, <2>2, Zenon DEF Changed
<1>3. x.terminal # 0 /\ t \in Terminals
  <2>1. NewDisplay.auth = "idle"
    BY DEF NewDisplay
  <2>. QED BY <1>1, <1>2, <2>1 DEF StagesInv
<1>. HIDE DEF x, y, t
<1>4. /\ y \in Displays /\ y.terminal = x.terminal /\ y.greeter = x.greeter
      /\ y.greeterTerminal = x.greeterTerminal /\ y.auth = "running" /\ y.session = x.session
      /\ y.sessionTerminal = x.sessionTerminal
  BY <1>1, WithAuthFields DEF y, AuthStages
<1>5. /\ vt' \in Vts /\ \A h : h # <<"session", d>> => Where(vt'.held, h) = Where(vt.held, h)
      /\ Where(vt'.held, <<"session", d>>) = IF ~on THEN {t} ELSE {}
  <2>1. Where(vt.held, <<"session", d>>) = {}
    BY <1>1, <1>2 DEF SessionInv
  <2>2. CASE on
    BY <1>1, <1>2, <2>1, <2>2
  <2>3. CASE ~on
    <3>1. Shows(t, <<"session", d>>)
      BY <1>2, <2>3
    <3>2. /\ vt' \in Vts
          /\ Where(vt'.held, <<"session", d>>) = Where(vt.held, <<"session", d>>) \cup {t}
          /\ \A h : h # <<"session", d>> => Where(vt'.held, h) = Where(vt.held, h)
      BY <1>1, <1>3, <3>1, OwnHolders, ShowsPlaces
    <3>. QED BY <2>1, <2>3, <3>2
  <2>. QED BY <2>2, <2>3
<1>6. StagesInv(type, y)
  BY <1>1, <1>2, <1>3, <1>4 DEF StagesInv
<1>7. ServerInv(type, d, y, vt'.held)
  BY <1>1, <1>4, <1>5, OwnHolders DEF ServerInv
<1>8. GreeterInv(type, d, y, vt'.held, logind')
  <2>1. Where(vt'.held, <<"greeter", d>>) = Where(vt.held, <<"greeter", d>>)
    BY <1>5, OwnHolders
  <2>. QED BY <1>1, <1>2, <1>4, <2>1, Zenon DEF GreeterInv
<1>9. SessionInv(type, d, y, vt'.held, logind')
  BY <1>1, <1>2, <1>4, <1>5 DEF SessionInv, t
<1>10. DisplayInv(type, d, y, vt'.held, logind')
  BY <1>4, <1>6, <1>7, <1>8, <1>9 DEF DisplayInv
<1>11. TerminalsInv'
  BY <1>1, <1>2, <1>4, <1>5, <1>10, OwnHolders, OneDisplayKeeps DEF x
<1>12. GivenAreFree
  BY <1>1, <1>2, <1>4, NothingGiven DEF x
<1>. QED BY <1>2, <1>11, <1>12, NobodyWent DEF StepKeeps

\* The end of a session, of any login, or of its helper stops the display.
LEMMA SessionGoesKeeps ==
  ASSUME TerminalsInv, NEW d \in Numbers, SessionEnds(d) \/ SessionHelperKilled(d)
  PROVE  StepKeeps
<1>1. VtsAfter(vt, vt)
  BY DisplayKnown DEF VtsAfter
<1>2. CASE SessionEnds(d)
  <2>1. DisplayStopped(d, vt, FALSE)
    BY <1>2 DEF SessionEnds
  <2>. QED BY <1>1, <2>1, StoppedKeeps DEF StepKeeps
<1>3. CASE SessionHelperKilled(d)
  <2>1. DisplayStopped(d, vt, TRUE) /\ disp[d].auth = "running"
    BY <1>3 DEF SessionHelperKilled
  <2>2. disp[d].sessionTerminal \in Terminals
    BY <2>1, DisplayKnown DEF StagesInv
  <2>. QED BY <1>1, <2>1, <2>2, StoppedKeeps DEF StepKeeps
<1>. QED BY <1>2, <1>3

\* A display is created.
LEMMA CreateDisplayKeeps ==
  ASSUME TerminalsInv, CreateDisplay
  PROVE  StepKeeps
<1>1. /\ disp \in [Numbers -> Displays] /\ vt \in Vts /\ logind \subseteq Sessions
      /\ type \in ServerTypes /\ vt.active \in Terminals /\ list \in Seq(Numbers)
      /\ ViewsInv(type, disp, vt, logind) /\ ListInv(disp, list)
  BY DEF TerminalsInv, ViewsInv, ListInv, Vts
<1>2. PICK c \in Creations(disp, list, vt, logind) :
        disp' = c.ds /\ list' = c.list /\ vt' = c.vt
  BY DEF CreateDisplay
<1>3. type' = type /\ logind' = logind
  BY DEF CreateDisplay
<1>4. PICK d \in Numbers : \E x : Created(c, disp, list, vt, logind, d, x)
  BY <1>1, <1>2, CreationIs
<1>5. PICK x : Created(c, disp, list, vt, logind, d, x)
  BY <1>4
<1>6. ViewsInv(type, c.ds, c.vt, logind) /\ ListInv(c.ds, c.list)
  BY <1>1, <1>5, CreationKeeps
<1>7. TerminalsInv'
  <2>1. ViewsInv(type', disp', vt', logind') /\ ListInv(disp', list') /\ type' \in ServerTypes
    BY <1>1, <1>2, <1>3, <1>6
  <2>. QED BY <2>1, Zenon DEF TerminalsInv
<1>8. GivenAreFree
  <2>1. SUFFICES ASSUME \E u \in Terminals : vt'.held[u] = {}
                 PROVE  \A n \in Numbers : GivenFree(disp[n], disp'[n], n, vt'.held, logind')
    BY DEF GivenAreFree
  <2>2. \E u \in Terminals : c.vt.held[u] = {}
    BY <1>2, <2>1
  <2>. QED BY <1>1, <1>2, <1>3, <1>5, <2>2, CreationGivesFree
<1>9. LandsOnTheLast
  <2>1. list' = Append(list, d)
    BY <1>2, <1>5 DEF Created
  <2>2. ~(Len(list') < Len(list))
    BY <1>1, <2>1
  <2>. QED BY <2>2 DEF LandsOnTheLast, Went
<1>. QED BY <1>7, <1>8, <1>9 DEF StepKeeps

\* A step in which the displays and their holders stay as they are.
LEMMA OtherStepKeeps ==
  ASSUME TerminalsInv, disp' = disp, list' = list, type' = type,
         vt' \in Vts, logind' \subseteq Sessions, OthersInv(vt'.held, logind'),
         \A n \in Numbers : SamePlaces(Own(n), vt.held, logind, vt'.held, logind')
  PROVE  StepKeeps
<1>1. /\ disp \in [Numbers -> Displays] /\ type \in ServerTypes /\ ListInv(disp, list)
      /\ \A n \in Numbers : DisplayInv(type, n, disp[n], vt.held, logind)
  BY DEF TerminalsInv, ViewsInv
<1>2. \A n \in Numbers : DisplayInv(type, n, disp[n], vt'.held, logind')
  BY <1>1, DisplayFrame
<1>3. ViewsInv(type', disp', vt', logind') /\ ListInv(disp', list') /\ type' \in ServerTypes
  BY <1>1, <1>2 DEF ViewsInv
<1>4. TerminalsInv'
  BY <1>3, Zenon DEF TerminalsInv
<1>5. GivenAreFree
  BY NothingGiven
<1>. QED BY <1>4, <1>5, NobodyWent DEF StepKeeps

\* Compositors nobody waits for, and others, hold no terminal for a display.
LEMMA StrangersAreNotOwn ==
  ASSUME NEW t
  PROVE  \A n \in Numbers : \A h \in Own(n) : h # <<"orphan", t>> /\ h # <<"other", t>>
  BY DEF Own

\* A compositor nobody waits for ends.
LEMMA OrphanEndsKeeps ==
  ASSUME TerminalsInv, NEW t \in Terminals, OrphanEnds(t)
  PROVE  StepKeeps
<1>. DEFINE who == <<"orphan", t>>
<1>1. /\ vt \in Vts /\ logind \subseteq Sessions /\ OthersInv(vt.held, logind)
  BY DEF TerminalsInv, ViewsInv
<1>2. /\ vt' = [vt EXCEPT !.held = Leave(vt.held, {who})] /\ logind' = {s \in logind : s.of # who}
      /\ disp' = disp /\ list' = list /\ type' = type
  BY DEF OrphanEnds
<1>3. \A u : <<"other", u>> # who
  OBVIOUS
<1>4. \A n \in Numbers : \A h \in Own(n) : h # who
  BY StrangersAreNotOwn
<1>. HIDE DEF who
<1>5. vt' \in Vts /\ \A h : h # who => Where(vt'.held, h) = Where(vt.held, h)
  BY <1>1, <1>2, LeavesPlaces
<1>6. logind' \subseteq Sessions /\ \A h : h # who => SessionsOf(logind', h) = SessionsOf(logind, h)
  BY <1>1, <1>2, LeavesSessions
<1>7. \A n \in Numbers : SamePlaces(Own(n), vt.held, logind, vt'.held, logind')
  BY <1>4, <1>5, <1>6 DEF SamePlaces
<1>8. OthersInv(vt'.held, logind')
  BY <1>1, <1>3, <1>5, <1>6, OthersFrame
<1>. QED BY <1>2, <1>5, <1>6, <1>7, <1>8, OtherStepKeeps

\* A step of somebody else at one terminal, who stays at it.
LEMMA OneOtherKeeps ==
  ASSUME TerminalsInv, NEW t \in Others, disp' = disp, list' = list, type' = type,
         vt' \in Vts, logind' \subseteq Sessions, NEW who, who = <<"other", t>>,
         \A h : h # who => /\ Where(vt'.held, h) = Where(vt.held, h)
                           /\ SessionsOf(logind', h) = SessionsOf(logind, h),
         Where(vt'.held, who) \subseteq {t}, SessionsOf(logind', who) \subseteq {Active(t, who)}
  PROVE  StepKeeps
<1>1. OthersInv(vt.held, logind)
  BY DEF TerminalsInv, ViewsInv
<1>2. \A n \in Numbers : \A h \in Own(n) : h # who
  BY StrangersAreNotOwn
<1>3. \A n \in Numbers : SamePlaces(Own(n), vt.held, logind, vt'.held, logind')
  BY <1>2 DEF SamePlaces
<1>4. ASSUME NEW u \in Others, u # t
      PROVE  /\ Where(vt'.held, <<"other", u>>) \subseteq {u}
             /\ SessionsOf(logind', <<"other", u>>) \subseteq {Active(u, <<"other", u>>)}
  <2>1. <<"other", u>> # who
    BY <1>4
  <2>. QED BY <1>1, <2>1 DEF OthersInv
<1>5. OthersInv(vt'.held, logind')
  BY <1>4 DEF OthersInv
<1>. QED BY <1>3, <1>5, OtherStepKeeps

\* Somebody opens a terminal, logs in there, logs out, and closes it.
LEMMA OthersStepKeeps ==
  ASSUME TerminalsInv, NEW t \in Others, OtherStep(t)
  PROVE  StepKeeps
<1>. DEFINE who == <<"other", t>>
<1>1. /\ vt \in Vts /\ logind \subseteq Sessions /\ OthersInv(vt.held, logind)
      /\ t \in Terminals /\ who \in Holders
  BY TerminalsAssumption DEF TerminalsInv, ViewsInv, Holders
<1>2. Where(vt.held, who) \subseteq {t} /\ SessionsOf(logind, who) \subseteq {Active(t, who)}
  BY <1>1 DEF OthersInv
<1>3. CASE OtherOpens(t)
  <2>1. /\ vt' = [vt EXCEPT !.held = Enter(vt.held, t, who)] /\ logind' = logind
        /\ disp' = disp /\ list' = list /\ type' = type
    BY <1>3 DEF OtherOpens
  <2>. HIDE DEF who
  <2>2. Enter(vt.held, t, who) \in Held
    BY <1>1, EnterType DEF Vts
  <2>3. vt' \in Vts /\ vt'.held = Enter(vt.held, t, who)
    BY <1>1, <2>1, <2>2 DEF Vts
  <2>4. /\ \A h : h # who => Where(vt'.held, h) = Where(vt.held, h)
        /\ Where(vt'.held, who) \subseteq {t}
    <3>1. ASSUME NEW h
          PROVE  Where(Enter(vt.held, t, who), h) =
                   IF h = who THEN Where(vt.held, h) \cup {t} ELSE Where(vt.held, h)
      BY <1>1, SMT DEF Where, Enter
    <3>. QED BY <1>2, <2>3, <3>1
  <2>. QED BY <1>1, <1>2, <2>1, <2>3, <2>4, OneOtherKeeps DEF who
<1>4. CASE OtherLogsIn(t)
  <2>1. vt' = vt /\ Opened(t, who) /\ disp' = disp /\ list' = list /\ type' = type
    BY <1>4 DEF OtherLogsIn
  <2>. HIDE DEF who
  <2>2. /\ logind' \subseteq Sessions
        /\ SessionsOf(logind', who) = SessionsOf(logind, who) \cup {Active(t, who)}
        /\ \A h : h # who => SessionsOf(logind', h) = SessionsOf(logind, h)
    BY <1>1, <2>1, OpenedSessions
  <2>. QED BY <1>1, <1>2, <2>1, <2>2, OneOtherKeeps DEF who
<1>5. CASE OtherLogsOut(t)
  <2>1. /\ vt' = vt /\ logind' = {s \in logind : s.of # who}
        /\ disp' = disp /\ list' = list /\ type' = type
    BY <1>5 DEF OtherLogsOut
  <2>. HIDE DEF who
  <2>2. /\ logind' \subseteq Sessions /\ SessionsOf(logind', who) = {}
        /\ \A h : h # who => SessionsOf(logind', h) = SessionsOf(logind, h)
    BY <1>1, <2>1, LeavesSessions
  <2>. QED BY <1>1, <1>2, <2>1, <2>2, OneOtherKeeps DEF who
<1>6. CASE OtherCloses(t)
  <2>1. /\ vt' = [vt EXCEPT !.held = Leave(vt.held, {who})] /\ logind' = logind
        /\ disp' = disp /\ list' = list /\ type' = type
    BY <1>6 DEF OtherCloses
  <2>. HIDE DEF who
  <2>2. /\ vt' \in Vts /\ Where(vt'.held, who) = {}
        /\ \A h : h # who => Where(vt'.held, h) = Where(vt.held, h)
    BY <1>1, <2>1, LeavesPlaces
  <2>. QED BY <1>1, <1>2, <2>1, <2>2, OneOtherKeeps DEF who
<1>. QED BY <1>3, <1>4, <1>5, <1>6 DEF OtherStep

\* Somebody changes to another terminal, which moves no holder.
LEMMA SwitchesKeeps ==
  ASSUME TerminalsInv, NEW t \in Terminals, Switches(t)
  PROVE  StepKeeps
<1>1. vt \in Vts /\ logind \subseteq Sessions /\ OthersInv(vt.held, logind)
  BY DEF TerminalsInv, ViewsInv
<1>2. /\ vt' = [vt EXCEPT !.active = t]
      /\ disp' = disp /\ list' = list /\ type' = type /\ logind' = logind
  BY DEF Switches
<1>3. vt' \in Vts /\ vt'.held = vt.held
  BY <1>1, <1>2 DEF Vts
<1>. QED BY <1>1, <1>2, <1>3, OtherStepKeeps DEF SamePlaces

-----------------------------------------------------------------------------
(* The theorems *)

\* Before the first display everything is empty.
LEMMA InitKeeps == Init => TerminalsInv
<1>. SUFFICES ASSUME Init PROVE TerminalsInv
  OBVIOUS
<1>1. /\ type \in ServerTypes /\ disp = [d \in Numbers |-> NewDisplay] /\ list = <<>>
      /\ vt = [active |-> InitialVt, held |-> [t \in Terminals |-> {}]] /\ logind = {}
      /\ InitialVt \in Terminals
  BY TerminalsAssumption DEF Init, ServerTypes
<1>2. vt \in Vts /\ vt.held = [t \in Terminals |-> {}]
  BY <1>1 DEF Vts, Held
<1>3. \A h : Where(vt.held, h) = {} /\ SessionsOf(logind, h) = {}
  BY <1>1, <1>2 DEF Where, SessionsOf
<1>4. \A d : NewDisplay \in Displays /\ DisplayInv(type, d, NewDisplay, vt.held, logind)
  BY <1>3, NewDisplayKeeps
<1>5. OthersInv(vt.held, logind)
  BY <1>3 DEF OthersInv
<1>6. ViewsInv(type, disp, vt, logind)
  BY <1>1, <1>2, <1>4, <1>5 DEF ViewsInv
<1>7. ListInv(disp, list)
  BY <1>1 DEF ListInv
<1>. QED BY <1>1, <1>6, <1>7, Zenon DEF TerminalsInv

\* Every step keeps the invariant, gives what is free, and lands.
LEMMA NextKeeps == TerminalsInv /\ [Next]_vars => StepKeeps
<1>. SUFFICES ASSUME TerminalsInv, [Next]_vars PROVE StepKeeps
  OBVIOUS
<1>1. CASE CreateDisplay
  BY <1>1, CreateDisplayKeeps
<1>2. ASSUME NEW d \in Numbers, GreeterStep(d)
      PROVE  StepKeeps
  <2>1. ASSUME DisplayServerFails(d)
        PROVE  StepKeeps
    BY <2>1, DisplayServerFailsKeeps DEF StepKeeps
  <2>. QED BY <1>2, <2>1, GreeterOpensKeeps, GreeterTakesTerminalKeeps, GreeterFailsKeeps,
         GreeterEndsKeeps DEF GreeterStep
<1>3. ASSUME NEW d \in Numbers, LoginStep(d)
      PROVE  StepKeeps
  BY <1>3, LogsInKeeps, RefusedKeeps, EndsAsRefusedKeeps, SessionOpensKeeps,
     SessionTakesTerminalKeeps, SessionGoesKeeps DEF LoginStep
<1>4. ASSUME NEW t \in Terminals, OrphanEnds(t)
      PROVE  StepKeeps
  BY <1>4, OrphanEndsKeeps
<1>5. ASSUME NEW t \in Others, OtherStep(t)
      PROVE  StepKeeps
  BY <1>5, OthersStepKeeps
<1>6. ASSUME NEW t \in Terminals, Switches(t)
      PROVE  StepKeeps
  BY <1>6, SwitchesKeeps
<1>7. CASE UNCHANGED vars
  <2>1. /\ disp' = disp /\ list' = list /\ type' = type /\ vt' = vt /\ logind' = logind
    BY <1>7 DEF vars
  <2>2. vt \in Vts /\ logind \subseteq Sessions /\ OthersInv(vt.held, logind)
    BY DEF TerminalsInv, ViewsInv
  <2>. QED BY <2>1, <2>2, OtherStepKeeps DEF SamePlaces
<1>. QED BY <1>1, <1>2, <1>3, <1>4, <1>5, <1>6, <1>7 DEF Next

\* The invariant holds of the system.
THEOREM TerminalsKept == Spec => []TerminalsInv
<1>1. TerminalsInv /\ [Next]_vars => TerminalsInv'
  BY NextKeeps DEF StepKeeps
<1>. QED BY <1>1, InitKeeps, PTL DEF Spec

\* Kernel, logind and daemon agree where a session with its own display server is.
THEOREM ViewsAgreeAlways == Spec => []ViewsAgree
<1>1. TerminalsInv => ViewsAgree
  <2>. SUFFICES ASSUME TerminalsInv, NEW d \in Numbers, disp[d].auth = "running", ~OnDaemonsServer(d)
                PROVE  LET me == <<"session", d>>
                           t == TerminalId(disp, d)
                       IN /\ {u \in Terminals : me \in vt.held[u]} = {t}
                          /\ {s \in logind : s.of = me} = {[tty |-> t, of |-> me, state |-> "active"]}
    BY DEF ViewsAgree
  <2>1. SessionInv(type, d, disp[d], vt.held, logind)
    BY DisplayKnown
  <2>2. TerminalId(disp, d) = disp[d].sessionTerminal
    BY DEF TerminalId
  <2>3. ~(type = "x11" /\ disp[d].session = "x11")
    BY DEF OnDaemonsServer
  <2>4. /\ Where(vt.held, <<"session", d>>) = {disp[d].sessionTerminal}
        /\ SessionsOf(logind, <<"session", d>>) = {Active(disp[d].sessionTerminal, <<"session", d>>)}
    BY <2>1, <2>3 DEF SessionInv
  <2>. QED BY <2>2, <2>4 DEF Where, SessionsOf, Active
<1>. QED BY <1>1, TerminalsKept, PTL

\* A terminal in use is not given away while one stays free, but one where the use is
\* of somebody logind has no session of.
THEOREM TakenIsNeverGivenAgain == Spec => TakenIsNotGivenAgain
<1>1. TerminalsInv /\ [Next]_vars =>
        [(\E t \in Terminals : vt.held[t] = {} /\ vt'.held[t] = {}) =>
           \A d \in Numbers :
             LET x == disp[d]  y == disp'[d]
                 own == Helpers(d) \union {<<"server", d>>}
                 unseen == {h \in ({"orphan"} \X Terminals) \union ({"other"} \X Others) :
                              h[1] = "other" => \A s \in logind' : s.of # h}
             IN /\ y.terminal \notin {x.terminal, 0} =>
                     vt'.held[y.terminal] \subseteq own \union (IF type = "x11" THEN {} ELSE unseen)
                /\ y.sessionTerminal \notin {x.sessionTerminal, y.terminal, 0} =>
                     vt'.held[y.sessionTerminal] \subseteq own]_vars
  <2>1. TerminalsInv /\ [Next]_vars => GivenAreFree
    BY NextKeeps DEF StepKeeps
  <2>. QED BY <2>1 DEF GivenAreFree, GivenFree, FreeFor, Unseen
<1>. QED BY <1>1, TerminalsKept, PTL DEF Spec, TakenIsNotGivenAgain

\* What is shown when a display stops is a place where the last of them is, if that
\* has anything left and is not asking for a login.
THEOREM JumpAlwaysLands == Spec => JumpLands
<1>1. TerminalsInv /\ [Next]_vars =>
        [(/\ Len(list') < Len(list)
          /\ \E d \in Numbers : /\ disp[d].terminal # 0 /\ disp'[d].terminal = 0
                                /\ disp[d].reuse = "none"
                                /\ ~DisplayServerFails(d)) =>
           LET e == disp'[Last(list')]
           IN \/ e.auth \in {"auto", "asking", "refused"}
              \/ <<"server", Last(list')>> \in vt'.held[vt'.active]
              \/ e.greeter # "none" /\ e.greeterTerminal = vt'.active
              \/ e.auth \in {"opened", "running"} /\ e.sessionTerminal = vt'.active
              \/ type # "x11" /\ e.greeter = "none" /\ e.auth = "idle"]_vars
  <2>1. TerminalsInv /\ [Next]_vars => LandsOnTheLast
    BY NextKeeps DEF StepKeeps
  <2>. QED BY <2>1 DEF LandsOnTheLast, Went, ShownAt
<1>. QED BY <1>1, TerminalsKept, PTL DEF Spec, JumpLands
=============================================================================
