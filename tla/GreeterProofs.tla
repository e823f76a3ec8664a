----------------------------- MODULE GreeterProofs -----------------------------
(***************************************************************************)
(* A greeter's screens, power buttons and keyboard: for every set of        *)
(* screens, power actions, services and keyboards, and every bound.         *)
(*                                                                         *)
(* The three invariants have little to do with each other, so each is a     *)
(* part that the steps of the two others leave alone.                       *)
(***************************************************************************)
EXTENDS GreeterApp, SequenceTheorems, FiniteSetTheorems, TLAPS

Places == Screens \cup {None}
Views == [screen : Screens, at : Places, open : BOOLEAN]
Stages == {"models", "startup", "numlock", "views", "running", "exited"}
Greeters == [pc : Stages, focus : Places, can : SUBSET PowerActions, code : {None, "failure", "ok", "-1"}]
Messages == PowerActions \cup {"Connect"}
Answered == [type : {"Capabilities", "LoginSucceeded", "LoginFailed"}, can : SUBSET PowerActions]
Sockets == [up : BOOLEAN, server : BOOLEAN, toDaemon : Seq(Messages), toGreeter : Seq(Answered)]
Counts == [PowerActions -> Nat]

-----------------------------------------------------------------------------
(* Screens *)

In(x, s) == \E i \in 1 .. Len(s) : s[i] = x
Injective(s) == \A i, j \in 1 .. Len(s) : s[i] = s[j] => i = j

\* Every screen is there once and has one view, which is on it.
OneForEach(vs, ss) ==
  /\ vs \in Seq(Views)
  /\ \A i, j \in 1 .. Len(vs) : vs[i].screen = vs[j].screen => i = j
  /\ \A i \in 1 .. Len(vs) : vs[i].at = vs[i].screen /\ In(vs[i].screen, ss)
  /\ \A s : In(s, ss) => \E i \in 1 .. Len(vs) : vs[i].screen = s

ScreensInv ==
  /\ screens \in Seq(Screens) /\ Injective(screens)
  /\ greeter.pc = "running" => OneForEach(views, screens)

-----------------------------------------------------------------------------
(* Power buttons *)

PowerInv ==
  /\ greeter \in Greeters /\ socket \in Sockets /\ pressed \in Counts
  /\ power = [backends |-> power.backends, carriedOut |-> power.carriedOut]
  /\ power.carriedOut \in Counts
  /\ OnePressOneAction

-----------------------------------------------------------------------------
(* The keyboard *)

Notices == [type : {"StateNotify"}, locks : Locks] \cup [type : {"NewKeyboardNotify"}]
Masks == [num : BOOLEAN, caps : BOOLEAN]
Parts == {"locks", "layouts"}

\* The names of the layouts are of no interest here, their number is.
IsKeyboard(k) ==
  /\ k = [platform |-> k.platform, numlock |-> k.numlock, pc |-> k.pc, enabled |-> k.enabled,
          copy |-> k.copy, layouts |-> k.layouts, mask |-> k.mask, wire |-> k.wire,
          queue |-> k.queue, notifier |-> k.notifier]
  /\ k.platform \in {"xcb", "wayland"} /\ k.pc \in Steps /\ k.enabled \in BOOLEAN
  /\ k.copy \in Locks /\ k.mask \in Masks /\ k.wire \in Seq(Notices) /\ k.queue \in Seq(Notices)
  /\ k.notifier \in BOOLEAN /\ Len(k.layouts) \in Nat
Servers == [locks : Locks, layouts : Layouts, leds : Masks, selected : BOOLEAN,
            read : SUBSET Parts, missed : SUBSET Parts]

\* The copy is what the locks are, for those that have an indicator.
Agree(mask, copy, locks) ==
  /\ copy.group = locks.group
  /\ mask.num => copy.num = locks.num
  /\ mask.caps => copy.caps = locks.caps

\* The last state on its way is the server's, or the copy is and none is on its way.
LocksFit(p, k, x) ==
  \/ \E i \in 1 .. Len(p) : /\ p[i].type = "StateNotify" /\ p[i].locks = x.locks
                            /\ \A j \in i + 1 .. Len(p) : p[j].type # "StateNotify"
  \/ /\ \A i \in 1 .. Len(p) : p[i].type # "StateNotify"
     /\ "locks" \in x.missed \/ Agree(k.mask, k.copy, x.locks)

\* The layouts are to be read again, or are as many as the keyboard has.
LayoutsFit(p, k, x) ==
  \/ \E i \in 1 .. Len(p) : p[i].type = "NewKeyboardNotify"
  \/ "layouts" \in x.missed
  \/ Len(k.layouts) = GroupCount(x.layouts)

\* Until the events are selected, what was read holds unless it was missed.
ReadFits(k, x) ==
  /\ k.pc = "state" \/ (k.pc = "select" /\ k.enabled) =>
       "layouts" \in x.read /\ ("layouts" \in x.missed \/ Len(k.layouts) = GroupCount(x.layouts))
  /\ k.pc = "select" /\ k.enabled =>
       "locks" \in x.read /\ ("locks" \in x.missed \/ Agree(k.mask, k.copy, x.locks))

KeyboardFits(k, x) ==
  /\ IsKeyboard(k) /\ x \in Servers
  /\ k.notifier => x.selected
  /\ x.selected \/ k.pc \in {"connect", "leds", "layouts", "state", "select"} => k.platform = "xcb"
  /\ k.pc \in {"connect", "leds", "layouts", "state", "select"} => ~x.selected
  /\ ~x.selected => k.wire = <<>> /\ k.queue = <<>>
  /\ x.selected => LocksFit(k.queue \o k.wire, k, x) /\ LayoutsFit(k.queue \o k.wire, k, x)
  /\ ReadFits(k, x)

KeyboardInv == KeyboardFits(keyboard, xserver)

GreeterInv == ScreensInv /\ PowerInv /\ KeyboardInv

-----------------------------------------------------------------------------
(* Sequences *)

\* A set of numbers has a least element.
LEMMA LeastOf ==
  ASSUME NEW I \in SUBSET Nat, I # {}
  PROVE  Min(I) \in I
<1>. DEFINE R == {ss \in Nat \X Nat : ss[1] < ss[2]}
<1>1. IsWellFoundedOn(R, Nat)
  BY NatLessThanWellFounded, Zenon DEF OpToRel
<1>2. \A a, b \in Nat : a < b => <<a, b>> \in R
  OBVIOUS
<1>. HIDE DEF R
<1>3. PICK x \in I : \A y \in I : ~(<<y, x>> \in R)
  BY <1>1, WFMin, Zenon
<1>4. \A y \in I : x <= y
  <2>. TAKE y \in I
  <2>1. x \in Nat /\ y \in Nat /\ ~(y < x)
    BY <1>2, <1>3, Zenon
  <2>. QED BY <2>1
<1>. QED BY <1>4 DEF Min

\* What is left of a sequence without one of its places.
LEMMA RemoveAtIs ==
  ASSUME NEW S, NEW l \in Seq(S), NEW k \in 1 .. Len(l), NEW r, r = RemoveAt(l, k)
  PROVE  /\ r \in Seq(S) /\ Len(r) = Len(l) - 1
         /\ \A i \in 1 .. Len(r) : r[i] = l[IF i < k THEN i ELSE i + 1]
<1>. DEFINE a == SubSeq(l, 1, k - 1)
            b == SubSeq(l, k + 1, Len(l))
<1>1. Len(l) \in Nat
  BY LenProperties
<1>2. r = a \o b
  BY DEF RemoveAt
<1>3. a \in Seq(S) /\ Len(a) = k - 1 /\ \A i \in 1 .. k - 1 : a[i] = l[i]
  BY <1>1
<1>4. b \in Seq(S) /\ Len(b) = Len(l) - k /\ \A i \in 1 .. Len(l) - k : b[i] = l[k + i]
  BY <1>1
<1>. HIDE DEF a, b
<1>5. r \in Seq(S) /\ Len(r) = Len(l) - 1
  <2>1. a \o b \in Seq(S) /\ Len(a \o b) = Len(a) + Len(b)
    BY <1>3, <1>4, ConcatProperties
  <2>2. (k - 1) + (Len(l) - k) = Len(l) - 1
    BY <1>1
  <2>. QED BY <1>2, <1>3, <1>4, <2>1, <2>2
<1>6. ASSUME NEW i \in 1 .. Len(r)
      PROVE  r[i] = l[IF i < k THEN i ELSE i + 1]
  <2>1. i \in 1 .. Len(a) + Len(b)
    BY <1>1, <1>3, <1>4, <1>5
  <2>2. r[i] = IF i <= Len(a) THEN a[i] ELSE b[i - Len(a)]
    BY <1>2, <1>3, <1>4, <2>1, ConcatProperties
  <2>3. CASE i < k
    BY <1>1, <1>3, <2>2, <2>3
  <2>4. CASE ~(i < k)
    <3>1. i - Len(a) \in 1 .. Len(l) - k /\ ~(i <= Len(a)) /\ k + (i - Len(a)) = i + 1
      BY <1>1, <1>3, <1>5, <2>4
    <3>. QED BY <1>4, <2>2, <2>4, <3>1
  <2>. QED BY <2>3, <2>4
<1>. QED BY <1>5, <1>6

\* The elements of r are those of l, but the one at k, each from a place of its own.
Lacks(r, l, k) ==
  /\ \A i \in 1 .. Len(r) : \E j \in 1 .. Len(l) : j # k /\ r[i] = l[j]
  /\ \A j \in 1 .. Len(l) : j # k => \E i \in 1 .. Len(r) : r[i] = l[j]
  /\ \A i, j \in 1 .. Len(r) : i # j =>
       \E m, n \in 1 .. Len(l) : m # n /\ m # k /\ n # k /\ r[i] = l[m] /\ r[j] = l[n]

\* Where the elements of a sequence without place k were.
LEMMA PlacesWithout ==
  ASSUME NEW S, NEW l \in Seq(S), NEW k \in 1 .. Len(l), NEW r, r = RemoveAt(l, k)
  PROVE  Lacks(r, l, k)
<1>. DEFINE at(i) == IF i < k THEN i ELSE i + 1
<1>1. Len(l) \in Nat
  BY LenProperties
<1>2. Len(r) = Len(l) - 1 /\ \A i \in 1 .. Len(r) : r[i] = l[at(i)]
  BY RemoveAtIs
<1>3. \A i \in 1 .. Len(r) : at(i) \in 1 .. Len(l) /\ at(i) # k
  BY <1>1, <1>2
<1>4. \A i, j \in 1 .. Len(r) : i # j => at(i) # at(j)
  BY <1>1, <1>2
<1>5. \A j \in 1 .. Len(l) : j # k => \E i \in 1 .. Len(r) : at(i) = j
  <2>. SUFFICES ASSUME NEW j \in 1 .. Len(l), j # k PROVE \E i \in 1 .. Len(r) : at(i) = j
    OBVIOUS
  <2>1. CASE j < k
    <3>1. j \in 1 .. Len(r) /\ at(j) = j
      BY <1>1, <1>2, <2>1
    <3>. QED BY <3>1
  <2>2. CASE ~(j < k)
    <3>1. j - 1 \in 1 .. Len(r) /\ at(j - 1) = j
      BY <1>1, <1>2, <2>2
    <3>. QED BY <3>1
  <2>. QED BY <2>1, <2>2
<1>. HIDE DEF at
<1>6. \A i \in 1 .. Len(r) : \E j \in 1 .. Len(l) : j # k /\ r[i] = l[j]
  BY <1>2, <1>3
<1>7. \A j \in 1 .. Len(l) : j # k => \E i \in 1 .. Len(r) : r[i] = l[j]
  BY <1>2, <1>5
<1>8. \A i, j \in 1 .. Len(r) : i # j =>
              \E m, n \in 1 .. Len(l) : m # n /\ m # k /\ n # k /\ r[i] = l[m] /\ r[j] = l[n]
  BY <1>2, <1>3, <1>4
<1>. QED BY <1>6, <1>7, <1>8, Zenon DEF Lacks

\* A screen leaves a list that has it once.
LEMMA RemoveScreen ==
  ASSUME NEW S, NEW l \in Seq(S), NEW s, In(s, l), Injective(l), NEW r, r = RemoveFirst(l, s)
  PROVE  r \in Seq(S) /\ Injective(r) /\ \A x : In(x, r) <=> In(x, l) /\ x # s
<1>. DEFINE I == {i \in 1 .. Len(l) : l[i] = s}
            k == Min(I)
<1>1. Len(l) \in Nat
  BY LenProperties
<1>2. k \in I
  <2>1. I \in SUBSET Nat /\ I # {}
    BY <1>1 DEF In
  <2>. HIDE DEF I
  <2>. QED BY <2>1, LeastOf
<1>3. k \in 1 .. Len(l) /\ l[k] = s
  BY <1>2
<1>4. r = RemoveAt(l, k)
  <2>1. SelectInSeq(l, LAMBDA v : v = s) = k
    BY <1>2, Zenon DEF SelectInSeq
  <2>2. \E i \in 1 .. Len(l) : l[i] = s
    BY <1>3
  <2>. QED BY <2>1, <2>2, Zenon DEF RemoveFirst
<1>. HIDE DEF I, k
<1>5. r \in Seq(S)
  BY <1>3, <1>4, RemoveAtIs
<1>6. Lacks(r, l, k)
  BY <1>3, <1>4, PlacesWithout
<1>7. \A j \in 1 .. Len(l) : j # k => l[j] # s
  BY <1>3 DEF Injective
<1>8. Injective(r)
  <2>. SUFFICES ASSUME NEW i \in 1 .. Len(r), NEW j \in 1 .. Len(r), i # j PROVE r[i] # r[j]
    BY DEF Injective
  <2>1. \A e, f \in 1 .. Len(r) : e # f =>
          \E m, n \in 1 .. Len(l) : m # n /\ m # k /\ n # k /\ r[e] = l[m] /\ r[f] = l[n]
    BY <1>6, Zenon DEF Lacks
  <2>2. PICK m, n \in 1 .. Len(l) : m # n /\ r[i] = l[m] /\ r[j] = l[n]
    BY <2>1
  <2>. QED BY <2>2 DEF Injective
<1>9. ASSUME NEW x
      PROVE  In(x, r) <=> In(x, l) /\ x # s
  <2>1. ASSUME NEW i \in 1 .. Len(r), r[i] = x
        PROVE  In(x, l) /\ x # s
    <3>1. PICK j \in 1 .. Len(l) : j # k /\ r[i] = l[j]
      BY <1>6 DEF Lacks
    <3>. QED BY <1>7, <2>1, <3>1 DEF In
  <2>2. ASSUME NEW j \in 1 .. Len(l), l[j] = x, x # s
        PROVE  In(x, r)
    BY <1>3, <1>6, <2>2 DEF In, Lacks
  <2>. QED BY <2>1, <2>2 DEF In
<1>. QED BY <1>5, <1>8, <1>9

\* The view made for a screen is removed.
LEMMA RemoveViewIs ==
  ASSUME NEW vs \in Seq(Views), NEW s, \E i \in 1 .. Len(vs) : vs[i].screen = s
  PROVE  \E k \in 1 .. Len(vs) : vs[k].screen = s /\ RemoveView(vs, s) = RemoveAt(vs, k)
<1>. DEFINE I == {i \in 1 .. Len(vs) : vs[i].screen = s}
            k == Min(I)
<1>1. Len(vs) \in Nat
  BY LenProperties
<1>2. k \in I
  <2>1. I \in SUBSET Nat /\ I # {}
    BY <1>1
  <2>. HIDE DEF I
  <2>. QED BY <2>1, LeastOf
<1>3. RemoveView(vs, s) = RemoveAt(vs, k)
  <2>1. SelectInSeq(vs, LAMBDA v : v.screen = s) = k
    BY <1>2, Zenon DEF SelectInSeq
  <2>. QED BY <2>1, Zenon DEF RemoveView, RemoveFirstMatch
<1>. QED BY <1>2, <1>3

\* The focus goes to a screen, or stays.
LEMMA FocusType ==
  ASSUME NEW vs \in Seq(Views), greeter.focus \in Places, NEW p
  PROVE  ActivatePrimary(vs, p) \in Places
<1>. DEFINE I == {i \in 1 .. Len(vs) : vs[i].at = p}
            k == SelectInSeq(vs, LAMBDA v : v.at = p)
<1>1. Len(vs) \in Nat
  BY LenProperties
<1>2. k = IF I # {} THEN Min(I) ELSE 0
  BY Zenon DEF SelectInSeq
<1>3. I # {} => Min(I) \in I
  <2>1. I \in SUBSET Nat
    BY <1>1
  <2>. HIDE DEF I
  <2>. QED BY <2>1, LeastOf
<1>4. k = 0 \/ k \in 1 .. Len(vs)
  BY <1>2, <1>3
<1>5. ActivatePrimary(vs, p) = IF k = 0 THEN greeter.focus ELSE vs[k].screen
  BY Zenon DEF ActivatePrimary
<1>. HIDE DEF k, I
<1>6. k \in 1 .. Len(vs) => vs[k] \in Views
  BY ElementOfSeq
<1>. QED BY <1>4, <1>5, <1>6 DEF Views, Places

\* A one-to-one correspondence keeps the number of elements.
LEMMA SameSize ==
  ASSUME NEW S, NEW T, IsFiniteSet(S), NEW f \in [S -> T],
         \A x, y \in S : f[x] = f[y] => x = y, \A t \in T : \E x \in S : f[x] = t
  PROVE  IsFiniteSet(T) /\ Cardinality(T) = Cardinality(S)
<1>1. f \in Bijection(S, T)
  BY DEF Bijection, Injection, Surjection, IsInjective
<1>. QED BY <1>1, FS_Bijection DEF ExistsBijection

\* An injective list has as many places as elements.
LEMMA SizeOfList ==
  ASSUME NEW S, NEW l \in Seq(S), Injective(l)
  PROVE  Cardinality({x \in S : In(x, l)}) = Len(l)
<1>. DEFINE T == {x \in S : In(x, l)}
            f == [i \in 1 .. Len(l) |-> l[i]]
<1>1. Len(l) \in Nat /\ \A i \in 1 .. Len(l) : l[i] \in S
  BY ElementOfSeq, LenProperties
<1>2. IsFiniteSet(1 .. Len(l)) /\ Cardinality(1 .. Len(l)) = Len(l)
  <2>1. 1 \in Int /\ Len(l) \in Int
    BY <1>1
  <2>2. IsFiniteSet(1 .. Len(l)) /\ Cardinality(1 .. Len(l)) = IF 1 > Len(l) THEN 0 ELSE Len(l) - 1 + 1
    BY <2>1, FS_Interval, Zenon
  <2>. QED BY <1>1, <2>2
<1>3. f \in [1 .. Len(l) -> T]
  BY <1>1 DEF In
<1>4. \A i, j \in 1 .. Len(l) : f[i] = f[j] => i = j
  BY DEF Injective
<1>5. \A t \in T : \E i \in 1 .. Len(l) : f[i] = t
  BY DEF In
<1>. HIDE DEF f, T
<1>6. Cardinality(T) = Cardinality(1 .. Len(l))
  BY <1>2, <1>3, <1>4, <1>5, SameSize
<1>. QED BY <1>2, <1>6 DEF T

-----------------------------------------------------------------------------
(* Screens: the steps *)

\* One view for each screen, wherever it is: what the run states.
LEMMA OneForEachShows ==
  ASSUME ScreensInv
  PROVE  ViewOnEveryScreen
<1>. SUFFICES ASSUME greeter.pc = "running"
              PROVE  /\ {views[i].screen : i \in DOMAIN views} = ToSet(screens)
                     /\ Len(views) = Len(screens)
                     /\ \A i \in DOMAIN views : views[i].at = views[i].screen
  BY DEF ViewOnEveryScreen, InLoop
<1>. DEFINE l == [i \in 1 .. Len(views) |-> views[i].screen]
<1>1. screens \in Seq(Screens) /\ Injective(screens) /\ OneForEach(views, screens)
  BY DEF ScreensInv
<1>2. views \in Seq(Views) /\ Len(views) \in Nat /\ Len(screens) \in Nat
      /\ DOMAIN views = 1 .. Len(views) /\ DOMAIN screens = 1 .. Len(screens)
  BY <1>1, LenProperties DEF OneForEach
<1>3. \A i \in 1 .. Len(views) : views[i].screen \in Screens
  <2>1. \A i \in 1 .. Len(views) : views[i] \in Views
    BY <1>2, ElementOfSeq
  <2>. QED BY <2>1 DEF Views
<1>4. l \in Seq(Screens) /\ Len(l) = Len(views) /\ Injective(l)
  <2>1. l \in Seq(Screens) /\ Len(l) = Len(views)
    BY <1>2, <1>3
  <2>. QED BY <1>1, <2>1 DEF Injective, OneForEach
<1>5. ASSUME NEW x PROVE In(x, l) <=> In(x, screens)
  <2>1. \A i \in 1 .. Len(views) : l[i] = views[i].screen
    OBVIOUS
  <2>. HIDE DEF l
  <2>2. \A i \in 1 .. Len(views) : In(views[i].screen, screens)
    BY <1>1 DEF OneForEach
  <2>3. In(x, l) => In(x, screens)
    <3>1. ASSUME NEW i \in 1 .. Len(views), l[i] = x PROVE In(x, screens)
      BY <2>1, <2>2, <3>1
    <3>. QED BY <1>4, <3>1, Zenon DEF In
  <2>4. In(x, screens) => \E i \in 1 .. Len(views) : views[i].screen = x
    BY <1>1, Zenon DEF OneForEach
  <2>5. In(x, screens) => In(x, l)
    BY <1>4, <2>1, <2>4 DEF In
  <2>. QED BY <2>3, <2>5
<1>6. {x \in Screens : In(x, l)} = {x \in Screens : In(x, screens)}
  BY <1>5
<1>7. Len(views) = Len(screens)
  <2>. HIDE DEF l
  <2>1. Cardinality({x \in Screens : In(x, l)}) = Len(l)
    BY <1>4, SizeOfList
  <2>2. Cardinality({x \in Screens : In(x, screens)}) = Len(screens)
    BY <1>1, SizeOfList
  <2>. QED BY <1>4, <1>6, <2>1, <2>2
<1>8. {views[i].screen : i \in DOMAIN views} = ToSet(screens)
  <2>1. ToSet(screens) = {screens[i] : i \in 1 .. Len(screens)}
    BY <1>2 DEF ToSet
  <2>2. \A i \in 1 .. Len(views) : \E j \in 1 .. Len(screens) : screens[j] = views[i].screen
    BY <1>1 DEF OneForEach, In
  <2>3. \A j \in 1 .. Len(screens) : \E i \in 1 .. Len(views) : screens[j] = views[i].screen
    BY <1>1 DEF OneForEach, In
  <2>4. DOMAIN views = 1 .. Len(views)
    BY <1>2
  <2>5. \A x : x \in {views[i].screen : i \in 1 .. Len(views)} <=> x \in {screens[i] : i \in 1 .. Len(screens)}
    BY <2>2, <2>3
  <2>6. {views[i].screen : i \in 1 .. Len(views)} = {screens[i] : i \in 1 .. Len(screens)}
    BY <2>5
  <2>. QED BY <2>1, <2>4, <2>6
<1>. QED BY <1>1, <1>2, <1>7, <1>8 DEF OneForEach

\* One element more, at either end.
LEMMA AddScreen ==
  ASSUME NEW S, NEW l \in Seq(S), NEW s \in S, ~In(s, l), Injective(l),
         NEW r, r = <<s>> \o l \/ r = Append(l, s)
  PROVE  r \in Seq(S) /\ Injective(r) /\ \A x : In(x, r) <=> x = s \/ In(x, l)
<1>1. Len(l) \in Nat /\ \A i \in 1 .. Len(l) : l[i] # s
  BY LenProperties DEF In
<1>2. CASE r = <<s>> \o l
  <2>1. r \in Seq(S) /\ Len(r) = Len(l) + 1 /\ r[1] = s /\ \A i \in 1 .. Len(l) : r[i + 1] = l[i]
    BY <1>1, <1>2
  <2>2. \A i \in 1 .. Len(r) : i = 1 \/ (i - 1 \in 1 .. Len(l) /\ r[i] = l[i - 1])
    <3>. TAKE i \in 1 .. Len(r)
    <3>1. i = 1 \/ (i - 1 \in 1 .. Len(l) /\ (i - 1) + 1 = i)
      BY <1>1, <2>1
    <3>. QED BY <2>1, <3>1
  <2>3. Injective(r)
    <3>. SUFFICES ASSUME NEW i \in 1 .. Len(r), NEW j \in 1 .. Len(r), r[i] = r[j] PROVE i = j
      BY DEF Injective
    <3>1. i = 1 <=> j = 1
      BY <1>1, <2>1, <2>2
    <3>2. ASSUME i # 1 PROVE i = j
      <4>1. i - 1 \in 1 .. Len(l) /\ j - 1 \in 1 .. Len(l) /\ l[i - 1] = l[j - 1]
        BY <2>2, <3>1, <3>2
      <4>2. i - 1 = j - 1
        BY <4>1 DEF Injective
      <4>. QED BY <2>1, <4>2
    <3>. QED BY <3>1, <3>2
  <2>4. ASSUME NEW x PROVE In(x, r) <=> x = s \/ In(x, l)
    <3>1. 1 \in 1 .. Len(r) /\ \A i \in 1 .. Len(l) : i + 1 \in 1 .. Len(r)
      BY <1>1, <2>1
    <3>2. In(x, r) => x = s \/ In(x, l)
      BY <2>1, <2>2 DEF In
    <3>3. x = s \/ In(x, l) => In(x, r)
      BY <2>1, <3>1 DEF In
    <3>. QED BY <3>2, <3>3
  <2>. QED BY <2>1, <2>3, <2>4
<1>3. CASE r = Append(l, s)
  <2>1. r \in Seq(S) /\ Len(r) = Len(l) + 1 /\ r[Len(r)] = s /\ \A i \in 1 .. Len(l) : r[i] = l[i]
    BY <1>1, <1>3
  <2>2. \A i \in 1 .. Len(r) : i = Len(r) \/ i \in 1 .. Len(l)
    BY <1>1, <2>1
  <2>3. Injective(r)
    BY <1>1, <2>1, <2>2 DEF Injective
  <2>4. ASSUME NEW x PROVE In(x, r) <=> x = s \/ In(x, l)
    <3>1. Len(r) \in 1 .. Len(r) /\ \A i \in 1 .. Len(l) : i \in 1 .. Len(r)
      BY <1>1, <2>1
    <3>2. In(x, r) => x = s \/ In(x, l)
      BY <2>1, <2>2 DEF In
    <3>3. x = s \/ In(x, l) => In(x, r)
      BY <2>1, <3>1 DEF In
    <3>. QED BY <3>2, <3>3
  <2>. QED BY <2>1, <2>3, <2>4
<1>. QED BY <1>2, <1>3

\* Which elements a list has.
LEMMA InToSet ==
  ASSUME NEW S, NEW l \in Seq(S)
  PROVE  \A x : x \in ToSet(l) <=> In(x, l)
<1>1. ToSet(l) = {l[i] : i \in 1 .. Len(l)}
  BY LenProperties DEF ToSet
<1>. QED BY <1>1 DEF In

\* The order of the screens does not matter to the views.
LEMMA OneForEachOf ==
  ASSUME NEW vs, NEW ss, NEW tt, OneForEach(vs, ss), \A x : In(x, tt) <=> In(x, ss)
  PROVE  OneForEach(vs, tt)
BY DEF OneForEach

\* The views made at the start.
LEMMA FirstViews ==
  ASSUME ScreensInv, CreateViews
  PROVE  ScreensInv'
<1>1. screens \in Seq(Screens) /\ Injective(screens) /\ screens' = screens
  BY DEF ScreensInv, CreateViews
<1>2. views' = [i \in 1 .. Len(screens) |-> View(screens[i])]
  BY <1>1, LenProperties DEF CreateViews
<1>3. Len(screens) \in Nat /\ \A i \in 1 .. Len(screens) : screens[i] \in Screens
  BY <1>1, ElementOfSeq, LenProperties
<1>4. \A i \in 1 .. Len(screens) : View(screens[i]) \in Views
  BY <1>3 DEF View, Views, Places
<1>5. views' \in Seq(Views) /\ Len(views') = Len(screens)
  BY <1>2, <1>3, <1>4
<1>6. \A i \in 1 .. Len(views') : views'[i].screen = screens[i] /\ views'[i].at = screens[i]
  BY <1>2, <1>5 DEF View
<1>7. \A i, j \in 1 .. Len(views') : views'[i].screen = views'[j].screen => i = j
  BY <1>1, <1>5, <1>6 DEF Injective
<1>8. \A i \in 1 .. Len(views') : views'[i].at = views'[i].screen /\ In(views'[i].screen, screens)
  BY <1>5, <1>6 DEF In
<1>9. \A s : In(s, screens) => \E i \in 1 .. Len(views') : views'[i].screen = s
  BY <1>5, <1>6 DEF In
<1>. QED BY <1>1, <1>5, <1>7, <1>8, <1>9 DEF ScreensInv, OneForEach

\* A view for a screen that comes.
LEMMA ViewAdded ==
  ASSUME NEW ss, NEW vs, OneForEach(vs, ss), NEW s \in Screens, ~In(s, ss),
         NEW tt, \A x : In(x, tt) <=> x = s \/ In(x, ss)
  PROVE  OneForEach(AddView(vs, s), tt)
<1>. DEFINE ws == AddView(vs, s)
<1>1. vs \in Seq(Views) /\ Len(vs) \in Nat
  BY LenProperties DEF OneForEach
<1>2. View(s) \in Views /\ View(s).screen = s /\ View(s).at = s
  BY DEF View, Views, Places
<1>3. /\ ws \in Seq(Views) /\ Len(ws) = Len(vs) + 1 /\ ws[Len(ws)] = View(s)
      /\ \A i \in 1 .. Len(vs) : ws[i] = vs[i]
  BY <1>1, <1>2 DEF AddView
<1>. HIDE DEF ws
<1>4. Len(ws) \in 1 .. Len(ws) /\ \A i \in 1 .. Len(ws) : i = Len(ws) \/ i \in 1 .. Len(vs)
  BY <1>1, <1>3
<1>5. \A i \in 1 .. Len(vs) : i \in 1 .. Len(ws) /\ vs[i].screen # s
  BY <1>1, <1>3 DEF OneForEach
<1>6. ASSUME NEW i \in 1 .. Len(ws), NEW j \in 1 .. Len(ws), ws[i].screen = ws[j].screen
      PROVE  i = j
  <2>1. i = Len(ws) <=> j = Len(ws)
    BY <1>2, <1>3, <1>4, <1>5, <1>6
  <2>2. ASSUME i # Len(ws) PROVE i = j
    <3>1. i \in 1 .. Len(vs) /\ j \in 1 .. Len(vs) /\ vs[i].screen = vs[j].screen
      BY <1>3, <1>4, <1>6, <2>1, <2>2
    <3>. QED BY <3>1 DEF OneForEach
  <2>. QED BY <2>1, <2>2
<1>7. \A i \in 1 .. Len(ws) : ws[i].at = ws[i].screen /\ In(ws[i].screen, tt)
  BY <1>2, <1>3, <1>4 DEF OneForEach
<1>8. ASSUME NEW x, In(x, tt)
      PROVE  \E i \in 1 .. Len(ws) : ws[i].screen = x
  <2>1. CASE x = s
    BY <1>2, <1>3, <1>4, <2>1
  <2>2. CASE In(x, ss)
    <3>1. PICK i \in 1 .. Len(vs) : vs[i].screen = x
      BY <2>2 DEF OneForEach
    <3>. QED BY <1>3, <1>5, <3>1
  <2>. QED BY <1>8, <2>1, <2>2
<1>9. OneForEach(ws, tt)
  BY <1>3, <1>6, <1>7, <1>8 DEF OneForEach
<1>. QED BY <1>9 DEF ws

\* Screens that come.
LEMMA AddedKeepsScreens ==
  ASSUME ScreensInv, greeter \in Greeters, ScreenAdded
  PROVE  ScreensInv' /\ greeter' \in Greeters
<1>1. screens \in Seq(Screens) /\ Injective(screens) /\ OneForEach(views, screens) /\ greeter.pc = "running"
  BY DEF ScreensInv, ScreenAdded, InLoop
<1>2. PICK s \in Screens \ ToSet(screens), first \in BOOLEAN :
        /\ screens' = IF first THEN <<s>> \o screens ELSE Append(screens, s)
        /\ views' = AddView(views, s)
        /\ greeter' = [greeter EXCEPT !.focus =
                         IF (IF first \/ screens = <<>> THEN s ELSE Primary) = s THEN ActivatePrimary(views', s) ELSE @]
  BY Zenon DEF ScreenAdded
<1>3. ~In(s, screens)
  BY <1>1, <1>2, InToSet
<1>4. screens' = <<s>> \o screens \/ screens' = Append(screens, s)
  BY <1>2, Zenon
<1>5. screens' \in Seq(Screens) /\ Injective(screens)' /\ \A x : In(x, screens') <=> x = s \/ In(x, screens)
  BY <1>1, <1>3, <1>4, AddScreen DEF Injective
<1>6. OneForEach(views', screens')
  BY <1>1, <1>2, <1>3, <1>5, ViewAdded
<1>7. ActivatePrimary(views', s) \in Places
  BY <1>6, FocusType DEF OneForEach, Greeters
<1>8. greeter' \in Greeters /\ greeter'.pc = "running"
  BY <1>1, <1>2, <1>7 DEF Greeters
<1>. QED BY <1>5, <1>6, <1>8 DEF ScreensInv, OneForEach

\* A screen that goes takes the view made for it along, though that was moved before.
LEMMA ViewRemoved ==
  ASSUME NEW ss, NEW vs, OneForEach(vs, ss), NEW s, In(s, ss), NEW p \in Places,
         NEW tt, \A x : In(x, tt) <=> In(x, ss) /\ x # s,
         NEW m, m = [i \in DOMAIN vs |-> IF vs[i].at = s THEN [vs[i] EXCEPT !.at = p] ELSE vs[i]]
  PROVE  OneForEach(RemoveView(m, s), tt)
<1>1. vs \in Seq(Views) /\ Len(vs) \in Nat /\ DOMAIN vs = 1 .. Len(vs)
  BY LenProperties DEF OneForEach
<1>2. \A i \in 1 .. Len(vs) : vs[i] \in Views
  BY <1>1, ElementOfSeq
<1>3. \A i \in 1 .. Len(vs) : m[i] \in Views /\ m[i].screen = vs[i].screen /\ (vs[i].at # s => m[i] = vs[i])
  <2>. TAKE i \in 1 .. Len(vs)
  <2>1. m[i] = IF vs[i].at = s THEN [vs[i] EXCEPT !.at = p] ELSE vs[i]
    BY <1>1
  <2>2. vs[i] \in Views
    BY <1>2
  <2>. QED BY <2>1, <2>2 DEF Views
<1>4. m \in Seq(Views) /\ Len(m) = Len(vs)
  <2>1. m = [i \in 1 .. Len(vs) |-> m[i]]
    BY <1>1
  <2>. QED BY <1>1, <1>3, <2>1
<1>5. \E i \in 1 .. Len(m) : m[i].screen = s
  <2>1. PICK i \in 1 .. Len(vs) : vs[i].screen = s
    BY DEF OneForEach
  <2>. QED BY <1>3, <1>4, <2>1
<1>6. PICK k \in 1 .. Len(m) : m[k].screen = s /\ RemoveView(m, s) = RemoveAt(m, k)
  BY <1>4, <1>5, RemoveViewIs
<1>. DEFINE r == RemoveView(m, s)
<1>7. r \in Seq(Views) /\ Lacks(r, m, k)
  BY <1>4, <1>6, RemoveAtIs, PlacesWithout
<1>. HIDE DEF r
<1>8. \A j \in 1 .. Len(m) : j # k => m[j] = vs[j] /\ m[j].screen # s
  <2>. SUFFICES ASSUME NEW j \in 1 .. Len(m), j # k PROVE m[j] = vs[j] /\ m[j].screen # s
    OBVIOUS
  <2>1. vs[j].screen # s
    <3>1. vs[k].screen = s /\ k \in 1 .. Len(vs) /\ j \in 1 .. Len(vs)
      BY <1>3, <1>4, <1>6
    <3>. QED BY <3>1 DEF OneForEach
  <2>2. vs[j].at # s
    BY <1>4, <2>1 DEF OneForEach
  <2>. QED BY <1>3, <1>4, <2>1, <2>2
<1>9. ASSUME NEW i \in 1 .. Len(r)
      PROVE  r[i].at = r[i].screen /\ In(r[i].screen, tt)
  <2>1. PICK j \in 1 .. Len(m) : j # k /\ r[i] = m[j]
    BY <1>7 DEF Lacks
  <2>2. j \in 1 .. Len(vs) /\ r[i] = vs[j] /\ vs[j].screen # s
    BY <1>4, <1>8, <2>1
  <2>. QED BY <2>2 DEF OneForEach
<1>10. ASSUME NEW i \in 1 .. Len(r), NEW j \in 1 .. Len(r), r[i].screen = r[j].screen
       PROVE  i = j
  <2>. SUFFICES ASSUME i # j PROVE FALSE
    OBVIOUS
  <2>1. PICK a, b \in 1 .. Len(m) : a # b /\ a # k /\ b # k /\ r[i] = m[a] /\ r[j] = m[b]
    <3>1. \A e, f \in 1 .. Len(r) : e # f =>
            \E a, b \in 1 .. Len(m) : a # b /\ a # k /\ b # k /\ r[e] = m[a] /\ r[f] = m[b]
      BY <1>7, Zenon DEF Lacks
    <3>. QED BY <3>1
  <2>2. a \in 1 .. Len(vs) /\ b \in 1 .. Len(vs) /\ vs[a].screen = vs[b].screen
    BY <1>3, <1>4, <1>10, <2>1
  <2>. QED BY <2>1, <2>2 DEF OneForEach
<1>11. ASSUME NEW x, In(x, tt)
       PROVE  \E i \in 1 .. Len(r) : r[i].screen = x
  <2>1. In(x, ss) /\ x # s
    BY <1>11
  <2>2. PICK j \in 1 .. Len(vs) : vs[j].screen = x
    BY <2>1 DEF OneForEach
  <2>3. j \in 1 .. Len(m) /\ m[j].screen = x /\ j # k
    BY <1>3, <1>4, <1>6, <2>1, <2>2
  <2>4. PICK i \in 1 .. Len(r) : r[i] = m[j]
    BY <1>7, <2>3 DEF Lacks
  <2>. QED BY <2>3, <2>4
<1>12. OneForEach(r, tt)
  BY <1>7, <1>9, <1>10, <1>11 DEF OneForEach
<1>. QED BY <1>12 DEF r

\* Screens that go.
LEMMA RemovedKeepsScreens ==
  ASSUME ScreensInv, greeter \in Greeters, ScreenRemoved
  PROVE  ScreensInv' /\ greeter' \in Greeters
<1>1. screens \in Seq(Screens) /\ Injective(screens) /\ OneForEach(views, screens) /\ greeter.pc = "running"
  BY DEF ScreensInv, ScreenRemoved, InLoop
<1>. DEFINE First(l) == IF l = <<>> THEN None ELSE Head(l)
            Moved(s) == [i \in DOMAIN views |->
                           IF views[i].at = s THEN [views[i] EXCEPT !.at = First(RemoveFirst(screens, s))]
                           ELSE views[i]]
<1>2. PICK s \in ToSet(screens) :
        /\ screens' = RemoveFirst(screens, s)
        /\ views' = RemoveView(Moved(s), s)
        /\ greeter' = [greeter EXCEPT !.focus =
                         IF RemoveFirst(screens, s) = <<>> THEN None
                         ELSE IF s = Primary THEN ActivatePrimary(views, First(RemoveFirst(screens, s))) ELSE @]
  BY Zenon DEF ScreenRemoved
<1>3. In(s, screens)
  BY <1>1, <1>2, InToSet
<1>4. screens' \in Seq(Screens) /\ Injective(screens)' /\ \A x : In(x, screens') <=> In(x, screens) /\ x # s
  BY <1>1, <1>2, <1>3, RemoveScreen DEF Injective
<1>5. First(screens') \in Places
  BY <1>4 DEF Places
<1>6. OneForEach(views', screens')
  BY <1>1, <1>2, <1>3, <1>4, <1>5, ViewRemoved
<1>7. \A p : ActivatePrimary(views, p) \in Places
  BY <1>1, FocusType DEF OneForEach, Greeters
<1>. HIDE DEF First
<1>8. greeter' \in Greeters /\ greeter'.pc = "running"
  <2>1. (IF RemoveFirst(screens, s) = <<>> THEN None
         ELSE IF s = Primary THEN ActivatePrimary(views, First(RemoveFirst(screens, s))) ELSE greeter.focus) \in Places
    BY <1>7 DEF Greeters, Places
  <2>. QED BY <1>1, <1>2, <2>1 DEF Greeters
<1>. QED BY <1>4, <1>6, <1>8 DEF ScreensInv, OneForEach

\* Another screen becomes the primary one.
LEMMA PrimaryKeepsScreens ==
  ASSUME ScreensInv, greeter \in Greeters, PrimaryChanged
  PROVE  ScreensInv' /\ greeter' \in Greeters
<1>1. /\ screens \in Seq(Screens) /\ Injective(screens) /\ OneForEach(views, screens)
      /\ greeter.pc = "running" /\ views' = views
  BY DEF ScreensInv, PrimaryChanged, InLoop
<1>2. PICK s \in ToSet(screens) :
        /\ screens' = <<s>> \o RemoveFirst(screens, s)
        /\ greeter' = [greeter EXCEPT !.focus = ActivatePrimary(views, s)]
  BY DEF PrimaryChanged
<1>3. In(s, screens) /\ s \in Screens
  <2>1. In(s, screens)
    BY <1>1, <1>2, InToSet
  <2>. QED BY <1>1, <2>1, ElementOfSeq DEF In
<1>. DEFINE r == RemoveFirst(screens, s)
<1>4. r \in Seq(Screens) /\ Injective(r) /\ \A x : In(x, r) <=> In(x, screens) /\ x # s
  BY <1>1, <1>3, RemoveScreen
<1>. HIDE DEF r
<1>5. screens' = <<s>> \o r
  BY <1>2 DEF r
<1>6. screens' \in Seq(Screens) /\ Injective(screens)' /\ \A x : In(x, screens') <=> x = s \/ In(x, r)
  <2>1. ~In(s, r)
    BY <1>4
  <2>2. screens' = <<s>> \o r \/ screens' = Append(r, s)
    BY <1>5
  <2>. QED BY <1>3, <1>4, <2>1, <2>2, AddScreen DEF Injective
<1>7. OneForEach(views', screens')
  BY <1>1, <1>3, <1>4, <1>6, OneForEachOf
<1>8. greeter' \in Greeters /\ greeter'.pc = "running"
  <2>1. ActivatePrimary(views, s) \in Places
    BY <1>1, FocusType DEF OneForEach, Greeters
  <2>. QED BY <1>1, <1>2, <2>1 DEF Greeters
<1>. QED BY <1>6, <1>7, <1>8 DEF ScreensInv, OneForEach

\* What a login closes stays where it is.
LEMMA ReadsKeepsScreens ==
  ASSUME ScreensInv, greeter \in Greeters, socket \in Sockets, GreeterReads
  PROVE  ScreensInv' /\ greeter' \in Greeters
<1>1. /\ screens \in Seq(Screens) /\ Injective(screens) /\ OneForEach(views, screens)
      /\ greeter.pc = "running" /\ screens' = screens
  BY DEF ScreensInv, GreeterReads, InLoop
<1>. DEFINE m == Head(socket.toGreeter)
<1>2. m \in Answered
  <2>1. socket.toGreeter \in Seq(Answered) /\ socket.toGreeter # <<>>
    BY DEF Sockets, GreeterReads
  <2>. QED BY <2>1, HeadTailProperties
<1>3. \/ m.type = "Capabilities" /\ greeter' = [greeter EXCEPT !.can = m.can] /\ views' = views
      \/ greeter' = greeter /\ views' = views
      \/ /\ views' = [i \in DOMAIN views |-> [views[i] EXCEPT !.open = FALSE]]
         /\ greeter' = Exit(greeter, "ok") \/ greeter' = greeter
  BY Zenon DEF GreeterReads
<1>. HIDE DEF m
<1>4. greeter' \in Greeters
  <2>1. m.can \in SUBSET PowerActions
    BY <1>2 DEF Answered
  <2>2. Exit(greeter, "ok") \in Greeters
    BY DEF Exit, Greeters, Stages
  <2>3. [greeter EXCEPT !.can = m.can] \in Greeters
    BY <2>1 DEF Greeters
  <2>. QED BY <1>3, <2>2, <2>3, Zenon
<1>5. CASE views' = views
  BY <1>1, <1>4, <1>5 DEF ScreensInv
<1>6. CASE views' = [i \in DOMAIN views |-> [views[i] EXCEPT !.open = FALSE]]
  <2>1. views \in Seq(Views) /\ Len(views) \in Nat /\ DOMAIN views = 1 .. Len(views)
    BY <1>1, LenProperties DEF OneForEach
  <2>2. \A i \in 1 .. Len(views) : views[i] \in Views
    BY <2>1, ElementOfSeq
  <2>3. ASSUME NEW i \in 1 .. Len(views)
        PROVE  views'[i] \in Views /\ views'[i].screen = views[i].screen /\ views'[i].at = views[i].at
    <3>1. views'[i] = [views[i] EXCEPT !.open = FALSE] /\ views[i] \in Views
      BY <1>6, <2>1, <2>2
    <3>. QED BY <3>1 DEF Views
  <2>4. views' \in Seq(Views) /\ Len(views') = Len(views)
    <3>1. views' = [i \in 1 .. Len(views) |-> views'[i]]
      BY <1>6, <2>1
    <3>. QED BY <2>1, <2>3, <3>1
  <2>5. OneForEach(views', screens)
    BY <1>1, <2>3, <2>4 DEF OneForEach
  <2>. QED BY <1>1, <1>4, <2>5 DEF ScreensInv
<1>7. ScreensInv'
  BY <1>3, <1>5, <1>6, Zenon
<1>. QED BY <1>4, <1>7

\* What has nothing to do with screens.
LEMMA ScreensStay ==
  ASSUME ScreensInv, screens' = screens, views' = views, greeter'.pc = "running" => greeter.pc = "running"
  PROVE  ScreensInv'
BY DEF ScreensInv

-----------------------------------------------------------------------------
(* Power buttons: the steps *)

\* How often a message is in a queue.
CountIn(q, a) == Cardinality({i \in DOMAIN q : q[i] = a})

\* A queue without messages, and one of any length.
LEMMA CountType ==
  ASSUME NEW S, NEW a
  PROVE  CountIn(<<>>, a) = 0 /\ \A q \in Seq(S) : CountIn(q, a) \in Nat
<1>1. {i \in DOMAIN <<>> : <<>>[i] = a} = {}
  OBVIOUS
<1>2. ASSUME NEW q \in Seq(S) PROVE CountIn(q, a) \in Nat
  <2>1. Len(q) \in Nat /\ DOMAIN q = 1 .. Len(q)
    BY LenProperties
  <2>2. IsFiniteSet(1 .. Len(q))
    BY <2>1, FS_Interval
  <2>3. {i \in DOMAIN q : q[i] = a} \in SUBSET (1 .. Len(q))
    BY <2>1
  <2>4. IsFiniteSet({i \in DOMAIN q : q[i] = a})
    BY <2>2, <2>3, FS_Subset
  <2>. QED BY <2>4, FS_CardinalityType DEF CountIn
<1>. QED BY <1>1, <1>2, FS_EmptySet, Zenon DEF CountIn

\* A message more.
LEMMA CountAppend ==
  ASSUME NEW S, NEW q \in Seq(S), NEW x \in S, NEW a
  PROVE  CountIn(Append(q, x), a) = CountIn(q, a) + IF x = a THEN 1 ELSE 0
<1>. DEFINE r == Append(q, x)
            n == Len(q) + 1
            I == {i \in DOMAIN q : q[i] = a}
            J == {i \in DOMAIN r : r[i] = a}
<1>1. Len(q) \in Nat /\ DOMAIN q = 1 .. Len(q)
  BY LenProperties
<1>2. DOMAIN r = 1 .. n /\ r[n] = x /\ \A i \in 1 .. Len(q) : r[i] = q[i]
  BY <1>1
<1>3. IsFiniteSet(I) /\ Cardinality(I) \in Nat
  <2>1. IsFiniteSet(1 .. Len(q))
    BY <1>1, FS_Interval
  <2>2. I \in SUBSET (1 .. Len(q))
    BY <1>1
  <2>. HIDE DEF I
  <2>. QED BY <2>1, <2>2, FS_Subset, FS_CardinalityType
<1>4. n \notin I /\ 1 .. n = (1 .. Len(q)) \cup {n}
  BY <1>1
<1>5. J = IF x = a THEN I \cup {n} ELSE I
  BY <1>1, <1>2, <1>4
<1>. HIDE DEF r, n, I, J
<1>6. Cardinality(J) = Cardinality(I) + IF x = a THEN 1 ELSE 0
  <2>1. Cardinality(I \cup {n}) = Cardinality(I) + 1
    BY <1>3, <1>4, FS_AddElement
  <2>. QED BY <1>3, <1>5, <2>1
<1>. QED BY <1>6 DEF CountIn, I, J, r

\* A message less.
LEMMA CountTail ==
  ASSUME NEW S, NEW q \in Seq(S), q # <<>>, NEW a
  PROVE  CountIn(q, a) = CountIn(Tail(q), a) + IF Head(q) = a THEN 1 ELSE 0
<1>. DEFINE r == Tail(q)
            I == {i \in DOMAIN q : q[i] = a}
            J == {i \in DOMAIN r : r[i] = a}
            K == {i \in 2 .. Len(q) : q[i] = a}
            f == [i \in J |-> i + 1]
<1>1. Len(q) \in Nat /\ DOMAIN q = 1 .. Len(q) /\ Len(q) >= 1
  BY LenProperties, EmptySeq
<1>2. r \in Seq(S) /\ Len(r) = Len(q) - 1 /\ DOMAIN r = 1 .. Len(r)
  BY <1>1, HeadTailProperties, LenProperties
<1>3. Head(q) = q[1] /\ \A i \in 1 .. Len(r) : r[i] = q[i + 1]
  BY <1>1, HeadTailProperties
<1>4. \A i \in 1 .. Len(r) : i + 1 \in 2 .. Len(q)
  BY <1>1, <1>2
<1>5. \A i \in 2 .. Len(q) : i - 1 \in 1 .. Len(r) /\ r[i - 1] = q[i]
  <2>. TAKE i \in 2 .. Len(q)
  <2>1. i - 1 \in 1 .. Len(r) /\ (i - 1) + 1 = i
    BY <1>1, <1>2
  <2>. QED BY <1>3, <2>1
<1>6. IsFiniteSet(J) /\ Cardinality(J) \in Nat
  <2>1. Len(r) \in Nat
    BY <1>2, LenProperties
  <2>2. IsFiniteSet(1 .. Len(r))
    BY <2>1, FS_Interval
  <2>3. J \in SUBSET (1 .. Len(r))
    BY <1>2
  <2>. HIDE DEF J
  <2>. QED BY <2>2, <2>3, FS_Subset, FS_CardinalityType
<1>7. f \in [J -> K]
  BY <1>2, <1>3, <1>4
<1>8. \A i, j \in J : f[i] = f[j] => i = j
  BY <1>2
<1>9. \A k \in K : \E i \in J : f[i] = k
  <2>. TAKE k \in K
  <2>1. k - 1 \in J /\ (k - 1) + 1 = k
    BY <1>2, <1>5
  <2>. QED BY <2>1
<1>10. IsFiniteSet(K) /\ Cardinality(K) = Cardinality(J)
  <2>. HIDE DEF J, K, f
  <2>. QED BY <1>6, <1>7, <1>8, <1>9, SameSize
<1>11. 1 \notin K /\ 1 .. Len(q) = {1} \cup (2 .. Len(q))
  BY <1>1
<1>12. I = IF Head(q) = a THEN K \cup {1} ELSE K
  BY <1>1, <1>3, <1>11
<1>. HIDE DEF r, I, J, K, f
<1>13. Cardinality(I) = Cardinality(J) + IF Head(q) = a THEN 1 ELSE 0
  <2>1. Cardinality(K \cup {1}) = Cardinality(K) + 1
    BY <1>10, <1>11, FS_AddElement
  <2>. QED BY <1>6, <1>10, <1>12, <2>1
<1>. QED BY <1>13 DEF CountIn, I, J, r

\* The types of what the power buttons are about, and who counts what.
LEMMA PowerHolds ==
  ASSUME PowerInv
  PROVE  /\ socket \in Sockets /\ pressed \in Counts /\ power.carriedOut \in Counts
         /\ socket.toDaemon \in Seq(Messages) /\ socket.toGreeter \in Seq(Answered)
         /\ \A a \in PowerActions : /\ CountIn(socket.toDaemon, a) \in Nat
                                    /\ power.carriedOut[a] + CountIn(socket.toDaemon, a) <= pressed[a]
<1>1. socket \in Sockets /\ socket.toDaemon \in Seq(Messages) /\ socket.toGreeter \in Seq(Answered)
  BY DEF PowerInv, Sockets
<1>2. \A a \in PowerActions : CountIn(socket.toDaemon, a) \in Nat
  BY <1>1, CountType
<1>3. \A a \in PowerActions : power.carriedOut[a] + CountIn(socket.toDaemon, a) <= pressed[a]
  BY Zenon DEF PowerInv, OnePressOneAction, InFlight, CountIn
<1>. QED BY <1>1, <1>2, <1>3 DEF PowerInv

\* The other way round.
LEMMA PowerHoldsThen ==
  ASSUME greeter' \in Greeters, socket' \in Sockets, pressed' \in Counts,
         power' = [backends |-> power'.backends, carriedOut |-> power'.carriedOut],
         power'.carriedOut \in Counts,
         \A a \in PowerActions : power'.carriedOut[a] + CountIn(socket'.toDaemon, a) <= pressed'[a]
  PROVE  PowerInv'
<1>1. OnePressOneAction'
  BY Zenon DEF OnePressOneAction, InFlight, CountIn
<1>. QED BY <1>1, Zenon DEF PowerInv

\* No press and no action, and nothing in the queue that was not there.
LEMMA PowerStays ==
  ASSUME PowerInv, greeter' \in Greeters, socket' \in Sockets, UNCHANGED <<power, pressed>>,
         socket'.toDaemon = socket.toDaemon \/ \A a \in PowerActions : CountIn(socket'.toDaemon, a) = 0
  PROVE  PowerInv'
<1>1. /\ pressed' \in Counts /\ power'.carriedOut \in Counts
      /\ power' = [backends |-> power'.backends, carriedOut |-> power'.carriedOut]
  BY DEF PowerInv
<1>2. ASSUME NEW a \in PowerActions
      PROVE  power'.carriedOut[a] + CountIn(socket'.toDaemon, a) <= pressed'[a]
  <2>1. /\ power.carriedOut[a] + CountIn(socket.toDaemon, a) <= pressed[a]
        /\ CountIn(socket.toDaemon, a) \in Nat
    BY PowerHolds
  <2>2. power.carriedOut[a] \in Nat /\ pressed[a] \in Nat
    BY PowerHolds DEF Counts
  <2>. QED BY <2>1, <2>2
<1>. QED BY <1>1, <1>2, PowerHoldsThen

\* The first message is no press.
LEMMA ConnectKeepsPower ==
  ASSUME PowerInv, Proxy
  PROVE  PowerInv'
<1>1. greeter' \in Greeters
  <2>1. greeter \in Greeters
    BY DEF PowerInv
  <2>2. greeter' = [greeter EXCEPT !.pc = "numlock"] \/ greeter' = Exit(greeter, "failure")
    BY Zenon DEF Proxy
  <2>. QED BY <2>1, <2>2 DEF Greeters, Stages, Exit
<1>2. UNCHANGED <<power, pressed>>
  BY DEF Proxy
<1>3. CASE socket' = socket
  BY <1>1, <1>2, <1>3, PowerStays, PowerHolds
<1>4. CASE socket' = [socket EXCEPT !.up = TRUE, !.toDaemon = <<"Connect">>]
  <2>1. <<"Connect">> \in Seq(Messages)
    BY DEF Messages
  <2>2. socket' \in Sockets /\ socket'.toDaemon = <<"Connect">>
    BY <1>4, <2>1, PowerHolds DEF Sockets
  <2>3. ASSUME NEW a \in PowerActions PROVE CountIn(<<"Connect">>, a) = 0
    <3>1. "Connect" # a
      BY PowerAssumption
    <3>2. <<>> \in Seq(Messages) /\ "Connect" \in Messages /\ <<"Connect">> = Append(<<>>, "Connect")
      BY DEF Messages
    <3>3. \A q \in Seq(Messages), x \in Messages : x # a => CountIn(Append(q, x), a) = CountIn(q, a)
      <4>. TAKE q \in Seq(Messages), x \in Messages
      <4>. HAVE x # a
      <4>1. CountIn(Append(q, x), a) = CountIn(q, a) + 0
        BY CountAppend
      <4>. QED BY <4>1, CountType
    <3>4. CountIn(<<>>, a) = 0
      BY CountType
    <3>5. CountIn(Append(<<>>, "Connect"), a) = CountIn(<<>>, a)
      BY <3>1, <3>2, <3>3, Zenon
    <3>. QED BY <3>2, <3>4, <3>5, Zenon
  <2>. QED BY <1>1, <1>2, <2>2, <2>3, PowerStays
<1>. QED BY <1>3, <1>4 DEF Proxy

\* A press counts before it is on its way.
LEMMA PressKeepsPower ==
  ASSUME PowerInv, Press
  PROVE  PowerInv'
<1>1. PICK a \in greeter.can :
        /\ pressed' = [pressed EXCEPT ![a] = @ + 1]
        /\ socket' = IF socket.up THEN [socket EXCEPT !.toDaemon = Append(@, a)] ELSE socket
  BY DEF Press
<1>2. a \in PowerActions /\ greeter \in Greeters /\ greeter' = greeter
  BY DEF PowerInv, Press, Greeters
<1>3. power' = power
  BY DEF Press
<1>4. pressed' \in Counts /\ \A b \in PowerActions : pressed'[b] = pressed[b] + IF a = b THEN 1 ELSE 0
  BY <1>1, <1>2, PowerHolds DEF Counts
<1>5. Append(socket.toDaemon, a) \in Seq(Messages)
  BY <1>2, PowerHolds, AppendProperties DEF Messages
<1>6. socket' \in Sockets /\ (socket'.toDaemon = socket.toDaemon \/ socket'.toDaemon = Append(socket.toDaemon, a))
  BY <1>1, <1>5, PowerHolds DEF Sockets
<1>7. ASSUME NEW b \in PowerActions
      PROVE  power'.carriedOut[b] + CountIn(socket'.toDaemon, b) <= pressed'[b]
  <2>1. /\ power.carriedOut[b] + CountIn(socket.toDaemon, b) <= pressed[b]
        /\ CountIn(socket.toDaemon, b) \in Nat
    BY PowerHolds
  <2>2. power.carriedOut[b] \in Nat /\ pressed[b] \in Nat
    BY PowerHolds DEF Counts
  <2>3. CountIn(Append(socket.toDaemon, a), b) = CountIn(socket.toDaemon, b) + IF a = b THEN 1 ELSE 0
    BY <1>2, PowerHolds, CountAppend DEF Messages
  <2>4. pressed'[b] = pressed[b] + IF a = b THEN 1 ELSE 0
    BY <1>4
  <2>5. CASE socket'.toDaemon = socket.toDaemon
    BY <1>3, <2>1, <2>2, <2>4, <2>5
  <2>6. CASE socket'.toDaemon = Append(socket.toDaemon, a)
    BY <1>3, <2>1, <2>2, <2>3, <2>4, <2>6
  <2>. QED BY <1>6, <2>5, <2>6
<1>8. /\ power' = [backends |-> power'.backends, carriedOut |-> power'.carriedOut]
      /\ power'.carriedOut \in Counts
  BY <1>3 DEF PowerInv
<1>. QED BY <1>2, <1>4, <1>6, <1>7, <1>8, PowerHoldsThen

\* The daemon takes a message: an action leaves the queue before it is carried out.
LEMMA DaemonReadsKeepsPower ==
  ASSUME PowerInv, DaemonReads
  PROVE  PowerInv'
<1>. DEFINE m == Head(socket.toDaemon)
            q == Tail(socket.toDaemon)
            rest == [socket EXCEPT !.toDaemon = Tail(@)]
<1>1. greeter' \in Greeters /\ pressed' = pressed
  BY DEF PowerInv, DaemonReads
<1>2. q \in Seq(Messages) /\ \A a : CountIn(socket.toDaemon, a) = CountIn(q, a) + IF m = a THEN 1 ELSE 0
  <2>1. socket.toDaemon \in Seq(Messages) /\ socket.toDaemon # <<>>
    BY PowerHolds DEF DaemonReads
  <2>. QED BY <2>1, HeadTailProperties, CountTail
<1>3. rest \in Sockets /\ rest.toDaemon = q
  BY <1>2, PowerHolds DEF Sockets
<1>4. \A a \in PowerActions : CountIn(q, a) \in Nat
  BY <1>2, CountType
<1>5. socket' \in Sockets /\ socket'.toDaemon = q
  <2>1. \A can : can \in SUBSET PowerActions =>
          Append(rest.toGreeter, [type |-> "Capabilities", can |-> can]) \in Seq(Answered)
    <3>1. rest.toGreeter \in Seq(Answered)
      BY <1>3 DEF Sockets
    <3>2. \A can \in SUBSET PowerActions : [type |-> "Capabilities", can |-> can] \in Answered
      BY DEF Answered
    <3>. QED BY <3>1, <3>2, AppendProperties
  <2>2. ASSUME NEW answer \in [ToSet(power.backends) -> SUBSET PowerActions]
        PROVE  Capabilities(answer) \in SUBSET PowerActions
    BY DEF Capabilities
  <2>3. \/ socket' = rest
        \/ \E answer \in [ToSet(power.backends) -> SUBSET PowerActions] :
             socket' = [rest EXCEPT !.toGreeter =
                          Append(@, [type |-> "Capabilities", can |-> Capabilities(answer)])]
    BY Zenon DEF DaemonReads
  <2>4. ASSUME NEW x, x \in Seq(Answered), socket' = [rest EXCEPT !.toGreeter = x]
        PROVE  socket' \in Sockets /\ socket'.toDaemon = q
    BY <1>3, <2>4 DEF Sockets
  <2>. HIDE DEF rest, q
  <2>. QED BY <1>3, <2>1, <2>2, <2>3, <2>4
<1>6. \/ power' = power
      \/ m \in PowerActions /\ power' = [power EXCEPT !.carriedOut[m] = @ + 1]
  BY Zenon DEF DaemonReads, CarryOut
<1>. HIDE DEF m, q, rest
<1>7. /\ power' = [backends |-> power'.backends, carriedOut |-> power'.carriedOut]
      /\ power'.carriedOut \in Counts
      /\ \/ power'.carriedOut = power.carriedOut
         \/ power'.carriedOut = [power.carriedOut EXCEPT ![m] = @ + 1]
  <2>1. power = [backends |-> power.backends, carriedOut |-> power.carriedOut] /\ power.carriedOut \in Counts
    BY DEF PowerInv
  <2>. QED BY <1>6, <2>1 DEF Counts
<1>8. ASSUME NEW a \in PowerActions
      PROVE  power'.carriedOut[a] + CountIn(socket'.toDaemon, a) <= pressed'[a]
  <2>1. power.carriedOut[a] + CountIn(socket.toDaemon, a) <= pressed[a]
    BY PowerHolds
  <2>2. power.carriedOut[a] \in Nat /\ pressed[a] \in Nat /\ power.carriedOut \in Counts
    BY PowerHolds DEF Counts
  <2>3. power'.carriedOut[a] = power.carriedOut[a]
        \/ power'.carriedOut[a] = power.carriedOut[a] + IF m = a THEN 1 ELSE 0
    BY <1>7, <2>2 DEF Counts
  <2>. QED BY <1>1, <1>2, <1>4, <1>5, <2>1, <2>2, <2>3
<1>. QED BY <1>1, <1>5, <1>7, <1>8, PowerHolds, PowerHoldsThen

\* What reaches the greeter, and its end, are no action.
LEMMA ReadsKeepsPower ==
  ASSUME PowerInv, greeter' \in Greeters, GreeterReads
  PROVE  PowerInv'
<1>1. Tail(socket.toGreeter) \in Seq(Answered)
  <2>1. socket.toGreeter \in Seq(Answered) /\ socket.toGreeter # <<>>
    BY PowerHolds DEF GreeterReads
  <2>. QED BY <2>1, HeadTailProperties
<1>2. \/ socket' = [socket EXCEPT !.toGreeter = Tail(@)]
      \/ socket' = [socket EXCEPT !.up = FALSE, !.toGreeter = <<>>]
  BY Zenon DEF GreeterReads, HangUp
<1>3. socket' \in Sockets /\ socket'.toDaemon = socket.toDaemon
  <2>1. <<>> \in Seq(Answered)
    OBVIOUS
  <2>. QED BY <1>1, <1>2, <2>1, PowerHolds DEF Sockets
<1>4. UNCHANGED <<power, pressed>>
  BY DEF GreeterReads
<1>. QED BY <1>3, <1>4, PowerStays

\* The daemon's end.
LEMMA DaemonKeepsPower ==
  ASSUME PowerInv, DaemonAnswers \/ DaemonStops
  PROVE  PowerInv'
<1>1. greeter' \in Greeters /\ UNCHANGED <<power, pressed>>
  BY DEF PowerInv, DaemonAnswers, DaemonStops
<1>2. CASE DaemonAnswers
  <2>1. PICK m \in {"LoginSucceeded", "LoginFailed"} :
          socket' = [socket EXCEPT !.toGreeter = Append(@, [type |-> m, can |-> {}])]
    BY <1>2 DEF DaemonAnswers
  <2>2. [type |-> m, can |-> {}] \in Answered
    BY DEF Answered
  <2>3. Append(socket.toGreeter, [type |-> m, can |-> {}]) \in Seq(Answered)
    BY <2>2, PowerHolds, AppendProperties
  <2>4. socket' \in Sockets /\ socket'.toDaemon = socket.toDaemon
    BY <2>1, <2>3, PowerHolds DEF Sockets
  <2>. QED BY <1>1, <2>4, PowerStays
<1>3. CASE DaemonStops
  <2>1. socket' = [socket EXCEPT !.server = FALSE, !.up = FALSE, !.toDaemon = <<>>]
    BY <1>3 DEF DaemonStops
  <2>2. socket' \in Sockets /\ socket'.toDaemon = <<>>
    <3>1. <<>> \in Seq(Messages)
      OBVIOUS
    <3>. QED BY <2>1, <3>1, PowerHolds DEF Sockets
  <2>. QED BY <1>1, <2>2, PowerStays, CountType
<1>. QED BY <1>2, <1>3

\* What the greeter does for itself, and its end.
LEMMA OthersKeepPower ==
  ASSUME PowerInv, ScreensInv,
         Models \/ SetNumlock \/ CreateViews \/ UseKeyboard \/ KeyboardLoop \/ SocketDisconnected \/ Signal
  PROVE  PowerInv'
<1>1. greeter \in Greeters /\ socket \in Sockets /\ UNCHANGED <<power, pressed>>
  BY Zenon DEF PowerInv, Models, SetNumlock, CreateViews, UseKeyboard, KeyboardLoop, SocketDisconnected, Signal
<1>2. Primary \in Places
  BY HeadTailProperties DEF Primary, Places, ScreensInv
<1>3. \/ greeter' = greeter
      \/ greeter' = [greeter EXCEPT !.pc = "startup"]
      \/ greeter' = [greeter EXCEPT !.pc = "views"]
      \/ greeter' = [greeter EXCEPT !.pc = "running", !.focus = Primary]
      \/ greeter' = Exit(greeter, "ok")
      \/ greeter' = Exit(greeter, "-1")
  BY Zenon DEF Models, SetNumlock, CreateViews, UseKeyboard, KeyboardLoop, SocketDisconnected, Signal
<1>4. greeter' \in Greeters
  BY <1>1, <1>2, <1>3 DEF Greeters, Stages, Exit
<1>5. socket' = socket \/ socket' = [socket EXCEPT !.up = FALSE, !.toGreeter = <<>>]
  BY Zenon DEF Models, SetNumlock, CreateViews, UseKeyboard, KeyboardLoop, SocketDisconnected, Signal, HangUp
<1>6. socket' \in Sockets /\ socket'.toDaemon = socket.toDaemon
  <2>1. <<>> \in Seq(Answered)
    OBVIOUS
  <2>. QED BY <1>1, <1>5, <2>1 DEF Sockets
<1>. QED BY <1>1, <1>4, <1>6, PowerStays

\* Every step keeps the views on their screens and a press an action at most.
LEMMA StepKeepsScreensAndPower ==
  ASSUME ScreensInv, PowerInv, [Next]_vars
  PROVE  ScreensInv' /\ PowerInv'
<1>. DEFINE Stays == screens' = screens /\ views' = views /\ (greeter'.pc = "running" => greeter.pc = "running")
<1>1. greeter \in Greeters /\ socket \in Sockets
  BY DEF PowerInv
<1>2. ASSUME Models \/ SetNumlock \/ UseKeyboard \/ KeyboardLoop \/ SocketDisconnected \/ Signal
      PROVE  ScreensInv' /\ PowerInv'
  <2>1. screens' = screens /\ views' = views
    BY <1>2, Zenon DEF Models, SetNumlock, UseKeyboard, KeyboardLoop, SocketDisconnected, Signal
  <2>2. \/ greeter' = greeter
        \/ greeter' = [greeter EXCEPT !.pc = "startup"]
        \/ greeter' = [greeter EXCEPT !.pc = "views"]
        \/ greeter' = Exit(greeter, "ok")
        \/ greeter' = Exit(greeter, "-1")
    BY <1>2, Zenon DEF Models, SetNumlock, UseKeyboard, KeyboardLoop, SocketDisconnected, Signal
  <2>3. greeter'.pc = "running" => greeter.pc = "running"
    BY <1>1, <2>2 DEF Greeters, Exit
  <2>. QED BY <1>2, <2>1, <2>3, OthersKeepPower, ScreensStay
<1>3. CASE CreateViews
  BY <1>3, FirstViews, OthersKeepPower
<1>4. CASE Proxy
  <2>1. screens' = screens /\ views' = views
    BY <1>4, Zenon DEF Proxy
  <2>2. greeter'.pc = "running" => greeter.pc = "running"
    BY <1>1, <1>4 DEF Greeters, Exit, Proxy
  <2>. QED BY <1>4, <2>1, <2>2, ConnectKeepsPower, ScreensStay
<1>5. CASE GreeterReads
  BY <1>1, <1>5, ReadsKeepsScreens, ReadsKeepsPower
<1>6. CASE ScreenAdded \/ ScreenRemoved \/ PrimaryChanged
  <2>1. ScreensInv' /\ greeter' \in Greeters
    BY <1>1, <1>6, AddedKeepsScreens, RemovedKeepsScreens, PrimaryKeepsScreens
  <2>2. socket' = socket /\ UNCHANGED <<power, pressed>>
    BY <1>6, Zenon DEF ScreenAdded, ScreenRemoved, PrimaryChanged
  <2>. QED BY <1>1, <2>1, <2>2, PowerStays
<1>7. CASE Press \/ DaemonReads \/ DaemonAnswers \/ DaemonStops
  <2>1. screens' = screens /\ views' = views /\ greeter' = greeter
    BY <1>7, Zenon DEF Press, DaemonReads, DaemonAnswers, DaemonStops
  <2>. QED BY <1>7, <2>1, PressKeepsPower, DaemonReadsKeepsPower, DaemonKeepsPower, ScreensStay
<1>8. CASE UNCHANGED vars
  <2>1. screens' = screens /\ views' = views /\ greeter' = greeter /\ socket' = socket /\ UNCHANGED <<power, pressed>>
    BY <1>8 DEF vars
  <2>. QED BY <1>1, <2>1, PowerStays, ScreensStay
<1>. QED
  BY <1>2, <1>3, <1>4, <1>5, <1>6, <1>7, <1>8, Zenon DEF Next, Startup, Loop

\* A greeter that starts.
LEMMA FirstScreensAndPower ==
  ASSUME Init
  PROVE  ScreensInv /\ PowerInv
<1>1. ScreensInv
  <2>1. screens = <<CHOOSE s \in Screens : TRUE>> /\ (CHOOSE s \in Screens : TRUE) \in Screens
    BY GreeterAssumption, Zenon DEF Init
  <2>2. screens \in Seq(Screens) /\ Len(screens) = 1
    BY <2>1
  <2>3. greeter.pc = "models"
    BY DEF Init
  <2>. QED BY <2>2, <2>3 DEF ScreensInv, Injective
<1>2. greeter \in Greeters /\ socket \in Sockets /\ pressed \in Counts
  <2>1. <<>> \in Seq(Messages) /\ <<>> \in Seq(Answered)
    OBVIOUS
  <2>. QED BY <2>1 DEF Init, Greeters, Stages, Places, Sockets, Counts
<1>3. /\ power = [backends |-> power.backends, carriedOut |-> power.carriedOut]
      /\ power.carriedOut = [a \in PowerActions |-> 0]
  BY DEF Init, PowerInit
<1>4. power.carriedOut \in Counts
  BY <1>3 DEF Counts
<1>5. OnePressOneAction
  <2>1. socket.toDaemon = <<>> /\ pressed = [a \in PowerActions |-> 0]
    BY DEF Init
  <2>2. ASSUME NEW a \in PowerActions
        PROVE  power.carriedOut[a] + CountIn(socket.toDaemon, a) <= pressed[a]
    <3>1. CountIn(<<>>, a) = 0 /\ power.carriedOut[a] = 0 /\ pressed[a] = 0
      BY <1>3, <2>1, CountType
    <3>2. CountIn(socket.toDaemon, a) = 0
      BY <2>1, <3>1, Zenon
    <3>. QED BY <3>1, <3>2
  <2>. QED BY <2>2, Zenon DEF OnePressOneAction, InFlight, CountIn
<1>. QED BY <1>1, <1>2, <1>3, <1>4, <1>5 DEF PowerInv

-----------------------------------------------------------------------------
(* The keyboard: its events *)

\* A keyboard has a layout.
LEMMA GroupCountType ==
  ASSUME NEW text \in Layouts
  PROVE  GroupCount(text) \in Nat \ {0}
<1>. DEFINE G == {i \in DOMAIN text : text[i].name \notin Blacklist}
<1>1. text \in Seq([name : STRING, at : Nat, length : Nat \ {0}]) /\ \E i \in DOMAIN text : text[i].name \notin Blacklist
  BY KeyboardAssumption
<1>2. Len(text) \in Nat /\ DOMAIN text = 1 .. Len(text)
  BY <1>1, LenProperties
<1>3. IsFiniteSet(1 .. Len(text))
  BY <1>2, FS_Interval
<1>4. G \in SUBSET (1 .. Len(text)) /\ G # {}
  BY <1>1, <1>2
<1>. HIDE DEF G
<1>5. IsFiniteSet(G)
  BY <1>3, <1>4, FS_Subset
<1>6. Cardinality(G) \in Nat /\ Cardinality(G) # 0
  BY <1>4, <1>5, FS_CardinalityType, FS_EmptySet
<1>. QED BY <1>6 DEF GroupCount, G

\* Events arrive behind those that wait.
LEMMA OnTheWire ==
  ASSUME NEW q \in Seq(Notices), NEW w \in Seq(Notices), NEW e \in Notices
  PROVE  /\ q \o w \in Seq(Notices) /\ q \o Append(w, e) = Append(q \o w, e)
         /\ (q \o w) \o <<>> = q \o w
<1>1. q \o w \in Seq(Notices)
  BY ConcatProperties
<1>2. q \o Append(w, e) = Append(q \o w, e)
  OBVIOUS
<1>3. (q \o w) \o <<>> = q \o w
  <2>1. \A p \in Seq(Notices) : p \o <<>> = p
    OBVIOUS
  <2>. QED BY <1>1, <2>1
<1>. QED BY <1>1, <1>2, <1>3

\* An event that is on its way tells of the present state or layouts.
LEMMA FitAppend ==
  ASSUME NEW p \in Seq(Notices), NEW k, NEW x, NEW l, NEW e \in Notices, NEW y
  PROVE  /\ y.locks = l /\ e = StateNotify(l) => LocksFit(Append(p, e), k, y)
         /\ e = NewKeyboardNotify => LayoutsFit(Append(p, e), k, y)
         /\ /\ LocksFit(p, k, x) /\ e = NewKeyboardNotify /\ y.locks = x.locks
            /\ "locks" \in x.missed => "locks" \in y.missed
            => LocksFit(Append(p, e), k, y)
         /\ /\ LayoutsFit(p, k, x) /\ y.layouts = x.layouts
            /\ "layouts" \in x.missed => "layouts" \in y.missed
            => LayoutsFit(Append(p, e), k, y)
<1>. DEFINE r == Append(p, e)
<1>1. Len(p) \in Nat /\ Len(r) = Len(p) + 1 /\ r[Len(r)] = e /\ \A i \in 1 .. Len(p) : r[i] = p[i]
  BY LenProperties
<1>2. Len(r) \in 1 .. Len(r) /\ (Len(r) + 1) .. Len(r) = {}
      /\ (\A i \in 1 .. Len(p) : i \in 1 .. Len(r))
      /\ \A i \in 1 .. Len(r) : i = Len(r) \/ i \in 1 .. Len(p)
  BY <1>1
<1>. HIDE DEF r
<1>3. ASSUME y.locks = l, e = StateNotify(l)
      PROVE  LocksFit(r, k, y)
  <2>1. r[Len(r)].type = "StateNotify" /\ r[Len(r)].locks = y.locks
    BY <1>1, <1>3 DEF StateNotify
  <2>. QED BY <1>2, <2>1, Zenon DEF LocksFit
<1>4. ASSUME e = NewKeyboardNotify
      PROVE  LayoutsFit(r, k, y)
  BY <1>1, <1>2, <1>4 DEF LayoutsFit, NewKeyboardNotify
<1>5. ASSUME LocksFit(p, k, x), e = NewKeyboardNotify, y.locks = x.locks, "locks" \in x.missed => "locks" \in y.missed
      PROVE  LocksFit(r, k, y)
  <2>1. r[Len(r)].type # "StateNotify"
    BY <1>1, <1>5 DEF NewKeyboardNotify
  <2>2. CASE \E i \in 1 .. Len(p) : /\ p[i].type = "StateNotify" /\ p[i].locks = x.locks
                                    /\ \A j \in i + 1 .. Len(p) : p[j].type # "StateNotify"
    <3>1. PICK i \in 1 .. Len(p) : /\ p[i].type = "StateNotify" /\ p[i].locks = x.locks
                                   /\ \A j \in i + 1 .. Len(p) : p[j].type # "StateNotify"
      BY <2>2
    <3>2. \A j \in i + 1 .. Len(r) : r[j].type # "StateNotify"
      <4>. TAKE j \in i + 1 .. Len(r)
      <4>1. j = Len(r) \/ (j \in i + 1 .. Len(p) /\ j \in 1 .. Len(p))
        BY <1>1
      <4>. QED BY <1>1, <2>1, <3>1, <4>1
    <3>3. i \in 1 .. Len(r) /\ r[i].type = "StateNotify" /\ r[i].locks = y.locks
      BY <1>1, <1>2, <1>5, <3>1
    <3>. QED BY <3>2, <3>3, Zenon DEF LocksFit
  <2>3. CASE /\ \A i \in 1 .. Len(p) : p[i].type # "StateNotify"
             /\ "locks" \in x.missed \/ Agree(k.mask, k.copy, x.locks)
    <3>1. \A i \in 1 .. Len(r) : r[i].type # "StateNotify"
      BY <1>1, <1>2, <2>1, <2>3
    <3>2. "locks" \in y.missed \/ Agree(k.mask, k.copy, y.locks)
      BY <1>5, <2>3
    <3>. QED BY <3>1, <3>2, Zenon DEF LocksFit
  <2>. QED BY <1>5, <2>2, <2>3, Zenon DEF LocksFit
<1>6. ASSUME LayoutsFit(p, k, x), y.layouts = x.layouts, "layouts" \in x.missed => "layouts" \in y.missed
      PROVE  LayoutsFit(r, k, y)
  <2>1. (\E i \in 1 .. Len(p) : p[i].type = "NewKeyboardNotify") => \E i \in 1 .. Len(r) : r[i].type = "NewKeyboardNotify"
    BY <1>1, <1>2
  <2>2. Len(k.layouts) = GroupCount(x.layouts) => Len(k.layouts) = GroupCount(y.layouts)
    BY <1>6, Zenon
  <2>. QED BY <1>6, <2>1, <2>2, Zenon DEF LayoutsFit
<1>. QED BY <1>3, <1>4, <1>5, <1>6, Zenon DEF r

\* What LocksFit says depends on these parts alone.
LEMMA LocksFitSame ==
  ASSUME NEW p, NEW k, NEW x, NEW h, NEW y, LocksFit(p, k, x), y.locks = x.locks, h.mask = k.mask,
         h.copy = k.copy, "locks" \in x.missed => "locks" \in y.missed
  PROVE  LocksFit(p, h, y)
BY Zenon DEF LocksFit

\* What LayoutsFit says depends on these parts alone.
LEMMA LayoutsFitSame ==
  ASSUME NEW p, NEW k, NEW x, NEW h, NEW y, LayoutsFit(p, k, x), y.layouts = x.layouts,
         Len(h.layouts) = Len(k.layouts), "layouts" \in x.missed => "layouts" \in y.missed
  PROVE  LayoutsFit(p, h, y)
BY Zenon DEF LayoutsFit

-----------------------------------------------------------------------------
(* The keyboard: the steps *)

\* How the server's side z may differ from x, when the greeter holds what it read.
Follows(z, x, what) ==
  /\ z \in Servers /\ z.selected = x.selected /\ z.read = x.read
  /\ z.missed = IF x.selected THEN x.missed \ {what} ELSE x.missed \cup ({what} \cap x.read)

\* The outcome of Becomes.
Became(b, x, w, l) ==
  /\ b.x \in Servers /\ b.x.locks = l /\ b.x.layouts = x.layouts
  /\ \/ b.x = x /\ b.wire = w
     \/ /\ Follows(b.x, x, "locks")
        /\ b.wire = IF x.selected THEN Append(w, StateNotify(l)) ELSE w

\* Whoever missed a part is known.
LEMMA UnnoticedIs ==
  ASSUME NEW x \in Servers, NEW what \in Parts
  PROVE  /\ Follows(Unnoticed(x, what), x, what)
         /\ Unnoticed(x, what).locks = x.locks /\ Unnoticed(x, what).layouts = x.layouts
<1>1. Unnoticed(x, what) =
        [x EXCEPT !.missed = IF x.selected THEN x.missed \ {what} ELSE x.missed \cup ({what} \cap x.read)]
  BY DEF Unnoticed
<1>2. (IF x.selected THEN x.missed \ {what} ELSE x.missed \cup ({what} \cap x.read)) \in SUBSET Parts
  BY DEF Servers
<1>. QED BY <1>1, <1>2 DEF Servers, Follows

\* A change of the locks.
LEMMA BecomesIs ==
  ASSUME NEW x \in Servers, NEW w, NEW l \in Locks
  PROVE  Became(Becomes(x, w, l), x, w, l)
<1>1. CASE x.locks = l
  <2>1. Becomes(x, w, l) = [x |-> x, wire |-> w]
    BY <1>1 DEF Becomes
  <2>. QED BY <1>1, <2>1 DEF Became
<1>2. CASE x.locks # l
  <2>. DEFINE y == [x EXCEPT !.locks = l]
  <2>1. Becomes(x, w, l) = [x |-> Unnoticed(y, "locks"),
                             wire |-> IF x.selected THEN Append(w, StateNotify(l)) ELSE w]
    BY <1>2, Zenon DEF Becomes
  <2>2. /\ y \in Servers /\ y.locks = l /\ y.layouts = x.layouts /\ y.selected = x.selected
        /\ y.read = x.read /\ y.missed = x.missed
    BY DEF Servers
  <2>. HIDE DEF y
  <2>3. /\ Follows(Unnoticed(y, "locks"), y, "locks")
        /\ Unnoticed(y, "locks").locks = l /\ Unnoticed(y, "locks").layouts = x.layouts
    BY <2>2, UnnoticedIs DEF Parts
  <2>4. Follows(Unnoticed(y, "locks"), x, "locks")
    BY <2>2, <2>3, Zenon DEF Follows
  <2>5. Unnoticed(y, "locks") \in Servers
    BY <2>4 DEF Follows
  <2>. QED BY <2>1, <2>3, <2>4, <2>5 DEF Became
<1>. QED BY <1>1, <1>2

\* The events as they are before and after one is sent.
LEMMA Queues ==
  ASSUME NEW k, IsKeyboard(k)
  PROVE  /\ k.queue \in Seq(Notices) /\ k.wire \in Seq(Notices)
         /\ k.queue \o k.wire \in Seq(Notices) /\ (k.queue \o k.wire) \o <<>> = k.queue \o k.wire
         /\ \A e \in Notices : /\ Append(k.wire, e) \in Seq(Notices)
                               /\ k.queue \o Append(k.wire, e) = Append(k.queue \o k.wire, e)
<1>1. k.queue \in Seq(Notices) /\ k.wire \in Seq(Notices)
  BY DEF IsKeyboard
<1>2. [type |-> "NewKeyboardNotify"] \in Notices
  BY DEF Notices
<1>3. \A e \in Notices : Append(k.wire, e) \in Seq(Notices) /\ k.queue \o Append(k.wire, e) = Append(k.queue \o k.wire, e)
  BY <1>1, OnTheWire, AppendProperties
<1>. QED BY <1>1, <1>2, <1>3, OnTheWire

\* A keyboard with another wire.
Rewired(h, k, w) ==
  /\ IsKeyboard(h) /\ h.wire = w /\ h.queue = k.queue /\ h.pc = k.pc /\ h.platform = k.platform
  /\ h.enabled = k.enabled /\ h.copy = k.copy /\ h.layouts = k.layouts /\ h.mask = k.mask
  /\ h.notifier = k.notifier

\* The wire alone changes.
LEMMA WithWire ==
  ASSUME NEW k, IsKeyboard(k), NEW w \in Seq(Notices)
  PROVE  Rewired([k EXCEPT !.wire = w], k, w)
<1>1. ASSUME NEW h, h = [k EXCEPT !.wire = w]
      PROVE  Rewired(h, k, w)
  <2>1. /\ h.wire = w /\ h.queue = k.queue /\ h.pc = k.pc /\ h.platform = k.platform
        /\ h.enabled = k.enabled /\ h.copy = k.copy /\ h.layouts = k.layouts /\ h.mask = k.mask
        /\ h.notifier = k.notifier
    BY <1>1 DEF IsKeyboard
  <2>2. IsKeyboard(h)
    BY <1>1 DEF IsKeyboard
  <2>. QED BY <2>1, <2>2 DEF Rewired
<1>. QED BY <1>1, Zenon

\* The locks change, and the greeter is told or has not read them, or misses it.
LEMMA NewLocks ==
  ASSUME NEW k, NEW x, KeyboardFits(k, x), NEW l \in Locks, NEW b, Became(b, x, k.wire, l)
  PROVE  KeyboardFits([k EXCEPT !.wire = b.wire], b.x)
<1>. DEFINE h == [k EXCEPT !.wire = b.wire]
            e == StateNotify(l)
            p == k.queue \o k.wire
<1>0. IsKeyboard(k) /\ x \in Servers
  BY DEF KeyboardFits
<1>1. CASE b.x = x /\ b.wire = k.wire
  <2>1. h = k
    BY <1>0, <1>1 DEF IsKeyboard
  <2>. QED BY <1>1, <2>1
<1>2. CASE Follows(b.x, x, "locks") /\ b.wire = IF x.selected THEN Append(k.wire, e) ELSE k.wire
  <2>1. e \in Notices
    BY DEF StateNotify, Notices
  <2>2. /\ p \in Seq(Notices) /\ k.queue \o Append(k.wire, e) = Append(p, e)
        /\ k.wire \in Seq(Notices) /\ Append(k.wire, e) \in Seq(Notices)
    BY <1>0, <2>1, Queues
  <2>3. b.wire \in Seq(Notices)
    BY <1>2, <2>2
  <2>4. /\ IsKeyboard(h) /\ h.wire = b.wire /\ h.queue = k.queue /\ h.pc = k.pc /\ h.platform = k.platform
        /\ h.enabled = k.enabled /\ h.copy = k.copy /\ h.layouts = k.layouts /\ h.mask = k.mask
        /\ h.notifier = k.notifier
    <3>1. Rewired(h, k, b.wire)
      BY <1>0, <2>3, WithWire
    <3>. QED BY <3>1 DEF Rewired
  <2>5. b.x \in Servers /\ b.x.locks = l /\ b.x.layouts = x.layouts /\ b.x.selected = x.selected /\ b.x.read = x.read
    BY <1>2 DEF Became, Follows
  <2>. HIDE DEF h, p, e
  <2>6. ASSUME x.selected PROVE KeyboardFits(h, b.x)
    <3>1. h.queue \o h.wire = Append(p, e)
      BY <1>2, <2>2, <2>4, <2>6
    <3>2. "layouts" \in x.missed => "layouts" \in b.x.missed
      BY <1>2, <2>6 DEF Follows
    <3>3. LayoutsFit(p, k, x)
      BY <2>6 DEF KeyboardFits, p
    <3>4. LocksFit(Append(p, e), h, b.x)
      BY <2>1, <2>2, <2>5, FitAppend DEF e
    <3>5. LayoutsFit(Append(p, e), k, b.x)
      BY <2>1, <2>2, <2>5, <3>2, <3>3, FitAppend
    <3>6. LayoutsFit(Append(p, e), h, b.x)
      BY <2>4, <3>5, LayoutsFitSame
    <3>7. ReadFits(h, b.x)
      BY <2>4, <2>6 DEF KeyboardFits, ReadFits
    <3>8. h.notifier => b.x.selected
      BY <2>5, <2>6
    <3>9. b.x.selected \/ h.pc \in {"connect", "leds", "layouts", "state", "select"} => h.platform = "xcb"
      BY <2>4, <2>6 DEF KeyboardFits
    <3>10. h.pc \in {"connect", "leds", "layouts", "state", "select"} => ~b.x.selected
      BY <2>4, <2>5 DEF KeyboardFits
    <3>. QED BY <2>4, <2>5, <2>6, <3>1, <3>4, <3>6, <3>7, <3>8, <3>9, <3>10, Zenon DEF KeyboardFits
  <2>7. ASSUME ~x.selected PROVE KeyboardFits(h, b.x)
    <3>1. h.wire = <<>> /\ h.queue = <<>> /\ h = k
      BY <1>0, <1>2, <2>4, <2>7 DEF KeyboardFits, IsKeyboard, h
    <3>2. b.x.missed = x.missed \cup ({"locks"} \cap x.read)
      BY <1>2, <2>7 DEF Follows
    <3>3. ReadFits(h, b.x)
      BY <2>5, <3>1, <3>2 DEF KeyboardFits, ReadFits
    <3>. QED BY <2>5, <2>7, <3>1, <3>3, Zenon DEF KeyboardFits
  <2>. QED BY <2>6, <2>7 DEF h
<1>. QED BY <1>1, <1>2, Zenon DEF Became

\* A key.
LEMMA KeyFits ==
  ASSUME KeyboardInv, Key
  PROVE  KeyboardInv'
<1>1. IsKeyboard(keyboard) /\ xserver \in Servers /\ xserver.locks \in Locks /\ xserver.layouts \in Layouts
  BY DEF KeyboardInv, KeyboardFits, Servers
<1>2. PICK l \in {[xserver.locks EXCEPT !.num = ~@], [xserver.locks EXCEPT !.caps = ~@],
                  [xserver.locks EXCEPT !.group = (@ + 1) % GroupCount(xserver.layouts)]} :
        /\ xserver' = Becomes(xserver, keyboard.wire, l).x
        /\ keyboard' = [keyboard EXCEPT !.wire = Becomes(xserver, keyboard.wire, l).wire]
  BY Zenon DEF Key
<1>3. l \in Locks
  <2>1. GroupCount(xserver.layouts) \in Nat \ {0}
    BY <1>1, GroupCountType
  <2>2. xserver.locks.group \in Nat
    BY <1>1 DEF Locks
  <2>3. (xserver.locks.group + 1) % GroupCount(xserver.layouts) \in Nat
    BY <2>1, <2>2
  <2>. QED BY <1>1, <2>3 DEF Locks
<1>4. Became(Becomes(xserver, keyboard.wire, l), xserver, keyboard.wire, l)
  BY <1>1, <1>3, BecomesIs
<1>5. KeyboardFits([keyboard EXCEPT !.wire = Becomes(xserver, keyboard.wire, l).wire], Becomes(xserver, keyboard.wire, l).x)
  BY <1>3, <1>4, NewLocks DEF KeyboardInv
<1>. QED BY <1>2, <1>5 DEF KeyboardInv

\* The server's side with other layouts, and the wire when the greeter is told.
Relaid(x, text) == Unnoticed([x EXCEPT !.layouts = text], "layouts")
Told(w, y) == IF y.selected THEN Append(w, NewKeyboardNotify) ELSE w

\* Other layouts, before the locks follow.
LEMMA NewLayouts ==
  ASSUME NEW k, NEW x, KeyboardFits(k, x), NEW text \in Layouts
  PROVE  /\ KeyboardFits([k EXCEPT !.wire = Told(k.wire, Relaid(x, text))], Relaid(x, text))
         /\ Relaid(x, text).locks = x.locks
<1>. DEFINE y == Relaid(x, text)
            w == Told(k.wire, y)
            h == [k EXCEPT !.wire = w]
            e == NewKeyboardNotify
            p == k.queue \o k.wire
<1>1. IsKeyboard(k) /\ x \in Servers
  BY DEF KeyboardFits
<1>2. Follows(y, x, "layouts") /\ y.locks = x.locks /\ y.layouts = text
  <2>. DEFINE z == [x EXCEPT !.layouts = text]
  <2>1. /\ z \in Servers /\ z.locks = x.locks /\ z.layouts = text /\ z.selected = x.selected
        /\ z.read = x.read /\ z.missed = x.missed
    BY <1>1 DEF Servers
  <2>. HIDE DEF z
  <2>2. Follows(y, z, "layouts") /\ y.locks = z.locks /\ y.layouts = z.layouts
    BY <2>1, UnnoticedIs DEF Parts, Relaid, z
  <2>3. Follows(y, x, "layouts")
    BY <2>1, <2>2, Zenon DEF Follows
  <2>. QED BY <2>1, <2>2, <2>3
<1>. HIDE DEF y
<1>3. e \in Notices
  BY DEF NewKeyboardNotify, Notices
<1>4. /\ p \in Seq(Notices) /\ k.queue \o Append(k.wire, e) = Append(p, e)
      /\ k.wire \in Seq(Notices) /\ Append(k.wire, e) \in Seq(Notices)
  BY <1>1, <1>3, Queues
<1>5. w \in Seq(Notices) /\ w = IF x.selected THEN Append(k.wire, e) ELSE k.wire
  <2>1. y.selected = x.selected
    BY <1>2 DEF Follows
  <2>. QED BY <1>4, <2>1 DEF Told
<1>. HIDE DEF w
<1>6. /\ IsKeyboard(h) /\ h.wire = w /\ h.queue = k.queue /\ h.pc = k.pc /\ h.platform = k.platform
      /\ h.enabled = k.enabled /\ h.copy = k.copy /\ h.layouts = k.layouts /\ h.mask = k.mask
      /\ h.notifier = k.notifier
  <2>1. Rewired(h, k, w)
    BY <1>1, <1>5, WithWire
  <2>. QED BY <2>1 DEF Rewired
<1>7. y \in Servers /\ y.selected = x.selected /\ y.read = x.read
  BY <1>2 DEF Follows
<1>. HIDE DEF h, p, e
<1>8. ASSUME x.selected PROVE KeyboardFits(h, y)
  <2>1. h.queue \o h.wire = Append(p, e)
    BY <1>4, <1>5, <1>6, <1>8
  <2>2. "locks" \in x.missed => "locks" \in y.missed
    BY <1>2, <1>8 DEF Follows
  <2>3. LocksFit(p, k, x)
    BY <1>8 DEF KeyboardFits, p
  <2>4. LayoutsFit(Append(p, e), h, y)
    BY <1>3, <1>4, FitAppend DEF e
  <2>5. LocksFit(Append(p, e), k, y)
    BY <1>2, <1>3, <1>4, <2>2, <2>3, FitAppend DEF e
  <2>6. LocksFit(Append(p, e), h, y)
    BY <1>6, <2>5, LocksFitSame
  <2>7. ReadFits(h, y)
    BY <1>6, <1>8 DEF KeyboardFits, ReadFits
  <2>8. h.notifier => y.selected
    BY <1>7, <1>8
  <2>9. y.selected \/ h.pc \in {"connect", "leds", "layouts", "state", "select"} => h.platform = "xcb"
    BY <1>6, <1>8 DEF KeyboardFits
  <2>10. h.pc \in {"connect", "leds", "layouts", "state", "select"} => ~y.selected
    BY <1>6, <1>7 DEF KeyboardFits
  <2>. QED BY <1>6, <1>7, <1>8, <2>1, <2>4, <2>6, <2>7, <2>8, <2>9, <2>10, Zenon DEF KeyboardFits
<1>9. ASSUME ~x.selected PROVE KeyboardFits(h, y)
  <2>1. h.wire = <<>> /\ h.queue = <<>> /\ h = k
    BY <1>1, <1>5, <1>6, <1>9 DEF KeyboardFits, IsKeyboard, h
  <2>2. y.missed = x.missed \cup ({"layouts"} \cap x.read)
    BY <1>2, <1>9 DEF Follows
  <2>3. ReadFits(h, y)
    BY <1>2, <1>7, <2>1, <2>2 DEF KeyboardFits, ReadFits
  <2>. QED BY <1>7, <1>9, <2>1, <2>3, Zenon DEF KeyboardFits
<1>. QED BY <1>2, <1>8, <1>9 DEF h, w, y

\* Another keyboard.
LEMMA NewKeyboardFits ==
  ASSUME KeyboardInv, NewKeyboard
  PROVE  KeyboardInv'
<1>. DEFINE x(text) == Relaid(xserver, text)
            w(text) == Told(keyboard.wire, x(text))
            l(text) == [x(text).locks EXCEPT !.group = @ % GroupCount(text)]
            b(text) == Becomes(x(text), w(text), l(text))
<1>1. PICK text \in Layouts \ {xserver.layouts} :
        xserver' = b(text).x /\ keyboard' = [keyboard EXCEPT !.wire = b(text).wire]
  BY Zenon DEF NewKeyboard, Relaid, Told
<1>. DEFINE k == [keyboard EXCEPT !.wire = w(text)]
<1>2. KeyboardFits(keyboard, xserver) /\ text \in Layouts
  BY DEF KeyboardInv
<1>3. KeyboardFits(k, x(text)) /\ x(text).locks = xserver.locks
  BY <1>2, NewLayouts
<1>4. l(text) \in Locks
  <2>1. GroupCount(text) \in Nat \ {0}
    BY <1>2, GroupCountType
  <2>2. xserver.locks \in Locks
    BY <1>2 DEF KeyboardFits, Servers
  <2>3. xserver.locks.group % GroupCount(text) \in Nat
    BY <2>1, <2>2 DEF Locks
  <2>. HIDE DEF x
  <2>. QED BY <1>3, <2>2, <2>3 DEF Locks
<1>. HIDE DEF x, l
<1>5. k.wire = w(text) /\ x(text) \in Servers
  <2>1. k.wire = w(text)
    BY <1>2 DEF KeyboardFits, IsKeyboard
  <2>. QED BY <1>3, <2>1 DEF KeyboardFits
<1>6. Became(b(text), x(text), k.wire, l(text))
  BY <1>4, <1>5, BecomesIs
<1>7. [k EXCEPT !.wire = b(text).wire] = [keyboard EXCEPT !.wire = b(text).wire]
  BY <1>2 DEF KeyboardFits, IsKeyboard
<1>. HIDE DEF k, b
<1>8. KeyboardFits([k EXCEPT !.wire = b(text).wire], b(text).x)
  BY <1>3, <1>4, <1>6, NewLocks
<1>. QED BY <1>1, <1>7, <1>8 DEF KeyboardInv

\* The length of a list made place by place.
LEMMA LengthOf ==
  ASSUME NEW n \in Nat, NEW f, f = [i \in 1 .. n |-> f[i]]
  PROVE  Len(f) = n
<1>. DEFINE S == {f[i] : i \in 1 .. n}
<1>1. f \in [1 .. n -> S]
  <2>1. \A i \in 1 .. n : f[i] \in S
    OBVIOUS
  <2>. HIDE DEF S
  <2>. QED BY <2>1
<1>. HIDE DEF S
<1>. QED BY <1>1

\* The layouts as they are read: all that arrived on the wire waits in the queue.
Reread(h, k, x) ==
  /\ IsKeyboard(h) /\ h.wire = <<>> /\ h.queue = k.queue \o k.wire /\ h.pc = k.pc
  /\ h.platform = k.platform /\ h.enabled = k.enabled /\ h.copy = k.copy /\ h.mask = k.mask
  /\ h.notifier = k.notifier /\ Len(h.layouts) = GroupCount(x.layouts)

\* A keyboard all of whose events wait in the queue.
Requeued(h, k, q) ==
  /\ IsKeyboard(h) /\ h.wire = <<>> /\ h.queue = q /\ h.pc = k.pc /\ h.platform = k.platform
  /\ h.enabled = k.enabled /\ h.copy = k.copy /\ h.mask = k.mask /\ h.notifier = k.notifier
  /\ h.layouts = k.layouts

\* All that is there waits in the queue.
LEMMA WithQueue ==
  ASSUME NEW k, IsKeyboard(k), NEW q \in Seq(Notices)
  PROVE  Requeued([k EXCEPT !.queue = q, !.wire = <<>>], k, q)
<1>1. <<>> \in Seq(Notices)
  OBVIOUS
<1>2. ASSUME NEW h, h = [k EXCEPT !.queue = q, !.wire = <<>>]
      PROVE  Requeued(h, k, q)
  BY <1>1, <1>2 DEF IsKeyboard, Requeued
<1>. QED BY <1>2, Zenon

\* Other layouts.
LEMMA WithLayouts ==
  ASSUME NEW k, IsKeyboard(k), NEW f, Len(f) \in Nat, NEW h, h = [k EXCEPT !.layouts = f]
  PROVE  /\ IsKeyboard(h) /\ h.wire = k.wire /\ h.queue = k.queue /\ h.pc = k.pc /\ h.platform = k.platform
         /\ h.enabled = k.enabled /\ h.copy = k.copy /\ h.mask = k.mask /\ h.notifier = k.notifier
         /\ h.layouts = f
BY DEF IsKeyboard

\* A KeyboardLayout for each layout of the keyboard.
LEMMA InitLayoutsIs ==
  ASSUME NEW k, IsKeyboard(k), xserver.layouts \in Layouts
  PROVE  Reread(InitLayouts(k), k, xserver)
<1>. DEFINE short == ParseShortNames(xserver.layouts)
            n == GroupCount(xserver.layouts)
            f == [i \in 1 .. n |-> IF i <= Len(short) THEN short[i] ELSE ""]
            q == k.queue \o k.wire
<1>1. n \in Nat
  BY GroupCountType
<1>2. Len(f) = n
  <2>1. f = [i \in 1 .. n |-> f[i]]
    OBVIOUS
  <2>. HIDE DEF f, n
  <2>. QED BY <1>1, <2>1, LengthOf
<1>3. q \in Seq(Notices) /\ <<>> \in Seq(Notices)
  <2>1. <<>> \in Seq(Notices)
    OBVIOUS
  <2>2. q \in Seq(Notices)
    BY Queues, Zenon
  <2>. QED BY <2>1, <2>2
<1>. DEFINE g == [k EXCEPT !.queue = q, !.wire = <<>>]
            h == [g EXCEPT !.layouts = f]
<1>4. InitLayouts(k) = h
  BY Zenon DEF InitLayouts, Reply
<1>. HIDE DEF f, n, q
<1>5. Len(f) \in Nat
  BY <1>1, <1>2
<1>6. /\ IsKeyboard(g) /\ g.wire = <<>> /\ g.queue = q /\ g.pc = k.pc /\ g.platform = k.platform
      /\ g.enabled = k.enabled /\ g.copy = k.copy /\ g.mask = k.mask /\ g.notifier = k.notifier
  <2>1. Requeued(g, k, q)
    BY <1>3, WithQueue, Zenon
  <2>. HIDE DEF g
  <2>. QED BY <2>1 DEF Requeued
<1>. HIDE DEF g
<1>7. /\ IsKeyboard(h) /\ h.wire = g.wire /\ h.queue = g.queue /\ h.pc = g.pc /\ h.platform = g.platform
      /\ h.enabled = g.enabled /\ h.copy = g.copy /\ h.mask = g.mask /\ h.notifier = g.notifier
      /\ h.layouts = f
  BY <1>5, <1>6, WithLayouts
<1>. HIDE DEF h
<1>8. Reread(h, k, xserver)
  BY <1>2, <1>6, <1>7 DEF Reread, n, q
<1>. QED BY <1>4, <1>8

\* What init and connectEventsDispatcher have read is kept up until they are done.
LEMMA ConstructorFits ==
  ASSUME KeyboardInv, KeyboardConstructor
  PROVE  KeyboardInv'
<1>. DEFINE k == keyboard
            x == xserver
<1>1. KeyboardFits(k, x) /\ IsKeyboard(k) /\ x \in Servers
  BY DEF KeyboardInv, KeyboardFits
<1>2. /\ k.pc \in {"connect", "leds", "layouts", "state", "select"} /\ k.platform = "xcb"
      /\ ~x.selected /\ k.wire = <<>> /\ k.queue = <<>>
  <2>1. k.pc \in {"connect", "leds", "layouts", "state", "select"}
    BY Zenon DEF KeyboardConstructor, ConnectToDisplay, InitLedMap, FirstLayouts, InitState, ConnectEventsDispatcher
  <2>. QED BY <1>1, <2>1 DEF KeyboardFits
<1>3. ASSUME NEW h, NEW y, IsKeyboard(h), y \in Servers, ~h.notifier, ~y.selected, h.platform = "xcb",
             h.wire = <<>>, h.queue = <<>>, ReadFits(h, y)
      PROVE  KeyboardFits(h, y)
  BY <1>3, Zenon DEF KeyboardFits
<1>4. ~k.notifier
  BY <1>1, <1>2 DEF KeyboardFits
<1>. HIDE DEF k, x
<1>5. ASSUME keyboard' = Disable(k), xserver' = x
      PROVE  KeyboardFits(keyboard', xserver')
  <2>1. /\ IsKeyboard(keyboard') /\ ~keyboard'.notifier /\ keyboard'.platform = "xcb"
        /\ keyboard'.wire = <<>> /\ keyboard'.queue = <<>> /\ ~keyboard'.enabled /\ keyboard'.pc = "select"
    BY <1>1, <1>2, <1>4, <1>5 DEF Disable, IsKeyboard, Steps
  <2>2. ReadFits(keyboard', xserver')
    BY <2>1 DEF ReadFits
  <2>. QED BY <1>1, <1>2, <1>3, <1>5, <2>1, <2>2
<1>6. ASSUME ConnectToDisplay PROVE KeyboardFits(keyboard', xserver')
  <2>1. CASE keyboard' = [k EXCEPT !.pc = "leds"]
    <3>1. /\ IsKeyboard(keyboard') /\ ~keyboard'.notifier /\ keyboard'.platform = "xcb"
          /\ keyboard'.wire = <<>> /\ keyboard'.queue = <<>> /\ keyboard'.pc = "leds"
      BY <1>1, <1>2, <1>4, <2>1 DEF IsKeyboard, Steps
    <3>2. xserver' = x
      BY <1>6 DEF ConnectToDisplay, x
    <3>3. ReadFits(keyboard', xserver')
      BY <3>1 DEF ReadFits
    <3>. QED BY <1>1, <1>2, <1>3, <3>1, <3>2, <3>3
  <2>. QED BY <1>5, <1>6, <2>1 DEF ConnectToDisplay, k, x
<1>7. ASSUME InitLedMap PROVE KeyboardFits(keyboard', xserver')
  <2>1. CASE keyboard' = [k EXCEPT !.pc = "layouts", !.mask = x.leds]
    <3>1. x.leds \in Masks
      BY <1>1 DEF Servers
    <3>2. /\ IsKeyboard(keyboard') /\ ~keyboard'.notifier /\ keyboard'.platform = "xcb"
          /\ keyboard'.wire = <<>> /\ keyboard'.queue = <<>> /\ keyboard'.pc = "layouts"
      BY <1>1, <1>2, <1>4, <2>1, <3>1 DEF IsKeyboard, Steps
    <3>3. xserver' = x
      BY <1>7 DEF InitLedMap, x
    <3>4. ReadFits(keyboard', xserver')
      BY <3>2 DEF ReadFits
    <3>. QED BY <1>1, <1>2, <1>3, <3>2, <3>3, <3>4
  <2>. QED BY <1>5, <1>7, <2>1 DEF InitLedMap, k, x
<1>8. ASSUME FirstLayouts PROVE KeyboardFits(keyboard', xserver')
  <2>1. keyboard' = [InitLayouts(k) EXCEPT !.pc = "state"] /\ xserver' = [x EXCEPT !.read = {"layouts"}]
    BY <1>8 DEF FirstLayouts, k, x
  <2>2. Reread(InitLayouts(k), k, x)
    BY <1>1, InitLayoutsIs DEF Servers, x
  <2>3. <<>> \o <<>> = <<>>
    OBVIOUS
  <2>4. /\ IsKeyboard(keyboard') /\ ~keyboard'.notifier /\ keyboard'.platform = "xcb"
        /\ keyboard'.wire = <<>> /\ keyboard'.queue = <<>> /\ keyboard'.pc = "state"
        /\ Len(keyboard'.layouts) = GroupCount(x.layouts)
    BY <1>2, <1>4, <2>1, <2>2, <2>3 DEF Reread, IsKeyboard, Steps
  <2>5. xserver' \in Servers /\ ~xserver'.selected /\ xserver'.layouts = x.layouts /\ xserver'.read = {"layouts"}
    BY <1>1, <1>2, <2>1 DEF Servers, Parts
  <2>6. ReadFits(keyboard', xserver')
    BY <2>4, <2>5 DEF ReadFits
  <2>. QED BY <1>3, <2>4, <2>5, <2>6
<1>9. ASSUME InitState PROVE KeyboardFits(keyboard', xserver')
  <2>1. CASE /\ keyboard' = [k EXCEPT !.pc = "select", !.copy = Seen(k.mask, x.locks)]
             /\ xserver' = [x EXCEPT !.read = @ \cup {"locks"}]
    <3>1. x.locks \in Locks /\ k.mask \in Masks /\ x.read \in SUBSET Parts
      BY <1>1 DEF Servers, IsKeyboard
    <3>2. Seen(k.mask, x.locks) \in Locks /\ Agree(k.mask, Seen(k.mask, x.locks), x.locks)
      BY <3>1 DEF Seen, Agree, Locks, Masks
    <3>3. /\ IsKeyboard(keyboard') /\ ~keyboard'.notifier /\ keyboard'.platform = "xcb"
          /\ keyboard'.wire = <<>> /\ keyboard'.queue = <<>> /\ keyboard'.pc = "select"
          /\ keyboard'.layouts = k.layouts /\ keyboard'.mask = k.mask
          /\ keyboard'.copy = Seen(k.mask, x.locks)
      BY <1>1, <1>2, <1>4, <2>1, <3>2 DEF IsKeyboard, Steps
    <3>4. /\ xserver' \in Servers /\ ~xserver'.selected /\ xserver'.layouts = x.layouts
          /\ xserver'.locks = x.locks /\ xserver'.missed = x.missed /\ xserver'.read = x.read \cup {"locks"}
      BY <1>1, <1>2, <2>1, <3>1 DEF Servers, Parts
    <3>5. "layouts" \in x.read /\ ("layouts" \in x.missed \/ Len(k.layouts) = GroupCount(x.layouts))
      BY <1>1, <1>9 DEF InitState, KeyboardFits, ReadFits, k
    <3>6. ReadFits(keyboard', xserver')
      BY <3>2, <3>3, <3>4, <3>5 DEF ReadFits
    <3>. QED BY <1>3, <3>3, <3>4, <3>6
  <2>. QED BY <1>5, <1>9, <2>1 DEF InitState, k, x
<1>10. ASSUME ConnectEventsDispatcher PROVE KeyboardFits(keyboard', xserver')
  <2>1. CASE /\ k.enabled /\ keyboard' = [k EXCEPT !.pc = "ready", !.notifier = TRUE]
             /\ xserver' = [x EXCEPT !.selected = TRUE]
    <3>1. /\ IsKeyboard(keyboard') /\ keyboard'.platform = "xcb" /\ keyboard'.wire = <<>>
          /\ keyboard'.queue = <<>> /\ keyboard'.pc = "ready" /\ keyboard'.layouts = k.layouts
          /\ keyboard'.mask = k.mask /\ keyboard'.copy = k.copy
      BY <1>1, <1>2, <2>1 DEF IsKeyboard, Steps
    <3>2. /\ xserver' \in Servers /\ xserver'.selected /\ xserver'.layouts = x.layouts
          /\ xserver'.locks = x.locks /\ xserver'.missed = x.missed
      BY <1>1, <2>1 DEF Servers
    <3>3. /\ "layouts" \in x.missed \/ Len(k.layouts) = GroupCount(x.layouts)
          /\ "locks" \in x.missed \/ Agree(k.mask, k.copy, x.locks)
      BY <1>1, <1>10, <2>1 DEF ConnectEventsDispatcher, KeyboardFits, ReadFits, k
    <3>4. keyboard'.queue \o keyboard'.wire = <<>>
      BY <3>1
    <3>5. LocksFit(<<>>, keyboard', xserver') /\ LayoutsFit(<<>>, keyboard', xserver')
      <4>1. Len(<<>>) = 0 /\ 1 .. 0 = {}
        OBVIOUS
      <4>2. LocksFit(<<>>, keyboard', xserver')
        BY <3>1, <3>2, <3>3, <4>1 DEF LocksFit
      <4>3. LayoutsFit(<<>>, keyboard', xserver')
        BY <3>1, <3>2, <3>3 DEF LayoutsFit
      <4>. QED BY <4>2, <4>3
    <3>6. ReadFits(keyboard', xserver')
      BY <3>1 DEF ReadFits
    <3>. QED BY <3>1, <3>2, <3>4, <3>5, <3>6 DEF KeyboardFits
  <2>2. ASSUME \/ keyboard' = [k EXCEPT !.pc = "ready", !.enabled = FALSE]
               \/ keyboard' = [k EXCEPT !.pc = "ready"],
               xserver' = x
        PROVE  KeyboardFits(keyboard', xserver')
    <3>1. /\ IsKeyboard(keyboard') /\ ~keyboard'.notifier /\ keyboard'.platform = "xcb"
          /\ keyboard'.wire = <<>> /\ keyboard'.queue = <<>> /\ keyboard'.pc = "ready"
      BY <1>1, <1>2, <1>4, <2>2 DEF IsKeyboard, Steps
    <3>2. ReadFits(keyboard', xserver')
      BY <3>1 DEF ReadFits
    <3>. QED BY <1>1, <1>2, <1>3, <2>2, <3>1, <3>2
  <2>3. \/ /\ k.enabled /\ keyboard' = [k EXCEPT !.pc = "ready", !.notifier = TRUE]
           /\ xserver' = [x EXCEPT !.selected = TRUE]
        \/ (keyboard' = [k EXCEPT !.pc = "ready", !.enabled = FALSE] /\ xserver' = x)
        \/ (keyboard' = [k EXCEPT !.pc = "ready"] /\ xserver' = x)
    BY <1>10 DEF ConnectEventsDispatcher, k, x
  <2>. QED BY <2>1, <2>2, <2>3, Zenon
<1>11. KeyboardFits(keyboard', xserver')
  BY <1>6, <1>7, <1>8, <1>9, <1>10, Zenon DEF KeyboardConstructor
<1>. QED BY <1>11 DEF KeyboardInv

\* The locks and the layout the greeter asks for.
Asked(l) ==
  [num |-> IF keyboard.mask.num THEN l.num ELSE xserver.locks.num,
   caps |-> IF keyboard.mask.caps THEN l.caps ELSE xserver.locks.caps,
   group |-> l.group % GroupCount(xserver.layouts)]

\* What is asked for agrees with the copy, or the layout is gone.
LEMMA AskedIs ==
  ASSUME KeyboardInv, NEW l \in Locks
  PROVE  /\ Asked(l) \in Locks /\ Wrapped(xserver, l) \in Servers
         /\ Wrapped(xserver, l).locks = xserver.locks /\ Wrapped(xserver, l).layouts = xserver.layouts
         /\ Wrapped(xserver, l).selected = xserver.selected
         /\ \A part \in xserver.missed : part \in Wrapped(xserver, l).missed
         /\ "locks" \in Wrapped(xserver, l).missed \/ Agree(keyboard.mask, l, Asked(l))
<1>. DEFINE n == GroupCount(xserver.layouts)
<1>1. xserver \in Servers /\ xserver.layouts \in Layouts /\ xserver.locks \in Locks /\ xserver.missed \in SUBSET Parts
  BY DEF KeyboardInv, KeyboardFits, Servers
<1>2. n \in Nat \ {0} /\ l.group \in Nat
  BY <1>1, GroupCountType DEF Locks
<1>. HIDE DEF n
<1>3. l.group % n \in Nat /\ (l.group < n => l.group % n = l.group)
  BY <1>2
<1>4. Asked(l) \in Locks
  <2>1. keyboard.mask \in Masks
    BY DEF KeyboardInv, KeyboardFits, IsKeyboard
  <2>. QED BY <1>1, <1>3, <2>1 DEF Asked, Locks, Masks, n
<1>5. Wrapped(xserver, l) =
        [xserver EXCEPT !.missed = IF l.group < n THEN xserver.missed ELSE xserver.missed \cup {"locks"}]
  BY DEF Wrapped, n
<1>6. (IF l.group < n THEN xserver.missed ELSE xserver.missed \cup {"locks"}) \in SUBSET Parts
  BY <1>1 DEF Parts
<1>7. /\ Wrapped(xserver, l) \in Servers
      /\ Wrapped(xserver, l).locks = xserver.locks /\ Wrapped(xserver, l).layouts = xserver.layouts
      /\ Wrapped(xserver, l).selected = xserver.selected
      /\ Wrapped(xserver, l).missed = IF l.group < n THEN xserver.missed ELSE xserver.missed \cup {"locks"}
  BY <1>1, <1>5, <1>6 DEF Servers
<1>8. l.group < n => Agree(keyboard.mask, l, Asked(l))
  BY <1>3 DEF Agree, Asked, n
<1>. QED BY <1>4, <1>7, <1>8

\* What the greeter sets is what it holds, and the server tells or has it already.
LEMMA SetFits ==
  ASSUME KeyboardInv, NEW l \in Locks, Set(l)
  PROVE  KeyboardInv'
<1>. DEFINE k == keyboard
            x == xserver
            z == Wrapped(xserver, l)
            to == Asked(l)
            b == Becomes(z, keyboard.wire, to)
            e == StateNotify(to)
            p == k.queue \o k.wire
<1>1. KeyboardFits(k, x) /\ IsKeyboard(k) /\ x \in Servers /\ k.pc = "ready"
  BY DEF KeyboardInv, KeyboardFits, Set
<1>2. CASE k.platform # "xcb"
  <2>1. keyboard' = [k EXCEPT !.copy = l] /\ xserver' = x
    BY <1>2 DEF Set
  <2>2. ~x.selected /\ k.wire = <<>> /\ k.queue = <<>> /\ ~k.notifier
    BY <1>1, <1>2 DEF KeyboardFits
  <2>. HIDE DEF k, x
  <2>3. /\ IsKeyboard(keyboard') /\ ~keyboard'.notifier /\ keyboard'.wire = <<>>
        /\ keyboard'.queue = <<>> /\ keyboard'.pc = "ready"
    BY <1>1, <2>1, <2>2 DEF IsKeyboard
  <2>4. ReadFits(keyboard', xserver')
    BY <2>3 DEF ReadFits
  <2>. QED BY <1>1, <2>1, <2>2, <2>3, <2>4 DEF KeyboardInv, KeyboardFits
<1>3. CASE k.platform = "xcb"
  <2>1. /\ to \in Locks /\ z \in Servers /\ z.locks = x.locks /\ z.layouts = x.layouts
        /\ z.selected = x.selected /\ \A part \in x.missed : part \in z.missed
        /\ "locks" \in z.missed \/ Agree(k.mask, l, to)
    BY AskedIs
  <2>2. Became(b, z, k.wire, to)
    BY <2>1, BecomesIs
  <2>3. xserver' = b.x /\ keyboard' = [k EXCEPT !.copy = l, !.wire = b.wire, !.pc = "checking"]
    BY <1>3, Zenon DEF Set, SendChanges, Asked
  <2>4. e \in Notices
    BY <2>1 DEF StateNotify, Notices
  <2>5. /\ p \in Seq(Notices) /\ k.queue \o Append(k.wire, e) = Append(p, e)
        /\ k.wire \in Seq(Notices) /\ Append(k.wire, e) \in Seq(Notices)
    BY <1>1, <2>4, Queues
  <2>. HIDE DEF k, x, z, to, b, e
  <2>6. b.wire \in Seq(Notices) /\ b.x \in Servers /\ b.x.selected = x.selected /\ b.x.layouts = x.layouts /\ b.x.locks = to
    BY <2>1, <2>2, <2>5 DEF Became, Follows, e
  <2>7. /\ IsKeyboard(keyboard') /\ keyboard'.notifier = k.notifier /\ keyboard'.wire = b.wire
        /\ keyboard'.queue = k.queue /\ keyboard'.pc = "checking" /\ keyboard'.copy = l
        /\ keyboard'.mask = k.mask /\ keyboard'.layouts = k.layouts /\ keyboard'.platform = k.platform
    BY <1>1, <2>3, <2>6 DEF IsKeyboard, Steps
  <2>8. ReadFits(keyboard', xserver')
    BY <2>7 DEF ReadFits
  <2>9. ASSUME x.selected
        PROVE  LocksFit(keyboard'.queue \o keyboard'.wire, keyboard', b.x)
               /\ LayoutsFit(keyboard'.queue \o keyboard'.wire, keyboard', b.x)
    <3>1. LocksFit(p, k, x) /\ LayoutsFit(p, k, x)
      BY <1>1, <2>9 DEF KeyboardFits
    <3>. HIDE DEF p
    <3>2. CASE b.x = z /\ b.wire = k.wire
      <4>1. keyboard'.queue \o keyboard'.wire = p
        BY <2>7, <3>2 DEF p
      <4>2. LayoutsFit(p, keyboard', b.x)
        BY <2>1, <2>7, <3>1, <3>2, LayoutsFitSame
      <4>3. CASE \E i \in 1 .. Len(p) : /\ p[i].type = "StateNotify" /\ p[i].locks = x.locks
                                        /\ \A j \in i + 1 .. Len(p) : p[j].type # "StateNotify"
        BY <2>1, <3>2, <4>1, <4>2, <4>3, Zenon DEF LocksFit
      <4>4. CASE \A i \in 1 .. Len(p) : p[i].type # "StateNotify"
        <5>1. "locks" \in b.x.missed \/ Agree(keyboard'.mask, keyboard'.copy, b.x.locks)
          BY <2>1, <2>6, <2>7, <3>2, Zenon
        <5>. QED BY <4>1, <4>2, <4>4, <5>1, Zenon DEF LocksFit
      <4>. QED BY <3>1, <4>3, <4>4, Zenon DEF LocksFit
    <3>3. CASE Follows(b.x, z, "locks") /\ b.wire = Append(k.wire, e)
      <4>1. keyboard'.queue \o keyboard'.wire = Append(p, e)
        BY <2>5, <2>7, <3>3 DEF p
      <4>2. LocksFit(Append(p, e), keyboard', b.x)
        BY <2>4, <2>5, <2>6, FitAppend DEF e
      <4>3. "layouts" \in x.missed => "layouts" \in b.x.missed
        BY <2>1, <2>9, <3>3 DEF Follows
      <4>4. LayoutsFit(Append(p, e), k, b.x)
        BY <2>4, <2>5, <2>6, <3>1, <4>3, FitAppend
      <4>5. LayoutsFit(Append(p, e), keyboard', b.x)
        BY <2>7, <4>4, LayoutsFitSame
      <4>. QED BY <4>1, <4>2, <4>5
    <3>. QED BY <2>1, <2>2, <2>9, <3>2, <3>3, Zenon DEF Became, e
  <2>10. ~x.selected => keyboard'.wire = <<>> /\ keyboard'.queue = <<>>
    BY <1>1, <2>1, <2>2, <2>7 DEF Became, KeyboardFits
  <2>11. k.notifier => x.selected
    BY <1>1 DEF KeyboardFits
  <2>. QED BY <1>3, <2>3, <2>6, <2>7, <2>8, <2>9, <2>10, <2>11 DEF KeyboardInv, KeyboardFits
<1>. QED BY <1>2, <1>3

\* The theme's buttons and the configured num lock set a state of the model.
LEMMA SettersFit ==
  ASSUME KeyboardInv, ThemeSets \/ (SetNumlock /\ ~UNCHANGED kbVars)
  PROVE  KeyboardInv'
<1>1. keyboard.copy \in Locks /\ Len(keyboard.layouts) \in Nat
  BY DEF KeyboardInv, KeyboardFits, IsKeyboard
<1>2. CASE ThemeSets
  <2>1. PICK l \in {[keyboard.copy EXCEPT !.num = ~@], [keyboard.copy EXCEPT !.caps = ~@]}
               \cup {[keyboard.copy EXCEPT !.group = i] : i \in 0 .. Len(keyboard.layouts) - 1} : Set(l)
    BY <1>2, Zenon DEF ThemeSets
  <2>2. l \in Locks
    <3>1. CASE l = [keyboard.copy EXCEPT !.num = ~@] \/ l = [keyboard.copy EXCEPT !.caps = ~@]
      BY <1>1, <3>1 DEF Locks
    <3>2. CASE \E i \in 0 .. Len(keyboard.layouts) - 1 : l = [keyboard.copy EXCEPT !.group = i]
      <4>1. PICK i \in 0 .. Len(keyboard.layouts) - 1 : l = [keyboard.copy EXCEPT !.group = i]
        BY <3>2
      <4>2. i \in Nat
        BY <1>1
      <4>. QED BY <1>1, <4>1, <4>2 DEF Locks
    <3>. QED BY <2>1, <3>1, <3>2
  <2>. QED BY <2>1, <2>2, SetFits
<1>3. CASE SetNumlock /\ ~UNCHANGED kbVars
  <2>. DEFINE wanted == [keyboard.copy EXCEPT !.num = keyboard.numlock = "on"]
  <2>1. Set(wanted)
    BY <1>3, Zenon DEF SetNumlock
  <2>2. wanted \in Locks
    BY <1>1 DEF Locks
  <2>. HIDE DEF wanted
  <2>. QED BY <2>1, <2>2, SetFits
<1>. QED BY <1>2, <1>3

\* What arrived with a reply waits in the queue.
LEMMA CheckedFits ==
  ASSUME KeyboardInv, Checked
  PROVE  KeyboardInv'
<1>. DEFINE k == keyboard
            x == xserver
            p == k.queue \o k.wire
            h == [k EXCEPT !.queue = p, !.wire = <<>>]
<1>1. KeyboardFits(k, x) /\ IsKeyboard(k) /\ x \in Servers /\ k.pc = "checking" /\ xserver' = x
  BY DEF KeyboardInv, KeyboardFits, Checked
<1>2. keyboard' = [h EXCEPT !.pc = "ready"]
  BY Zenon DEF Checked, Reply
<1>3. p \in Seq(Notices) /\ p \o <<>> = p
  BY <1>1, Queues
<1>. HIDE DEF k, x, p
<1>4. Requeued(h, k, p)
  BY <1>1, <1>3, WithQueue, Zenon
<1>. HIDE DEF h
<1>5. /\ IsKeyboard(keyboard') /\ keyboard'.notifier = k.notifier /\ keyboard'.wire = <<>>
      /\ keyboard'.queue = p /\ keyboard'.pc = "ready" /\ keyboard'.copy = k.copy
      /\ keyboard'.mask = k.mask /\ keyboard'.layouts = k.layouts /\ keyboard'.platform = k.platform
  BY <1>2, <1>4 DEF Requeued, IsKeyboard, Steps
<1>6. ReadFits(keyboard', xserver')
  BY <1>5 DEF ReadFits
<1>7. keyboard'.queue \o keyboard'.wire = p
  BY <1>3, <1>5
<1>8. ASSUME x.selected
      PROVE  LocksFit(p, keyboard', x) /\ LayoutsFit(p, keyboard', x)
  <2>1. LocksFit(p, k, x) /\ LayoutsFit(p, k, x)
    BY <1>1, <1>8 DEF KeyboardFits, p
  <2>. QED BY <1>5, <2>1, LocksFitSame, LayoutsFitSame
<1>9. ~x.selected => p = <<>>
  BY <1>1 DEF KeyboardFits, p
<1>10. (k.notifier => x.selected) /\ (x.selected => k.platform = "xcb")
  BY <1>1 DEF KeyboardFits
<1>. QED BY <1>1, <1>5, <1>6, <1>7, <1>8, <1>9, <1>10 DEF KeyboardInv, KeyboardFits

\* The last of the states that arrived is the one to be taken.
LEMMA LastState ==
  ASSUME NEW p \in Seq(Notices), NEW l,
         NEW I, I = {i \in DOMAIN p : p[i].type = "StateNotify"}, I # {},
         \E i \in 1 .. Len(p) : /\ p[i].type = "StateNotify" /\ p[i].locks = l
                                /\ \A j \in i + 1 .. Len(p) : p[j].type # "StateNotify"
  PROVE  p[Max(I)].locks = l
<1>1. Len(p) \in Nat /\ DOMAIN p = 1 .. Len(p)
  BY LenProperties
<1>2. PICK i \in 1 .. Len(p) : /\ p[i].type = "StateNotify" /\ p[i].locks = l
                               /\ \A j \in i + 1 .. Len(p) : p[j].type # "StateNotify"
  OBVIOUS
<1>3. i \in I /\ I \subseteq 1 .. Len(p) /\ \A j \in I : j <= i
  <2>1. \A j \in I : ~(j \in i + 1 .. Len(p))
    BY <1>1, <1>2
  <2>. QED BY <1>1, <1>2, <2>1
<1>4. Max(I) \in I /\ \A j \in I : Max(I) >= j
  <2>1. \E m \in I : \A j \in I : m >= j
    BY <1>3
  <2>. QED BY <2>1 DEF Max
<1>5. Max(I) = i
  <2>1. Max(I) \in Nat /\ i \in Nat
    BY <1>1, <1>3, <1>4
  <2>2. Max(I) <= i /\ i <= Max(I)
    BY <1>3, <1>4, <2>1
  <2>. QED BY <2>1, <2>2
<1>. QED BY <1>2, <1>5

\* The copy after all events is what the locks are, and the layouts are as they are.
LEMMA DispatchFits ==
  ASSUME KeyboardInv, DispatchEvents
  PROVE  KeyboardInv'
<1>. DEFINE x == xserver
            p == keyboard.queue \o keyboard.wire
            Of(type) == {i \in DOMAIN p : p[i].type = type}
            k == IF Of("NewKeyboardNotify") = {} THEN keyboard ELSE InitLayouts(keyboard)
            I == Of("StateNotify")
            copy == IF I = {} THEN k.copy ELSE Seen(k.mask, p[Max(I)].locks)
<1>1. /\ KeyboardFits(keyboard, x) /\ IsKeyboard(keyboard) /\ x \in Servers /\ keyboard.pc = "ready"
      /\ keyboard.notifier /\ x.selected /\ xserver' = x /\ keyboard.platform = "xcb"
  BY DEF KeyboardInv, KeyboardFits, DispatchEvents
<1>2. keyboard' = [k EXCEPT !.copy = copy, !.wire = <<>>, !.queue = <<>>]
  BY Zenon DEF DispatchEvents
<1>3. p \in Seq(Notices) /\ LocksFit(p, keyboard, x) /\ LayoutsFit(p, keyboard, x)
  BY <1>1, Queues DEF KeyboardFits
<1>4. Len(p) \in Nat /\ DOMAIN p = 1 .. Len(p)
  BY <1>3, LenProperties
<1>5. Reread(InitLayouts(keyboard), keyboard, x)
  BY <1>1, InitLayoutsIs DEF Servers
<1>. HIDE DEF x, p
<1>6. /\ IsKeyboard(k) /\ k.pc = "ready" /\ k.platform = "xcb" /\ k.copy = keyboard.copy
      /\ k.mask = keyboard.mask /\ k.notifier = keyboard.notifier
      /\ "layouts" \in x.missed \/ Len(k.layouts) = GroupCount(x.layouts)
  <2>1. CASE Of("NewKeyboardNotify") = {}
    <3>1. \A i \in 1 .. Len(p) : p[i].type # "NewKeyboardNotify"
      BY <1>4, <2>1
    <3>2. k = keyboard
      BY <2>1
    <3>. HIDE DEF k
    <3>. QED BY <1>1, <1>3, <3>1, <3>2 DEF LayoutsFit
  <2>2. CASE Of("NewKeyboardNotify") # {}
    <3>1. k = InitLayouts(keyboard)
      BY <2>2
    <3>. HIDE DEF k
    <3>. QED BY <1>1, <1>5, <3>1 DEF Reread
  <2>. QED BY <2>1, <2>2
<1>. HIDE DEF k
<1>7. copy \in Locks /\ ("locks" \in x.missed \/ Agree(k.mask, copy, x.locks))
  <2>1. x.locks \in Locks /\ k.mask \in Masks /\ k.copy \in Locks
    BY <1>1, <1>6 DEF Servers, IsKeyboard
  <2>2. CASE I = {}
    <3>1. copy = k.copy /\ \A i \in 1 .. Len(p) : p[i].type # "StateNotify"
      BY <1>4, <2>2
    <3>2. "locks" \in x.missed \/ Agree(keyboard.mask, keyboard.copy, x.locks)
      BY <1>3, <3>1, Zenon DEF LocksFit
    <3>. QED BY <1>6, <2>1, <3>1, <3>2
  <2>3. CASE I # {}
    <3>1. \E i \in 1 .. Len(p) : p[i].type = "StateNotify"
      BY <1>4, <2>3
    <3>2. \E i \in 1 .. Len(p) : /\ p[i].type = "StateNotify" /\ p[i].locks = x.locks
                                 /\ \A j \in i + 1 .. Len(p) : p[j].type # "StateNotify"
      BY <1>3, <3>1, Zenon DEF LocksFit
    <3>3. p[Max(I)].locks = x.locks
      BY <1>3, <2>3, <3>2, LastState
    <3>4. copy = Seen(k.mask, x.locks)
      BY <2>3, <3>3
    <3>. HIDE DEF copy, I
    <3>. QED BY <2>1, <3>4 DEF Seen, Agree, Locks, Masks
  <2>. QED BY <2>2, <2>3
<1>. HIDE DEF copy
<1>8. /\ IsKeyboard(keyboard') /\ keyboard'.notifier /\ keyboard'.wire = <<>> /\ keyboard'.queue = <<>>
      /\ keyboard'.pc = "ready" /\ keyboard'.copy = copy /\ keyboard'.mask = k.mask
      /\ keyboard'.layouts = k.layouts /\ keyboard'.platform = "xcb"
  <2>1. <<>> \in Seq(Notices)
    OBVIOUS
  <2>. QED BY <1>1, <1>2, <1>6, <1>7, <2>1 DEF IsKeyboard
<1>9. keyboard'.queue \o keyboard'.wire = <<>>
  BY <1>8
<1>10. LocksFit(<<>>, keyboard', x) /\ LayoutsFit(<<>>, keyboard', x)
  <2>1. Len(<<>>) = 0 /\ 1 .. 0 = {}
    OBVIOUS
  <2>2. LocksFit(<<>>, keyboard', x)
    BY <1>7, <1>8, <2>1 DEF LocksFit
  <2>3. LayoutsFit(<<>>, keyboard', x)
    BY <1>6, <1>8 DEF LayoutsFit
  <2>. QED BY <2>2, <2>3
<1>11. ReadFits(keyboard', x)
  BY <1>8 DEF ReadFits
<1>. QED BY <1>1, <1>8, <1>9, <1>10, <1>11 DEF KeyboardInv, KeyboardFits

\* A greeter that starts has read nothing.
LEMMA FirstKeyboard ==
  ASSUME KeyboardInit
  PROVE  KeyboardInv
<1>1. PICK platform \in Platforms, text \in Layouts, numlock \in Numlock, leds \in [num : BOOLEAN, caps : {TRUE}] :
        /\ keyboard = [platform |-> platform, numlock |-> numlock,
                       pc |-> IF platform = "xcb" THEN "connect" ELSE "ready",
                       enabled |-> TRUE, copy |-> Off, layouts |-> <<>>,
                       mask |-> [num |-> FALSE, caps |-> FALSE],
                       wire |-> <<>>, queue |-> <<>>, notifier |-> FALSE]
        /\ xserver = [locks |-> Off, layouts |-> text, leds |-> leds,
                      selected |-> FALSE, read |-> {}, missed |-> {}]
  BY Zenon DEF KeyboardInit
<1>2. Off \in Locks /\ leds \in Masks /\ platform \in {"xcb", "wayland"}
  BY KeyboardAssumption DEF Off, Locks, Masks
<1>3. xserver \in Servers /\ ~xserver.selected
  BY <1>1, <1>2 DEF Servers
<1>4. /\ IsKeyboard(keyboard) /\ ~keyboard.notifier /\ keyboard.wire = <<>> /\ keyboard.queue = <<>>
      /\ keyboard.pc \in {"connect", "ready"} /\ (keyboard.pc = "connect" => keyboard.platform = "xcb")
  <2>1. <<>> \in Seq(Notices) /\ Len(<<>>) \in Nat
    OBVIOUS
  <2>. QED BY <1>1, <1>2, <2>1 DEF IsKeyboard, Steps, Masks
<1>5. ReadFits(keyboard, xserver)
  BY <1>4 DEF ReadFits
<1>. QED BY <1>3, <1>4, <1>5 DEF KeyboardInv, KeyboardFits

\* Every step keeps the copy fitting what is on its way.
LEMMA StepKeepsKeyboard ==
  ASSUME KeyboardInv, [Next]_vars
  PROVE  KeyboardInv'
<1>1. ASSUME UNCHANGED kbVars PROVE KeyboardInv'
  BY <1>1, Zenon DEF KeyboardInv, kbVars
<1>2. CASE Models
  <2>1. KeyboardConstructor \/ UNCHANGED kbVars
    BY <1>2, Zenon DEF Models
  <2>. QED BY <1>1, <2>1, ConstructorFits
<1>3. CASE SetNumlock
  BY <1>1, <1>3, SettersFit
<1>4. CASE UseKeyboard
  <2>1. Key \/ NewKeyboard \/ ThemeSets
    BY <1>4, Zenon DEF UseKeyboard
  <2>. QED BY <2>1, KeyFits, NewKeyboardFits, SettersFit
<1>5. CASE KeyboardLoop
  <2>1. Checked \/ DispatchEvents
    BY <1>5, Zenon DEF KeyboardLoop
  <2>. QED BY <2>1, CheckedFits, DispatchFits
<1>6. CASE \/ Proxy \/ CreateViews \/ GreeterReads \/ SocketDisconnected \/ ScreenAdded \/ ScreenRemoved
           \/ PrimaryChanged \/ Press \/ Signal \/ DaemonReads \/ DaemonAnswers \/ DaemonStops
           \/ UNCHANGED vars
  <2>1. UNCHANGED kbVars
    BY <1>6, Zenon DEF Proxy, CreateViews, GreeterReads, SocketDisconnected, ScreenAdded, ScreenRemoved,
       PrimaryChanged, Press, Signal, DaemonReads, DaemonAnswers, DaemonStops, vars, kbVars
  <2>. QED BY <1>1, <2>1
<1>. QED
  BY <1>2, <1>3, <1>4, <1>5, <1>6, Zenon DEF Next, Startup, Loop

\* With nothing on its way and nothing missed the copy is what the server has.
LEMMA FitsAgrees ==
  ASSUME KeyboardInv
  PROVE  KeyboardAgrees
<1>. SUFFICES ASSUME keyboard.notifier, keyboard.wire = <<>>, keyboard.queue = <<>>, xserver.missed = {}
              PROVE  /\ Len(keyboard.layouts) = GroupCount(xserver.layouts)
                     /\ keyboard.copy.group = xserver.locks.group
                     /\ keyboard.mask.num => keyboard.copy.num = xserver.locks.num
                     /\ keyboard.mask.caps => keyboard.copy.caps = xserver.locks.caps
  BY DEF KeyboardAgrees
<1>1. <<>> \o <<>> = <<>> /\ Len(<<>>) = 0 /\ 1 .. 0 = {}
  OBVIOUS
<1>2. LocksFit(<<>>, keyboard, xserver) /\ LayoutsFit(<<>>, keyboard, xserver)
  BY <1>1 DEF KeyboardInv, KeyboardFits
<1>3. Agree(keyboard.mask, keyboard.copy, xserver.locks)
  BY <1>1, <1>2 DEF LocksFit
<1>4. Len(keyboard.layouts) = GroupCount(xserver.layouts)
  BY <1>1, <1>2 DEF LayoutsFit
<1>. QED BY <1>3, <1>4 DEF Agree

-----------------------------------------------------------------------------
(* The theorems *)

\* The three parts hold in every state of the greeter and the daemon.
THEOREM GreeterKept == Spec => []GreeterInv
<1>1. Init => GreeterInv
  BY FirstScreensAndPower, FirstKeyboard DEF Init, GreeterInv
<1>2. GreeterInv /\ [Next]_vars => GreeterInv'
  BY StepKeepsScreensAndPower, StepKeepsKeyboard DEF GreeterInv
<1>. QED BY <1>1, <1>2, PTL DEF Spec

\* However screens come, go and take over from each other, GreeterApp has one view
\* for each, on it, whatever Qt moved meanwhile.
THEOREM OneViewPerScreen == Spec => []ViewOnEveryScreen
<1>1. GreeterInv => ViewOnEveryScreen
  BY OneForEachShows DEF GreeterInv
<1>. QED BY <1>1, GreeterKept, PTL

\* However often Connect is answered and whatever the services say, PowerManager
\* carries out no more than the buttons of the greeter were pressed.
THEOREM PressesAreNotRepeated == Spec => []OnePressOneAction
<1>1. GreeterInv => OnePressOneAction
  BY DEF GreeterInv, PowerInv
<1>. QED BY <1>1, GreeterKept, PTL

\* Whatever keys and buttons are pressed while events wait in the queue or on the
\* socket, once all are read the model's locks and layouts are the X server's.
THEOREM CopyIsTheServers == Spec => []KeyboardAgrees
<1>1. GreeterInv => KeyboardAgrees
  BY FitsAgrees DEF GreeterInv
<1>. QED BY <1>1, GreeterKept, PTL
=============================================================================
