------------------------- MODULE SeatManagerProofs -------------------------
(***************************************************************************)
(* At rest the daemon runs the seats that logind calls graphical, a name    *)
(* has one Seat and no path answers for a seat that is gone: for any seats,  *)
(* any number of changes and any order in which answers and notices come.   *)
(***************************************************************************)
EXTENDS SeatManager, FunctionTheorems, FiniteSetTheorems, SequenceTheorems, WellFoundedInduction, TLAPS

-----------------------------------------------------------------------------
(* What a daemon and its queue are made of *)

Objects == [seat : Seats, graphical : BOOLEAN, alive : BOOLEAN]

SeatObjects == [seat : Seats, alive : BOOLEAN, displays : Nat]

Daemons ==
  [pc : {"starting", "running", "stopped"}, watched : Seq(Objects), systemSeats : [Seats -> Nat],
   seats : [Seats -> Nat], made : Seq(SeatObjects), list : Seq(Nat), paths : [Seats -> Nat],
   switches : Nat]

Messages ==
  [type : {"ListSeats"}, of : {Manager}] \cup [type : {"AddMatch"}, of : Seats \cup {Manager}]
    \cup [type : {"RemoveMatch"}, of : Seats] \cup [type : {"Get"}, seat : Seats, of : Nat]

Deletes == [type : {"Delete"}, what : {"seat", "path"}, of : Nat]

Events ==
  [type : {"Seats"}, seats : Seq(Seats)] \cup [type : {"SeatNew", "SeatRemoved"}, of : Seats]
    \cup [type : {"Changed"}, of : Seats, value : BOOLEAN]
    \cup [type : {"Value"}, of : Nat, valid : BOOLEAN, value : BOOLEAN] \cup Deletes

Systems ==
  [service : ServiceStates, testing : BOOLEAN, changes : [Seats -> Nat], missed : SUBSET Seats,
   seats : [Seats -> [present : BOOLEAN, graphical : BOOLEAN]]]

-----------------------------------------------------------------------------
(* Recursion over numbers *)

\* A set of numbers that is not empty has a least one.
LEMMA LeastNumber ==
  ASSUME NEW I \in SUBSET Nat, I # {}
  PROVE  \E m \in I : \A n \in I : m <= n
<1> DEFINE R == {ss \in Nat \X Nat : ss[1] < ss[2]}
<1>1. IsWellFoundedOn(R, Nat)
  BY NatLessThanWellFounded, Zenon DEF OpToRel
<1>2. \A a, b \in Nat : a < b => <<a, b>> \in R
  OBVIOUS
<1> HIDE DEF R
<1>3. PICK m \in I : \A n \in I : ~(<<n, m>> \in R)
  BY <1>1, WFMin, Zenon
<1>4. m \in Nat /\ \A n \in I : n \in Nat /\ ~(n < m)
  BY <1>2, <1>3
<1>. QED BY <1>3, <1>4

\* What holds at 0 and passes from each number to the next holds up to N.
LEMMA Counting ==
  ASSUME NEW N \in Nat, NEW B, 0 \in B,
         \A i \in 1 .. N : i - 1 \in B => i \in B
  PROVE  \A i \in 0 .. N : i \in B
<1>. DEFINE Bad == {i \in 0 .. N : i \notin B}
<1>1. SUFFICES ASSUME Bad # {} PROVE FALSE
  OBVIOUS
<1>2. PICK m \in Bad : \A n \in Bad : m <= n
  <2>1. Bad \in SUBSET Nat
    OBVIOUS
  <2>. HIDE DEF Bad
  <2>. QED BY <1>1, <2>1, LeastNumber
<1>3. m # 0 /\ m - 1 \in 0 .. N /\ m \in 1 .. N
  OBVIOUS
<1>4. m - 1 \notin Bad
  BY <1>2, <1>3
<1>. QED BY <1>3, <1>4

\* Step G of a recursion from a stays in S; the recursion has a course.
Closed(M, S, a, G) == a \in S /\ G \in [S \X (1 .. M) -> S]

HasCourse(M, S, a, G) == \E f \in [0 .. M -> S] :
                           f[0] = a /\ \A i \in 1 .. M : f[i] = G[<<f[i - 1], i>>]

\* A recursion whose step stays in a set defines a function.
LEMMA StepByStep ==
  ASSUME NEW M \in Nat, NEW S, NEW a, NEW G, Closed(M, S, a, G)
  PROVE  HasCourse(M, S, a, G)
<1>. USE DEF Closed
<1>. DEFINE Upto(N, f) == /\ f \in [0 .. N -> S]
                          /\ \A i \in 0 .. N : f[i] = IF i = 0 THEN a ELSE G[<<f[i - 1], i>>]
            B == {N \in 0 .. M : \E f : Upto(N, f)}
<1>1. 0 \in B
  <2>. DEFINE f == [i \in 0 .. 0 |-> a]
  <2>1. f \in [0 .. 0 -> S] /\ f[0] = a
    OBVIOUS
  <2>. HIDE DEF f
  <2>2. Upto(0, f)
    BY <2>1
  <2>. QED BY <2>2
<1>2. \A N \in 1 .. M : N - 1 \in B => N \in B
  <2>. SUFFICES ASSUME NEW N \in 1 .. M, N - 1 \in B PROVE N \in B
    OBVIOUS
  <2>1. PICK h : Upto(N - 1, h)
    OBVIOUS
  <2>. DEFINE f == [i \in 0 .. N |-> IF i = N THEN G[<<h[N - 1], N>>] ELSE h[i]]
  <2>2. h[N - 1] \in S /\ G[<<h[N - 1], N>>] \in S
    BY <2>1
  <2>3. f \in [0 .. N -> S]
    BY <2>1, <2>2
  <2>4. \A i \in 0 .. N : f[i] = IF i = 0 THEN a ELSE G[<<f[i - 1], i>>]
    <3>. SUFFICES ASSUME NEW i \in 0 .. N PROVE f[i] = IF i = 0 THEN a ELSE G[<<f[i - 1], i>>]
      OBVIOUS
    <3>1. CASE i = 0
      <4>1. 0 \in 0 .. N - 1 /\ 0 \in 0 .. N /\ 0 # N
        OBVIOUS
      <4>2. h[0] = a
        BY <2>1, <4>1
      <4>3. f[0] = h[0]
        BY <4>1
      <4>. HIDE DEF f
      <4>. QED BY <3>1, <4>2, <4>3
    <3>2. CASE i # 0 /\ i # N
      <4>1. i \in 0 .. N - 1 /\ i - 1 \in 0 .. N - 1 /\ i - 1 # N
        BY <3>2
      <4>. QED BY <3>2, <4>1, <2>1
    <3>3. CASE i = N
      <4>1. i - 1 \in 0 .. N - 1 /\ i - 1 # N /\ i # 0
        BY <3>3
      <4>. QED BY <3>3, <4>1, <2>1
    <3>. HIDE DEF f
    <3>. QED BY <3>1, <3>2, <3>3
  <2>. HIDE DEF f
  <2>. QED BY <2>3, <2>4
<1>. HIDE DEF B
<1>3. M \in B
  BY <1>1, <1>2, Counting
<1>4. PICK f : Upto(M, f)
  BY <1>3 DEF B
<1>5. f \in [0 .. M -> S] /\ f[0] = a
  <2>1. 0 \in 0 .. M
    OBVIOUS
  <2>. QED BY <1>4, <2>1
<1>6. \A i \in 1 .. M : f[i] = G[<<f[i - 1], i>>]
  <2>1. \A i \in 1 .. M : i \in 0 .. M /\ i # 0
    OBVIOUS
  <2>. QED BY <1>4, <2>1
<1>. HIDE DEF Upto
<1>. QED BY <1>5, <1>6 DEF HasCourse

-----------------------------------------------------------------------------
(* Sequences *)

Holds(q, x) == \E i \in DOMAIN q : q[i] = x

\* What two sequences hold together; each element of a sequence is held by it.
LEMMA HoldsBoth ==
  ASSUME NEW S, NEW p \in Seq(S), NEW q \in Seq(S), NEW x
  PROVE  Holds(p \o q, x) <=> Holds(p, x) \/ Holds(q, x)
<1>1. /\ DOMAIN (p \o q) = 1 .. Len(p) + Len(q)
      /\ \A i \in 1 .. Len(p) + Len(q) : (p \o q)[i] = IF i <= Len(p) THEN p[i] ELSE q[i - Len(p)]
      /\ Len(p) \in Nat /\ Len(q) \in Nat /\ DOMAIN p = 1 .. Len(p) /\ DOMAIN q = 1 .. Len(q)
  OBVIOUS
<1>2. ASSUME Holds(p, x) PROVE Holds(p \o q, x)
  <2>1. PICK i \in 1 .. Len(p) : p[i] = x
    BY <1>1, <1>2 DEF Holds
  <2>2. i \in 1 .. Len(p) + Len(q) /\ (p \o q)[i] = x
    BY <1>1, <2>1
  <2>. QED BY <1>1, <2>2 DEF Holds
<1>3. ASSUME Holds(q, x) PROVE Holds(p \o q, x)
  <2>1. PICK i \in 1 .. Len(q) : q[i] = x
    BY <1>1, <1>3 DEF Holds
  <2>2. i + Len(p) \in 1 .. Len(p) + Len(q) /\ ~(i + Len(p) <= Len(p)) /\ i + Len(p) - Len(p) = i
    BY <1>1
  <2>3. (p \o q)[i + Len(p)] = x
    BY <1>1, <2>1, <2>2
  <2>. QED BY <1>1, <2>2, <2>3 DEF Holds
<1>4. ASSUME Holds(p \o q, x) PROVE Holds(p, x) \/ Holds(q, x)
  <2>1. PICK i \in 1 .. Len(p) + Len(q) : (p \o q)[i] = x
    BY <1>1, <1>4 DEF Holds
  <2>2. CASE i <= Len(p)
    BY <1>1, <2>1, <2>2 DEF Holds
  <2>3. CASE ~(i <= Len(p))
    <3>1. i - Len(p) \in 1 .. Len(q)
      BY <1>1, <2>3
    <3>. QED BY <1>1, <2>1, <2>3, <3>1 DEF Holds
  <2>. QED BY <2>2, <2>3
<1>. QED BY <1>2, <1>3, <1>4

\* What is held by a sequence that is not empty is its head or held by its tail.
LEMMA HoldsTail ==
  ASSUME NEW S, NEW q \in Seq(S), q # <<>>, NEW x
  PROVE  /\ Holds(q, x) <=> x = Head(q) \/ Holds(Tail(q), x)
         /\ Head(q) \in S /\ Tail(q) \in Seq(S)
<1>1. /\ Len(q) \in Nat /\ Len(q) # 0 /\ DOMAIN q = 1 .. Len(q) /\ DOMAIN Tail(q) = 1 .. Len(q) - 1
      /\ \A i \in 1 .. Len(q) - 1 : Tail(q)[i] = q[i + 1]
      /\ Head(q) = q[1]
  OBVIOUS
<1>2. Head(q) \in S /\ Tail(q) \in Seq(S)
  OBVIOUS
<1>3. ASSUME Holds(q, x) PROVE x = Head(q) \/ Holds(Tail(q), x)
  <2>1. PICK i \in 1 .. Len(q) : q[i] = x
    BY <1>1, <1>3 DEF Holds
  <2>2. CASE i = 1
    BY <1>1, <2>1, <2>2
  <2>3. CASE i # 1
    <3>1. i - 1 \in 1 .. Len(q) - 1 /\ i - 1 + 1 = i
      BY <1>1, <2>3
    <3>2. Tail(q)[i - 1] = x
      BY <1>1, <2>1, <3>1
    <3>. QED BY <1>1, <3>1, <3>2 DEF Holds
  <2>. QED BY <2>2, <2>3
<1>4. ASSUME Holds(Tail(q), x) PROVE Holds(q, x)
  <2>1. PICK i \in 1 .. Len(q) - 1 : Tail(q)[i] = x
    BY <1>1, <1>4 DEF Holds
  <2>2. i + 1 \in 1 .. Len(q)
    BY <1>1
  <2>. QED BY <1>1, <2>1, <2>2 DEF Holds
<1>5. Holds(q, Head(q))
  BY <1>1 DEF Holds
<1>. QED BY <1>2, <1>3, <1>4, <1>5

-----------------------------------------------------------------------------
(* The list of DisplayManager *)

\* The walk of RemoveSeat takes from the list what it passes on for deletion,
\* and no more.
Walked(d, w) ==
  /\ w \in [memory : Seq(DOMAIN d.made), live : Nat, gone : Seq(DOMAIN d.made)]
  /\ Len(w.memory) = Len(d.list) /\ w.live <= Len(d.list)
  /\ \A id : Holds(d.list, id) => Holds(SubSeq(w.memory, 1, w.live), id) \/ Holds(w.gone, id)

\* What is left of a sequence without one of its places.
LEMMA RemoveAtIs ==
  ASSUME NEW S, NEW l \in Seq(S), NEW k \in 1 .. Len(l)
  PROVE  /\ RemoveAt(l, k) \in Seq(S) /\ Len(RemoveAt(l, k)) = Len(l) - 1
         /\ \A i \in 1 .. Len(l) - 1 : RemoveAt(l, k)[i] = l[IF i < k THEN i ELSE i + 1]
<1>. DEFINE r == RemoveAt(l, k)
            a == SubSeq(l, 1, k - 1)
            b == SubSeq(l, k + 1, Len(l))
<1>1. Len(l) \in Nat /\ r = a \o b
  BY LenProperties DEF RemoveAt
<1>2. a \in Seq(S) /\ Len(a) = k - 1 /\ \A i \in 1 .. k - 1 : a[i] = l[i]
  BY <1>1
<1>3. b \in Seq(S) /\ Len(b) = Len(l) - k /\ \A i \in 1 .. Len(l) - k : b[i] = l[k + i]
  BY <1>1
<1>. HIDE DEF a, b, r
<1>4. r \in Seq(S) /\ Len(r) = Len(l) - 1
  <2>1. a \o b \in Seq(S) /\ Len(a \o b) = Len(a) + Len(b)
    BY <1>2, <1>3, ConcatProperties
  <2>2. (k - 1) + (Len(l) - k) = Len(l) - 1
    BY <1>1
  <2>. QED BY <1>1, <1>2, <1>3, <2>1, <2>2
<1>5. ASSUME NEW i \in 1 .. Len(l) - 1
      PROVE  r[i] = l[IF i < k THEN i ELSE i + 1]
  <2>1. i \in 1 .. Len(a) + Len(b)
    BY <1>1, <1>2, <1>3, <1>4
  <2>2. r[i] = IF i <= Len(a) THEN a[i] ELSE b[i - Len(a)]
    BY <1>1, <1>2, <1>3, <2>1, ConcatProperties
  <2>3. CASE i < k
    BY <1>1, <1>2, <2>2, <2>3
  <2>4. CASE ~(i < k)
    <3>1. i - Len(a) \in 1 .. Len(l) - k /\ ~(i <= Len(a)) /\ k + (i - Len(a)) = i + 1
      BY <1>1, <1>2, <1>4, <2>4
    <3>. QED BY <1>3, <2>2, <2>4, <3>1
  <2>. QED BY <2>3, <2>4
<1>. QED BY <1>4, <1>5 DEF r

\* The first entries without one of them, and what is behind them.
Without(memory, live, j) ==
  RemoveAt(SubSeq(memory, 1, live), j) \o SubSeq(memory, live, Len(memory))

\* The entries behind a removed one move up, the last stays where it was too.
LEMMA OneLess ==
  ASSUME NEW S, NEW memory \in Seq(S), NEW live \in 1 .. Len(memory), NEW j \in 1 .. live
  PROVE  /\ Without(memory, live, j) \in Seq(S) /\ Len(Without(memory, live, j)) = Len(memory)
         /\ \A x : Holds(SubSeq(memory, 1, live), x) =>
                     \/ x = SubSeq(memory, 1, live)[j]
                     \/ Holds(SubSeq(Without(memory, live, j), 1, live - 1), x)
<1>. DEFINE used == SubSeq(memory, 1, live)
            after == Without(memory, live, j)
<1>1. Len(memory) \in Nat /\ live \in Int /\ \A i \in 1 .. Len(memory) : memory[i] \in S
  BY LenProperties, ElementOfSeq
<1>2. used \in Seq(S) /\ Len(used) = live
  <2>1. \A i \in 1 .. live : memory[i] \in S
    BY <1>1
  <2>. QED BY <1>1, <2>1, SubSeqProperties
<1>. DEFINE front == RemoveAt(used, j)
            back == SubSeq(memory, live, Len(memory))
            few == SubSeq(after, 1, live - 1)
<1>3. /\ front \in Seq(S) /\ Len(front) = live - 1
      /\ \A i \in 1 .. live - 1 : front[i] = used[IF i < j THEN i ELSE i + 1]
  <2>1. j \in 1 .. Len(used)
    BY <1>2
  <2>. HIDE DEF used
  <2>. QED BY <1>2, <2>1, RemoveAtIs
<1>4. back \in Seq(S) /\ Len(back) = Len(memory) - live + 1
  <2>1. \A i \in live .. Len(memory) : memory[i] \in S
    BY <1>1
  <2>. QED BY <1>1, <2>1, SubSeqProperties
<1>. HIDE DEF front, back, after
<1>5. /\ after \in Seq(S) /\ Len(after) = Len(memory)
      /\ \A i \in 1 .. Len(memory) : after[i] = IF i <= live - 1 THEN front[i] ELSE back[i - (live - 1)]
  <2>1. after = front \o back
    BY DEF front, back, after, Without
  <2>2. (live - 1) + (Len(memory) - live + 1) = Len(memory)
    BY <1>1
  <2>. QED BY <1>1, <1>3, <1>4, <2>1, <2>2, ConcatProperties
<1>6. DOMAIN few = 1 .. live - 1 /\ \A i \in 1 .. live - 1 : few[i] = front[i]
  <2>0. \A i \in 1 .. live - 1 : i \in 1 .. Len(memory) /\ i <= live - 1
    BY <1>1
  <2>1. \A i \in 1 .. live - 1 : after[i] \in S /\ after[i] = front[i]
    BY <2>0, <1>5, ElementOfSeq
  <2>2. few \in Seq(S) /\ Len(few) = live - 1 /\ \A i \in 1 .. live - 1 : few[i] = after[i]
    <3>1. 1 \in Int /\ live - 1 \in Int /\ (live - 1) - 1 + 1 = live - 1
      BY <1>1
    <3>. QED BY <1>1, <2>1, <3>1, SubSeqProperties
  <2>. QED BY <2>1, <2>2, LenProperties
<1>. HIDE DEF few
<1>7. ASSUME NEW x, Holds(used, x), x # used[j] PROVE Holds(few, x)
  <2>1. PICK i \in 1 .. live : used[i] = x /\ i # j
    BY <1>2, <1>7, LenProperties DEF Holds
  <2>2. CASE i < j
    <3>1. i \in 1 .. live - 1 /\ front[i] = x
      BY <1>1, <1>3, <2>1, <2>2
    <3>. QED BY <3>1, <1>6 DEF Holds
  <2>3. CASE ~(i < j)
    <3>1. i - 1 \in 1 .. live - 1 /\ ~(i - 1 < j) /\ i - 1 + 1 = i
      BY <1>1, <2>1, <2>3
    <3>2. front[i - 1] = x
      BY <1>3, <2>1, <3>1
    <3>. QED BY <3>1, <3>2, <1>6 DEF Holds
  <2>. QED BY <2>2, <2>3
<1>. QED BY <1>5, <1>7 DEF few, after, used

\* One turn keeps it.
LEMMA TurnWalks ==
  ASSUME NEW d, NEW s, NEW w, Walked(d, w), d.list \in Seq(DOMAIN d.made), NEW i \in 1 .. Len(d.list)
  PROVE  Walked(d, Turn(d, s, w, i))
<1>. DEFINE S == DOMAIN d.made
            n == Len(d.list)
            id == w.memory[i]
            used == SubSeq(w.memory, 1, w.live)
            j == SelectInSeq(used, LAMBDA x : x = id)
            gone == Append(w.gone, id)
            memory == Without(w.memory, w.live, j)
<1>1. /\ n \in Nat /\ w.memory \in Seq(S) /\ Len(w.memory) = n /\ w.live \in Nat /\ w.live <= n
      /\ w.gone \in Seq(S)
      /\ \A x : Holds(d.list, x) => Holds(used, x) \/ Holds(w.gone, x)
  BY LenProperties DEF Walked
<1>2. id \in S
  BY <1>1, ElementOfSeq
<1>3. Len(used) = w.live
  <2>1. \A k \in 1 .. w.live : w.memory[k] \in S
    BY <1>1, ElementOfSeq
  <2>. HIDE DEF S
  <2>. QED BY <1>1, <2>1, SubSeqProperties
<1>4. j = 0 \/ (j \in 1 .. w.live /\ used[j] = id)
  <2>. DEFINE I == {k \in 1 .. Len(used) : used[k] = id}
  <2>1. j = IF I # {} THEN Min(I) ELSE 0
    BY DEF SelectInSeq
  <2>2. I # {} => Min(I) \in I
    <3>1. I \in SUBSET Nat
      BY <1>1, <1>3
    <3>. HIDE DEF I
    <3>2. I # {} => \E m \in I : \A k \in I : m <= k
      BY <3>1, LeastNumber
    <3>. QED BY <3>2 DEF Min
  <2>. HIDE DEF j
  <2>3. CASE I = {}
    BY <2>1, <2>3
  <2>4. CASE I # {}
    BY <2>1, <2>2, <2>4, <1>3
  <2>. QED BY <2>3, <2>4
<1>5. Turn(d, s, w, i) = IF d.made[id].seat # s THEN w
                         ELSE IF j = 0 THEN [w EXCEPT !.gone = gone]
                         ELSE [memory |-> memory, live |-> w.live - 1, gone |-> gone]
  BY DEF Turn, Without
<1>6. gone \in Seq(S) /\ \A x : Holds(w.gone, x) \/ x = id => Holds(gone, x)
  <2>. HIDE DEF S, id
  <2>1. /\ gone \in Seq(S) /\ DOMAIN gone = 1 .. Len(w.gone) + 1 /\ gone[Len(w.gone) + 1] = id
        /\ \A k \in 1 .. Len(w.gone) : gone[k] = w.gone[k]
        /\ Len(w.gone) \in Nat /\ DOMAIN w.gone = 1 .. Len(w.gone)
    BY <1>1, <1>2
  <2>. HIDE DEF gone
  <2>. QED BY <2>1 DEF Holds
<1>7. CASE d.made[id].seat # s
  BY <1>5, <1>7
<1>8. CASE d.made[id].seat = s /\ j = 0
  <2>1. Turn(d, s, w, i) = [w EXCEPT !.gone = gone]
    BY <1>5, <1>8
  <2>. HIDE DEF gone, id, j
  <2>. QED BY <2>1, <1>1, <1>6 DEF Walked
<1>9. CASE d.made[id].seat = s /\ j # 0
  <2>1. Turn(d, s, w, i) = [memory |-> memory, live |-> w.live - 1, gone |-> gone]
    BY <1>5, <1>9
  <2>2. w.live \in 1 .. n /\ w.live - 1 \in Nat /\ w.live - 1 <= n
    BY <1>1, <1>4, <1>9
  <2>3. /\ memory \in Seq(S) /\ Len(memory) = n
        /\ \A x : Holds(used, x) => x = id \/ Holds(SubSeq(memory, 1, w.live - 1), x)
    <3>. HIDE DEF S, id, j
    <3>. QED BY <1>1, <1>4, <1>9, <2>2, OneLess
  <2>. HIDE DEF memory, gone, used, j, id
  <2>. QED BY <2>1, <2>2, <2>3, <1>1, <1>6 DEF Walked
<1>. QED BY <1>7, <1>8, <1>9

\* The whole walk: what was in the list is in it still, or on its way out.
LEMMA WalkEnds ==
  ASSUME NEW d, NEW s, d.list \in Seq(DOMAIN d.made)
  PROVE  Walked(d, RemoveEntries(d, s))
<1>. DEFINE M == Len(d.list)
            first == [memory |-> d.list, live |-> M, gone |-> <<>>]
            S == {w \in [memory : Seq(DOMAIN d.made), live : Nat, gone : Seq(DOMAIN d.made)] : Walked(d, w)}
            G == [p \in S \X (1 .. M) |-> Turn(d, s, p[1], p[2])]
            Run(f) == f = [i \in 0 .. M |-> IF i = 0 THEN first ELSE Turn(d, s, f[i - 1], i)]
<1>1. M \in Nat /\ SubSeq(d.list, 1, M) = d.list
  OBVIOUS
<1>2. first \in S
  <2>1. first \in [memory : Seq(DOMAIN d.made), live : Nat, gone : Seq(DOMAIN d.made)]
    BY <1>1
  <2>2. Walked(d, first)
    <3>1. \A id : Holds(d.list, id) => Holds(SubSeq(first.memory, 1, first.live), id)
      BY <1>1
    <3>. QED BY <1>1, <2>1, <3>1 DEF Walked
  <2>. QED BY <2>1, <2>2
<1>3. \A w \in S, i \in 1 .. M : Turn(d, s, w, i) \in S
  BY TurnWalks DEF Walked
<1>4. G \in [S \X (1 .. M) -> S]
  BY <1>3
<1>5. \A w \in S, i \in 1 .. M : G[<<w, i>>] = Turn(d, s, w, i)
  OBVIOUS
<1>. HIDE DEF S, G, first, M
<1>6. PICK f \in [0 .. M -> S] : f[0] = first /\ \A i \in 1 .. M : f[i] = G[<<f[i - 1], i>>]
  <2>1. Closed(M, S, first, G)
    BY <1>2, <1>4 DEF Closed
  <2>2. HasCourse(M, S, first, G)
    BY <1>1, <2>1, StepByStep
  <2>. QED BY <2>2 DEF HasCourse
<1>7. Run(f)
  <2>1. \A i \in 0 .. M : i # 0 => i - 1 \in 0 .. M /\ i \in 1 .. M
    BY <1>1
  <2>2. \A i \in 0 .. M : f[i] = IF i = 0 THEN first ELSE Turn(d, s, f[i - 1], i)
    BY <1>5, <1>6, <2>1
  <2>. QED BY <1>6, <2>2
<1>. DEFINE g == CHOOSE h : Run(h)
<1>8. Run(g)
  BY <1>7
<1>9. RemoveEntries(d, s) = g[M]
  BY DEF RemoveEntries, first, M
<1>. HIDE DEF g
<1>10. \A i \in 0 .. M : g[i] \in S
  <2>. DEFINE B == {i \in 0 .. M : g[i] \in S}
  <2>1. 0 \in B
    BY <1>1, <1>2, <1>8
  <2>2. \A i \in 1 .. M : i - 1 \in B => i \in B
    BY <1>3, <1>8
  <2>. HIDE DEF B
  <2>3. \A i \in 0 .. M : i \in B
    BY <1>1, <2>1, <2>2, Counting
  <2>. QED BY <2>3 DEF B
<1>. QED BY <1>1, <1>9, <1>10 DEF S

-----------------------------------------------------------------------------
(* Seats and paths *)

\* What m_systemSeats, m_seats, the list and the paths name is there.
DaemonOK(d) ==
  /\ d \in Daemons /\ d.list \in Seq(DOMAIN d.made)
  /\ \A s \in Seats :
       /\ d.systemSeats[s] = 0 \/ d.systemSeats[s] \in Watchers(d, s)
       /\ d.seats[s] = 0 \/ (d.seats[s] \in DOMAIN d.made /\ d.made[d.seats[s]].seat = s)
       /\ d.paths[s] = 0 \/ (d.paths[s] \in DOMAIN d.made /\ d.made[d.paths[s]].seat = s)

\* So is what the queue names for deletion.
QueueOK(d, q) ==
  /\ q \in Seq(Events)
  /\ \A what, id : Holds(q, Delete(what, id)) => id \in DOMAIN d.made

\* A path is answered by an object of the list, or by one on its way out.
PathsKept(d, q) ==
  \A s \in Seats : \/ d.paths[s] = 0 \/ Holds(d.list, d.paths[s])
                   \/ Holds(q, Delete("path", d.paths[s]))

\* Every Seat of a name is gone, is the one m_seats holds, or is on its way out.
SeatKept(d, q, s) ==
  \A id \in DOMAIN d.made : d.made[id].seat = s =>
    \/ ~d.made[id].alive \/ d.seats[s] = id \/ Holds(q, Delete("seat", id))

\* A daemon and its queue, whatever logind's seats are.
Sane(d, q) == DaemonOK(d) /\ QueueOK(d, q) /\ PathsKept(d, q)

\* What createSeat does to each field.
LEMMA CreateSeatIs ==
  ASSUME NEW d \in Daemons, NEW s \in Seats
  PROVE  LET n == CreateSeat(d, s)
             id == Len(d.made) + 1
         IN /\ n \in Daemons
            /\ n.pc = d.pc /\ n.watched = d.watched /\ n.systemSeats = d.systemSeats
            /\ n.made = Append(d.made, [seat |-> s, alive |-> TRUE, displays |-> 1])
            /\ n.seats = [d.seats EXCEPT ![s] = id]
            /\ n.list = Append(d.list, id)
            /\ n.paths = [d.paths EXCEPT ![s] = IF d.paths[s] = 0 THEN id ELSE d.paths[s]]
<1>. DEFINE id == Len(d.made) + 1
            object == [seat |-> s, alive |-> TRUE, displays |-> 1]
            e == [d EXCEPT !.made = Append(@, object), !.seats[s] = id]
            n == CreateSeat(d, s)
<1>1. n = [e EXCEPT !.list = Append(@, id), !.paths[s] = IF @ = 0 THEN id ELSE @]
  BY DEF CreateSeat, AddSeat
<1>2. /\ d.made \in Seq(SeatObjects) /\ d.list \in Seq(Nat) /\ d.seats \in [Seats -> Nat]
      /\ d.paths \in [Seats -> Nat] /\ object \in SeatObjects
  BY DEF Daemons, SeatObjects
<1>3. id \in Nat /\ Append(d.made, object) \in Seq(SeatObjects) /\ Append(d.list, id) \in Seq(Nat)
  <2>1. Len(d.made) \in Nat
    BY <1>2, LenProperties
  <2>. HIDE DEF object
  <2>2. id \in Nat
    BY <2>1
  <2>. HIDE DEF id
  <2>. QED BY <1>2, <2>2, AppendProperties
<1>. HIDE DEF object, id
<1>4. /\ e \in Daemons /\ e.made = Append(d.made, object) /\ e.seats = [d.seats EXCEPT ![s] = id]
      /\ e.pc = d.pc /\ e.watched = d.watched /\ e.systemSeats = d.systemSeats
      /\ e.list = d.list /\ e.paths = d.paths
  BY <1>2, <1>3 DEF Daemons
<1>. HIDE DEF e
<1>5. /\ n \in Daemons /\ n.made = e.made /\ n.seats = e.seats
      /\ n.pc = d.pc /\ n.watched = d.watched /\ n.systemSeats = d.systemSeats
      /\ n.list = Append(d.list, id)
      /\ n.paths = [d.paths EXCEPT ![s] = IF d.paths[s] = 0 THEN id ELSE d.paths[s]]
  <2>. DEFINE np == IF d.paths[s] = 0 THEN id ELSE d.paths[s]
  <2>1. n = [e EXCEPT !.list = Append(e.list, id), !.paths = [e.paths EXCEPT ![s] = np]]
    BY <1>1, <1>4
  <2>2. np \in Nat /\ [d.paths EXCEPT ![s] = np] \in [Seats -> Nat]
    BY <1>2, <1>3
  <2>. HIDE DEF np, n
  <2>3. /\ n \in Daemons /\ n.made = e.made /\ n.seats = e.seats
        /\ n.pc = e.pc /\ n.watched = e.watched /\ n.systemSeats = e.systemSeats
        /\ n.list = Append(e.list, id) /\ n.paths = [e.paths EXCEPT ![s] = np]
    BY <1>3, <1>4, <2>1, <2>2 DEF Daemons
  <2>. QED BY <1>4, <2>3 DEF np
<1>. QED BY <1>4, <1>5 DEF id, object

\* The new entry of a sequence; the others stay.
LEMMA AppendIs ==
  ASSUME NEW S, NEW q \in Seq(S), NEW e
  PROVE  /\ DOMAIN Append(q, e) = 1 .. Len(q) + 1 /\ Len(q) \in Nat /\ DOMAIN q = 1 .. Len(q)
         /\ Append(q, e)[Len(q) + 1] = e
         /\ \A i \in 1 .. Len(q) : i \in 1 .. Len(q) + 1 /\ i # Len(q) + 1 /\ Append(q, e)[i] = q[i]
         /\ \A i \in 1 .. Len(q) + 1 : i = Len(q) + 1 \/ i \in 1 .. Len(q)
         /\ \A x : Holds(Append(q, e), x) <=> Holds(q, x) \/ x = e
<1>1. Len(q) \in Nat /\ DOMAIN q = 1 .. Len(q)
  BY LenProperties
<1>2. /\ DOMAIN Append(q, e) = 1 .. Len(q) + 1 /\ Append(q, e)[Len(q) + 1] = e
      /\ \A i \in 1 .. Len(q) : Append(q, e)[i] = q[i]
  OBVIOUS
<1>3. /\ \A i \in 1 .. Len(q) : i \in 1 .. Len(q) + 1 /\ i # Len(q) + 1
      /\ \A i \in 1 .. Len(q) + 1 : i = Len(q) + 1 \/ i \in 1 .. Len(q)
      /\ Len(q) + 1 \in 1 .. Len(q) + 1
  BY <1>1
<1>4. \A x : Holds(Append(q, e), x) <=> Holds(q, x) \/ x = e
  BY <1>1, <1>2, <1>3 DEF Holds
<1>. QED BY <1>1, <1>2, <1>3, <1>4

\* A new Seat: its path answers, and nothing is forgotten unless m_seats held another.
LEMMA CreateSeatKeeps ==
  ASSUME NEW d, NEW q, Sane(d, q), NEW s \in Seats
  PROVE  LET n == CreateSeat(d, s)
         IN /\ Sane(n, q)
            /\ \A t \in Seats : SeatKept(d, q, t) /\ (t # s \/ d.seats[s] = 0) => SeatKept(n, q, t)
<1>. DEFINE n == CreateSeat(d, s)
            id == Len(d.made) + 1
            object == [seat |-> s, alive |-> TRUE, displays |-> 1]
<1>1. /\ d \in Daemons /\ d.made \in Seq(SeatObjects) /\ d.list \in Seq(DOMAIN d.made)
      /\ d.seats \in [Seats -> Nat] /\ d.paths \in [Seats -> Nat]
  BY DEF Sane, DaemonOK, Daemons
<1>2. /\ n \in Daemons /\ n.watched = d.watched /\ n.systemSeats = d.systemSeats
      /\ n.made = Append(d.made, object)
      /\ n.seats = [d.seats EXCEPT ![s] = id]
      /\ n.list = Append(d.list, id)
      /\ n.paths = [d.paths EXCEPT ![s] = IF d.paths[s] = 0 THEN id ELSE d.paths[s]]
  BY <1>1, CreateSeatIs
<1>. HIDE DEF n
<1>3. /\ DOMAIN d.made = 1 .. Len(d.made) /\ DOMAIN n.made = 1 .. Len(d.made) + 1
      /\ n.made[id] = object /\ id \in DOMAIN n.made /\ id \notin DOMAIN d.made
      /\ \A i \in DOMAIN d.made : i \in DOMAIN n.made /\ i # id /\ n.made[i] = d.made[i]
      /\ \A i \in DOMAIN n.made : i = id \/ i \in DOMAIN d.made
      /\ id # 0
  <2>1. Len(d.made) \in Nat
    BY <1>1, LenProperties
  <2>. HIDE DEF object
  <2>. QED BY <1>1, <1>2, <2>1, AppendIs
<1>4. object.seat = s /\ object.alive
  OBVIOUS
<1>. HIDE DEF object, id
<1>5. n.list \in Seq(DOMAIN n.made) /\ \A x : Holds(n.list, x) <=> Holds(d.list, x) \/ x = id
  <2>1. d.list \in Seq(DOMAIN n.made)
    BY <1>1, <1>3, SeqMonotonic
  <2>. QED BY <1>2, <1>3, <2>1, AppendProperties, AppendIs
<1>6. /\ \A t \in Seats : n.seats[t] = IF t = s THEN id ELSE d.seats[t]
      /\ \A t \in Seats : n.paths[t] = IF t = s /\ d.paths[s] = 0 THEN id ELSE d.paths[t]
  BY <1>1, <1>2
<1>7. DaemonOK(n)
  <2>1. ASSUME NEW t \in Seats
        PROVE  /\ n.systemSeats[t] = 0 \/ n.systemSeats[t] \in Watchers(n, t)
               /\ n.seats[t] = 0 \/ (n.seats[t] \in DOMAIN n.made /\ n.made[n.seats[t]].seat = t)
               /\ n.paths[t] = 0 \/ (n.paths[t] \in DOMAIN n.made /\ n.made[n.paths[t]].seat = t)
    <3>1. n.systemSeats[t] = 0 \/ n.systemSeats[t] \in Watchers(n, t)
      BY <1>2 DEF Sane, DaemonOK, Watchers
    <3>2. n.seats[t] = 0 \/ (n.seats[t] \in DOMAIN n.made /\ n.made[n.seats[t]].seat = t)
      <4>1. CASE t = s
        BY <4>1, <1>3, <1>4, <1>6
      <4>2. CASE t # s
        <5>1. n.seats[t] = d.seats[t]
          BY <4>2, <1>6
        <5>. QED BY <5>1, <1>3 DEF Sane, DaemonOK
      <4>. QED BY <4>1, <4>2
    <3>3. n.paths[t] = 0 \/ (n.paths[t] \in DOMAIN n.made /\ n.made[n.paths[t]].seat = t)
      <4>1. CASE t = s /\ d.paths[s] = 0
        BY <4>1, <1>3, <1>4, <1>6
      <4>2. CASE ~(t = s /\ d.paths[s] = 0)
        <5>1. n.paths[t] = d.paths[t]
          BY <4>2, <1>6
        <5>. QED BY <5>1, <1>3 DEF Sane, DaemonOK
      <4>. QED BY <4>1, <4>2
    <3>. QED BY <3>1, <3>2, <3>3
  <2>. QED BY <1>2, <1>5, <2>1 DEF DaemonOK
<1>8. QueueOK(n, q)
  BY <1>3 DEF Sane, QueueOK
<1>9. PathsKept(n, q)
  BY <1>5, <1>6 DEF Sane, PathsKept
<1>10. ASSUME NEW t \in Seats, SeatKept(d, q, t), t # s \/ d.seats[s] = 0
       PROVE  SeatKept(n, q, t)
  <2>. SUFFICES ASSUME NEW i \in DOMAIN n.made, n.made[i].seat = t
                PROVE  ~n.made[i].alive \/ n.seats[t] = i \/ Holds(q, Delete("seat", i))
    BY DEF SeatKept
  <2>1. CASE i = id
    BY <2>1, <1>3, <1>4, <1>6
  <2>2. CASE i \in DOMAIN d.made
    <3>1. d.made[i] = n.made[i] /\ i # 0
      BY <2>2, <1>1, <1>3
    <3>2. ~n.made[i].alive \/ d.seats[t] = i \/ Holds(q, Delete("seat", i))
      BY <2>2, <3>1, <1>10 DEF SeatKept
    <3>. QED BY <3>1, <3>2, <1>6, <1>10
  <2>. QED BY <2>1, <2>2, <1>3
<1>. QED BY <1>7, <1>8, <1>9, <1>10 DEF Sane, n

\* What is posted for deletion is in the queue, and so is what was there.
LEMMA PostedQueue ==
  ASSUME NEW d, NEW q, QueueOK(d, q), NEW post \in Seq(Deletes),
         \A x : Holds(post, x) => x.of \in DOMAIN d.made
  PROVE  /\ QueueOK(d, q \o post)
         /\ \A x : Holds(q \o post, x) <=> Holds(q, x) \/ Holds(post, x)
<1>1. q \in Seq(Events)
  BY DEF QueueOK
<1>2. post \in Seq(Events)
  <2>1. Deletes \subseteq Events
    BY DEF Events
  <2>. QED BY <2>1, SeqMonotonic
<1>3. q \o post \in Seq(Events) /\ \A x : Holds(q \o post, x) <=> Holds(q, x) \/ Holds(post, x)
  BY <1>1, <1>2, ConcatProperties, HoldsBoth
<1>4. ASSUME NEW what, NEW id, Holds(q \o post, Delete(what, id)) PROVE id \in DOMAIN d.made
  <2>1. Delete(what, id).of = id
    BY DEF Delete
  <2>. QED BY <1>3, <1>4, <2>1 DEF QueueOK
<1>. QED BY <1>3, <1>4 DEF QueueOK

\* What removeSeat does to each field, and what it posts.
LEMMA RemoveSeatIs ==
  ASSUME NEW d, DaemonOK(d), NEW s \in Seats, d.seats[s] # 0
  PROVE  LET r == RemoveSeat(d, s)
         IN /\ r = [d |-> r.d, post |-> r.post]
            /\ r.d \in Daemons
            /\ r.d.pc = d.pc /\ r.d.watched = d.watched /\ r.d.systemSeats = d.systemSeats
            /\ r.d.made = d.made /\ r.d.paths = d.paths
            /\ r.d.seats = [d.seats EXCEPT ![s] = 0]
            /\ r.d.list \in Seq(DOMAIN d.made)
            /\ \A id : Holds(d.list, id) => Holds(r.d.list, id) \/ Holds(r.post, Delete("path", id))
            /\ r.post \in Seq(Deletes) /\ \A x : Holds(r.post, x) => x.of \in DOMAIN d.made
            /\ Holds(r.post, Delete("seat", d.seats[s]))
<1>. DEFINE w == RemoveEntries(d, s)
            list == SubSeq(w.memory, 1, w.live)
            first == <<Delete("seat", d.seats[s])>>
            rest == [i \in DOMAIN w.gone |-> Delete("path", w.gone[i])]
            n == [d EXCEPT !.seats[s] = 0, !.list = list]
            r == RemoveSeat(d, s)
<1>1. r = [d |-> n, post |-> first \o rest]
  BY DEF RemoveSeat
<1>2. /\ d.list \in Seq(DOMAIN d.made) /\ d.made \in Seq(SeatObjects) /\ DOMAIN d.made \subseteq Nat
      /\ d \in Daemons /\ d.seats[s] \in DOMAIN d.made
  <2>1. d.made \in Seq(SeatObjects)
    BY DEF DaemonOK, Daemons
  <2>2. DOMAIN d.made = 1 .. Len(d.made) /\ Len(d.made) \in Nat
    BY <2>1, LenProperties
  <2>. QED BY <2>1, <2>2 DEF DaemonOK
<1>3. /\ w.memory \in Seq(DOMAIN d.made) /\ w.gone \in Seq(DOMAIN d.made) /\ w.live \in 0 .. Len(w.memory)
      /\ \A id : Holds(d.list, id) => Holds(list, id) \/ Holds(w.gone, id)
  <2>1. Walked(d, w)
    BY <1>2, WalkEnds
  <2>. HIDE DEF w
  <2>. QED BY <2>1 DEF Walked
<1>. HIDE DEF w
<1>4. list \in Seq(DOMAIN d.made)
  <2>. DEFINE S == DOMAIN d.made
  <2>1. /\ \A i \in 1 .. Len(w.memory) : w.memory[i] \in S
        /\ Len(w.memory) \in Nat
    BY <1>3, ElementOfSeq, LenProperties
  <2>2. w.live \in Int /\ 1 \in Int /\ \A i \in 1 .. w.live : w.memory[i] \in S
    BY <1>3, <2>1
  <2>. HIDE DEF S
  <2>3. SubSeq(w.memory, 1, w.live) \in Seq(S)
    BY <2>2, SubSeqProperties
  <2>. QED BY <2>3 DEF S
<1>5. list \in Seq(Nat)
  BY <1>2, <1>4, SeqMonotonic
<1>6. first \in Seq(Deletes) /\ \A x : Holds(first, x) <=> x = Delete("seat", d.seats[s])
  <2>1. Delete("seat", d.seats[s]) \in Deletes
    BY <1>2 DEF Delete, Deletes
  <2>. HIDE DEF Delete
  <2>. QED BY <2>1 DEF Holds
<1>7. rest \in Seq(Deletes) /\ \A x : Holds(rest, x) <=> \E id : Holds(w.gone, id) /\ x = Delete("path", id)
  <2>1. \A i \in DOMAIN w.gone : w.gone[i] \in DOMAIN d.made /\ Delete("path", w.gone[i]) \in Deletes
    BY <1>2, <1>3, LenProperties, ElementOfSeq DEF Delete, Deletes
  <2>2. rest \in Seq(Deletes)
    BY <1>3, <2>1
  <2>. QED BY <2>2 DEF Holds
<1>8. \A id : Holds(w.gone, id) => id \in DOMAIN d.made
  BY <1>3, LenProperties, ElementOfSeq DEF Holds
<1>. HIDE DEF first, rest, list
<1>9. /\ n \in Daemons /\ n.pc = d.pc /\ n.watched = d.watched /\ n.systemSeats = d.systemSeats
      /\ n.made = d.made /\ n.paths = d.paths /\ n.seats = [d.seats EXCEPT ![s] = 0] /\ n.list = list
  BY <1>2, <1>5 DEF Daemons
<1>. HIDE DEF n, r
<1>10. r.d = n /\ r.post = first \o rest
  BY <1>1
<1>11. first \o rest \in Seq(Deletes) /\ \A x : Holds(first \o rest, x) <=> Holds(first, x) \/ Holds(rest, x)
  BY <1>6, <1>7, ConcatProperties, HoldsBoth
<1>12. \A x : Holds(first \o rest, x) => x.of \in DOMAIN d.made
  <2>1. \A what, id : Delete(what, id).of = id
    BY DEF Delete
  <2>. QED BY <1>2, <1>6, <1>7, <1>8, <1>11, <2>1
<1>. QED BY <1>1, <1>3, <1>4, <1>6, <1>7, <1>9, <1>10, <1>11, <1>12 DEF r

\* Removing a Seat: what was listed is posted, and so is the Seat.
LEMMA RemoveSeatKeeps ==
  ASSUME NEW d, NEW q, Sane(d, q), NEW s \in Seats
  PROVE  LET r == RemoveSeat(d, s)
         IN /\ r.post \in Seq(Deletes) /\ r.d \in Daemons
            /\ r.d.pc = d.pc /\ r.d.watched = d.watched /\ r.d.systemSeats = d.systemSeats
            /\ r.d.seats = [d.seats EXCEPT ![s] = 0]
            /\ Sane(r.d, q \o r.post)
            /\ \A t \in Seats : SeatKept(d, q, t) => SeatKept(r.d, q \o r.post, t)
<1>. DEFINE r == RemoveSeat(d, s)
<1>1. d \in Daemons /\ d.seats \in [Seats -> Nat] /\ q \in Seq(Events)
  BY DEF Sane, DaemonOK, Daemons, QueueOK
<1>2. CASE d.seats[s] = 0
  <2>1. r = [d |-> d, post |-> <<>>]
    BY <1>2 DEF RemoveSeat
  <2>2. q \o <<>> = q /\ <<>> \in Seq(Deletes)
    BY <1>1, ConcatEmptySeq, EmptySeq
  <2>3. d.seats = [d.seats EXCEPT ![s] = 0]
    BY <1>1, <1>2
  <2>. HIDE DEF r
  <2>4. r.d = d /\ r.post = <<>>
    BY <2>1
  <2>. QED BY <1>1, <2>2, <2>3, <2>4 DEF r
<1>3. CASE d.seats[s] # 0
  <2>1. /\ r.d \in Daemons
        /\ r.d.pc = d.pc /\ r.d.watched = d.watched /\ r.d.systemSeats = d.systemSeats
        /\ r.d.made = d.made /\ r.d.paths = d.paths
        /\ r.d.seats = [d.seats EXCEPT ![s] = 0]
        /\ r.d.list \in Seq(DOMAIN d.made)
        /\ \A id : Holds(d.list, id) => Holds(r.d.list, id) \/ Holds(r.post, Delete("path", id))
        /\ r.post \in Seq(Deletes) /\ \A x : Holds(r.post, x) => x.of \in DOMAIN d.made
        /\ Holds(r.post, Delete("seat", d.seats[s]))
    BY <1>3, RemoveSeatIs DEF Sane
  <2>. HIDE DEF r
  <2>2. /\ QueueOK(d, q \o r.post)
        /\ \A x : Holds(q \o r.post, x) <=> Holds(q, x) \/ Holds(r.post, x)
    BY <2>1, PostedQueue DEF Sane
  <2>3. \A t \in Seats : r.d.seats[t] = IF t = s THEN 0 ELSE d.seats[t]
    BY <1>1, <2>1
  <2>4. DaemonOK(r.d)
    <3>1. ASSUME NEW t \in Seats
          PROVE  /\ r.d.systemSeats[t] = 0 \/ r.d.systemSeats[t] \in Watchers(r.d, t)
                 /\ r.d.seats[t] = 0 \/ (r.d.seats[t] \in DOMAIN r.d.made /\ r.d.made[r.d.seats[t]].seat = t)
                 /\ r.d.paths[t] = 0 \/ (r.d.paths[t] \in DOMAIN r.d.made /\ r.d.made[r.d.paths[t]].seat = t)
      <4>1. r.d.systemSeats[t] = 0 \/ r.d.systemSeats[t] \in Watchers(r.d, t)
        BY <2>1 DEF Sane, DaemonOK, Watchers
      <4>2. r.d.seats[t] = 0 \/ (r.d.seats[t] \in DOMAIN r.d.made /\ r.d.made[r.d.seats[t]].seat = t)
        BY <2>1, <2>3 DEF Sane, DaemonOK
      <4>3. r.d.paths[t] = 0 \/ (r.d.paths[t] \in DOMAIN r.d.made /\ r.d.made[r.d.paths[t]].seat = t)
        BY <2>1 DEF Sane, DaemonOK
      <4>. QED BY <4>1, <4>2, <4>3
    <3>2. r.d.list \in Seq(DOMAIN r.d.made)
      BY <2>1
    <3>. QED BY <2>1, <3>1, <3>2 DEF DaemonOK
  <2>5. QueueOK(r.d, q \o r.post)
    BY <2>1, <2>2 DEF QueueOK
  <2>6. PathsKept(r.d, q \o r.post)
    BY <2>1, <2>2 DEF Sane, PathsKept
  <2>7. ASSUME NEW t \in Seats, SeatKept(d, q, t) PROVE SeatKept(r.d, q \o r.post, t)
    <3>. SUFFICES ASSUME NEW i \in DOMAIN d.made, d.made[i].seat = t, d.made[i].alive
                  PROVE  r.d.seats[t] = i \/ Holds(q \o r.post, Delete("seat", i))
      BY <2>1 DEF SeatKept
    <3>1. d.seats[t] = i \/ Holds(q, Delete("seat", i))
      BY <2>7 DEF SeatKept
    <3>. QED BY <2>1, <2>2, <2>3, <3>1
  <2>. QED BY <2>1, <2>4, <2>5, <2>6, <2>7 DEF Sane, r
<1>. QED BY <1>2, <1>3

-----------------------------------------------------------------------------
(* The handlers and the seats *)

\* Seats, list and paths are not concerned by what becomes of LogindSeat objects.
LEMMA WatchedAside ==
  ASSUME NEW d, NEW q, Sane(d, q), NEW n \in Daemons,
         n.made = d.made, n.list = d.list, n.seats = d.seats, n.paths = d.paths,
         \A s \in Seats : n.systemSeats[s] = 0 \/ n.systemSeats[s] \in Watchers(n, s)
  PROVE  Sane(n, q) /\ \A t : SeatKept(d, q, t) => SeatKept(n, q, t)
<1>1. DaemonOK(n)
  BY DEF Sane, DaemonOK
<1>2. QueueOK(n, q)
  BY DEF Sane, QueueOK
<1>3. PathsKept(n, q)
  BY DEF Sane, PathsKept
<1>4. \A t : SeatKept(d, q, t) => SeatKept(n, q, t)
  BY DEF SeatKept
<1>. QED BY <1>1, <1>2, <1>3, <1>4 DEF Sane

\* An object that changes what it takes for graphical.
LEMMA Marked ==
  ASSUME NEW w \in Seq(Objects), NEW o \in DOMAIN w, NEW value \in BOOLEAN
  PROVE  LET m == [w EXCEPT ![o].graphical = value]
         IN /\ m \in Seq(Objects) /\ DOMAIN m = DOMAIN w /\ Len(m) = Len(w)
            /\ \A i \in DOMAIN w : /\ m[i].seat = w[i].seat /\ m[i].alive = w[i].alive
                                   /\ m[i].graphical = IF i = o THEN value ELSE w[i].graphical
                                   /\ m[i] \in Objects /\ w[i] \in Objects
                                   /\ m[i] = IF i = o THEN [w[i] EXCEPT !.graphical = value] ELSE w[i]
<1>. DEFINE x == [w[o] EXCEPT !.graphical = value]
            m == [w EXCEPT ![o] = x]
<1>1. DOMAIN w = 1 .. Len(w) /\ \A i \in DOMAIN w : w[i] \in Objects
  BY LenProperties, ElementOfSeq
<1>2. x \in Objects /\ x.seat = w[o].seat /\ x.alive = w[o].alive /\ x.graphical = value
  BY <1>1 DEF Objects
<1>. HIDE DEF x
<1>3. /\ m \in Seq(Objects) /\ Len(m) = Len(w)
      /\ \A i \in DOMAIN w : m[i] = IF i = o THEN x ELSE w[i]
  BY <1>1, <1>2, ExceptSeq
<1>4. DOMAIN m = DOMAIN w
  OBVIOUS
<1>5. [w EXCEPT ![o].graphical = value] = m
  BY DEF x
<1>. HIDE DEF m
<1>6. \A i \in DOMAIN w : /\ m[i].seat = w[i].seat /\ m[i].alive = w[i].alive
                          /\ m[i].graphical = IF i = o THEN value ELSE w[i].graphical
                          /\ m[i] \in Objects /\ w[i] \in Objects
                          /\ m[i] = IF i = o THEN [w[i] EXCEPT !.graphical = value] ELSE w[i]
  BY <1>1, <1>2, <1>3 DEF x
<1>. QED BY <1>3, <1>4, <1>5, <1>6

\* One LogindSeat that is told: its seat is made or removed.
LEMMA ToldKeeps ==
  ASSUME NEW d, NEW q, Sane(d, q), NEW o \in DOMAIN d.watched, NEW value \in BOOLEAN
  PROVE  LET n == CanGraphicalChanged(d, o, value)
             s == d.watched[o].seat
         IN /\ n.post \in Seq(Deletes) /\ n.d \in Daemons /\ n.d.pc = d.pc
            /\ n.d.watched = [d.watched EXCEPT ![o].graphical = value]
            /\ n.d.systemSeats = d.systemSeats
            /\ \A t \in Seats : n.d.seats[t] # 0 <=> IF t = s THEN value ELSE d.seats[t] # 0
            /\ Sane(n.d, q \o n.post)
            /\ \A t \in Seats : SeatKept(d, q, t) /\ (t # s \/ ~value \/ d.seats[s] = 0) =>
                                  SeatKept(n.d, q \o n.post, t)
<1>. DEFINE e == [d EXCEPT !.watched[o].graphical = value]
            s == d.watched[o].seat
            n == CanGraphicalChanged(d, o, value)
<1>1. d \in Daemons /\ d.watched \in Seq(Objects) /\ d.seats \in [Seats -> Nat] /\ q \in Seq(Events)
  BY DEF Sane, DaemonOK, QueueOK, Daemons
<1>. DEFINE m == [d.watched EXCEPT ![o].graphical = value]
<1>2. /\ m \in Seq(Objects) /\ DOMAIN m = DOMAIN d.watched
      /\ \A i \in DOMAIN d.watched : m[i].seat = d.watched[i].seat /\ m[i].alive = d.watched[i].alive
      /\ d.watched[o] \in Objects
  BY <1>1, Marked
<1>3. s \in Seats
  BY <1>2 DEF Objects
<1>4. e = [d EXCEPT !.watched = m]
  BY <1>1 DEF Daemons
<1>. HIDE DEF m, e, s
<1>5. /\ e \in Daemons /\ e.pc = d.pc /\ e.watched = m /\ e.systemSeats = d.systemSeats
      /\ e.made = d.made /\ e.list = d.list /\ e.seats = d.seats /\ e.paths = d.paths
  BY <1>1, <1>2, <1>4 DEF Daemons
<1>6. Sane(e, q) /\ \A t : SeatKept(d, q, t) => SeatKept(e, q, t)
  <2>1. \A t \in Seats : e.systemSeats[t] = 0 \/ e.systemSeats[t] \in Watchers(e, t)
    BY <1>2, <1>5 DEF Sane, DaemonOK, Watchers
  <2>. QED BY <1>5, <2>1, WatchedAside
<1>7. CASE value
  <2>1. n = [d |-> CreateSeat(e, s), post |-> <<>>]
    BY <1>7 DEF CanGraphicalChanged, e, s
  <2>2. n.d = CreateSeat(e, s) /\ n.post = <<>>
    BY <2>1
  <2>. HIDE DEF n
  <2>3. q \o <<>> = q /\ <<>> \in Seq(Deletes)
    BY <1>1, ConcatEmptySeq, EmptySeq
  <2>4. /\ n.d \in Daemons /\ n.d.pc = e.pc /\ n.d.watched = e.watched /\ n.d.systemSeats = e.systemSeats
        /\ n.d.seats = [e.seats EXCEPT ![s] = Len(e.made) + 1]
    <3>. DEFINE c == CreateSeat(e, s)
    <3>1. /\ c \in Daemons /\ c.pc = e.pc /\ c.watched = e.watched /\ c.systemSeats = e.systemSeats
          /\ c.seats = [e.seats EXCEPT ![s] = Len(e.made) + 1]
      BY <1>3, <1>5, CreateSeatIs
    <3>. HIDE DEF c
    <3>2. n.d = c
      BY <2>2 DEF c
    <3>. QED BY <3>1, <3>2
  <2>5. \A t \in Seats : n.d.seats[t] # 0 <=> IF t = s THEN value ELSE d.seats[t] # 0
    <3>1. Len(e.made) + 1 # 0
      <4>1. Len(e.made) \in Nat
        BY <1>5, LenProperties DEF Daemons
      <4>. QED BY <4>1
    <3>. QED BY <1>1, <1>3, <1>5, <1>7, <2>4, <3>1
  <2>6. /\ Sane(n.d, q)
        /\ \A t \in Seats : SeatKept(e, q, t) /\ (t # s \/ e.seats[s] = 0) => SeatKept(n.d, q, t)
    BY <1>3, <1>6, <2>2, CreateSeatKeeps
  <2>7. n.post \in Seq(Deletes) /\ q \o n.post = q
    BY <2>2, <2>3
  <2>8. /\ Sane(n.d, q \o n.post)
        /\ \A t \in Seats : SeatKept(d, q, t) /\ (t # s \/ ~value \/ d.seats[s] = 0) =>
                              SeatKept(n.d, q \o n.post, t)
    BY <1>5, <1>6, <1>7, <2>6, <2>7
  <2>. QED BY <1>5, <2>4, <2>5, <2>7, <2>8 DEF m, s, n
<1>8. CASE ~value
  <2>1. n = RemoveSeat(e, s)
    BY <1>8 DEF CanGraphicalChanged, e, s
  <2>. HIDE DEF n
  <2>2. /\ n.post \in Seq(Deletes) /\ n.d \in Daemons
        /\ n.d.pc = e.pc /\ n.d.watched = e.watched /\ n.d.systemSeats = e.systemSeats
        /\ n.d.seats = [e.seats EXCEPT ![s] = 0]
        /\ Sane(n.d, q \o n.post)
        /\ \A t \in Seats : SeatKept(e, q, t) => SeatKept(n.d, q \o n.post, t)
    BY <1>3, <1>6, <2>1, RemoveSeatKeeps
  <2>3. \A t \in Seats : n.d.seats[t] # 0 <=> IF t = s THEN value ELSE d.seats[t] # 0
    BY <1>1, <1>3, <1>5, <1>8, <2>2
  <2>. QED BY <1>5, <1>6, <2>2, <2>3 DEF m, s, n
<1>. QED BY <1>7, <1>8

\* What the first i LogindSeat objects, told one after the other, come to.
ToldUpTo(d, q, s, value, i, r) ==
  /\ r \in [d : Daemons, post : Seq(Deletes)] /\ Sane(r.d, q \o r.post)
  /\ r.d.pc = d.pc /\ r.d.systemSeats = d.systemSeats /\ Len(r.d.watched) = Len(d.watched)
  /\ \A o \in DOMAIN d.watched :
       r.d.watched[o] = IF o <= i /\ o \in Watchers(d, s) THEN [d.watched[o] EXCEPT !.graphical = value]
                                                         ELSE d.watched[o]
  /\ \A t \in Seats : r.d.seats[t] # 0 <=> IF t = s /\ \E o \in Watchers(d, s) : o <= i THEN value
                                           ELSE d.seats[t] # 0
  /\ \A t \in Seats :
       /\ SeatKept(d, q, t)
       /\ \/ t # s \/ ~value \/ Watchers(d, s) = {}
          \/ d.seats[s] = 0 /\ \A o, p \in Watchers(d, s) : o = p
       => SeatKept(r.d, q \o r.post, t)

\* One more.
LEMMA ToldOneMore ==
  ASSUME NEW d, NEW q, Sane(d, q), NEW s \in Seats, NEW value \in BOOLEAN,
         NEW i \in 1 .. Len(d.watched), NEW r, ToldUpTo(d, q, s, value, i - 1, r)
  PROVE  ToldUpTo(d, q, s, value, i, IF i \in Watchers(d, s) THEN Told(r, i, value) ELSE r)
<1>1. /\ d \in Daemons /\ d.watched \in Seq(Objects) /\ q \in Seq(Events)
      /\ Len(d.watched) \in Nat /\ DOMAIN d.watched = 1 .. Len(d.watched)
      /\ Watchers(d, s) \subseteq DOMAIN d.watched
      /\ \A o \in DOMAIN d.watched : d.watched[o] \in Objects
  <2>1. d \in Daemons /\ d.watched \in Seq(Objects) /\ q \in Seq(Events)
    BY DEF Sane, DaemonOK, QueueOK, Daemons
  <2>. QED BY <2>1, LenProperties, ElementOfSeq DEF Watchers
<1>2. /\ r \in [d : Daemons, post : Seq(Deletes)] /\ Sane(r.d, q \o r.post)
      /\ r.d.pc = d.pc /\ r.d.systemSeats = d.systemSeats /\ Len(r.d.watched) = Len(d.watched)
      /\ r.d.watched \in Seq(Objects) /\ DOMAIN r.d.watched = 1 .. Len(d.watched)
  <2>1. r.d \in Daemons /\ Len(r.d.watched) = Len(d.watched)
    BY DEF ToldUpTo
  <2>2. r.d.watched \in Seq(Objects)
    BY <2>1 DEF Daemons
  <2>3. DOMAIN r.d.watched = 1 .. Len(d.watched)
    BY <2>1, <2>2, LenProperties
  <2>. QED BY <2>2, <2>3 DEF ToldUpTo
<1>3. \A o \in Watchers(d, s) : o <= i <=> o <= i - 1 \/ o = i
  BY <1>1
<1>4. CASE i \notin Watchers(d, s)
  <2>1. \A o \in Watchers(d, s) : o <= i <=> o <= i - 1
    BY <1>3, <1>4
  <2>2. \A o \in DOMAIN d.watched : o <= i /\ o \in Watchers(d, s) <=> o <= i - 1 /\ o \in Watchers(d, s)
    BY <2>1
  <2>3. (\E o \in Watchers(d, s) : o <= i) <=> (\E o \in Watchers(d, s) : o <= i - 1)
    BY <2>1
  <2>4. ToldUpTo(d, q, s, value, i, r)
    BY <1>2, <2>2, <2>3 DEF ToldUpTo
  <2>. QED BY <1>4, <2>4
<1>5. CASE i \in Watchers(d, s)
  <2>. DEFINE n == CanGraphicalChanged(r.d, i, value)
              u == Told(r, i, value)
              m == [r.d.watched EXCEPT ![i].graphical = value]
  <2>1. u = [d |-> n.d, post |-> r.post \o n.post]
    BY DEF Told
  <2>2. r.d.watched[i] = d.watched[i] /\ d.watched[i].seat = s /\ i \in DOMAIN r.d.watched /\ i \in DOMAIN d.watched
    <3>1. ~(i <= i - 1)
      OBVIOUS
    <3>. QED BY <1>1, <1>2, <1>5, <3>1 DEF ToldUpTo, Watchers
  <2>3. /\ n.post \in Seq(Deletes) /\ n.d \in Daemons /\ n.d.pc = r.d.pc
        /\ n.d.watched = m
        /\ n.d.systemSeats = r.d.systemSeats
        /\ \A t \in Seats : n.d.seats[t] # 0 <=> IF t = s THEN value ELSE r.d.seats[t] # 0
        /\ Sane(n.d, (q \o r.post) \o n.post)
        /\ \A t \in Seats : SeatKept(r.d, q \o r.post, t) /\ (t # s \/ ~value \/ r.d.seats[s] = 0) =>
                              SeatKept(n.d, (q \o r.post) \o n.post, t)
    <3>. DEFINE e == r.d
                x == q \o r.post
                c == CanGraphicalChanged(e, i, value)
                z == e.watched[i].seat
    <3>1. Sane(e, x) /\ i \in DOMAIN e.watched /\ z = s
      BY <1>2, <2>2
    <3>. HIDE DEF e, x
    <3>2. /\ c.post \in Seq(Deletes) /\ c.d \in Daemons /\ c.d.pc = e.pc
          /\ c.d.watched = [e.watched EXCEPT ![i].graphical = value]
          /\ c.d.systemSeats = e.systemSeats
          /\ \A t \in Seats : c.d.seats[t] # 0 <=> IF t = z THEN value ELSE e.seats[t] # 0
          /\ Sane(c.d, x \o c.post)
          /\ \A t \in Seats : SeatKept(e, x, t) /\ (t # z \/ ~value \/ e.seats[z] = 0) =>
                                SeatKept(c.d, x \o c.post, t)
      BY <3>1, ToldKeeps
    <3>. HIDE DEF c, z
    <3>3. /\ c.post \in Seq(Deletes) /\ c.d \in Daemons /\ c.d.pc = e.pc
          /\ c.d.watched = [e.watched EXCEPT ![i].graphical = value]
          /\ c.d.systemSeats = e.systemSeats
          /\ \A t \in Seats : c.d.seats[t] # 0 <=> IF t = s THEN value ELSE e.seats[t] # 0
          /\ Sane(c.d, x \o c.post)
          /\ \A t \in Seats : SeatKept(e, x, t) /\ (t # s \/ ~value \/ e.seats[s] = 0) =>
                                SeatKept(c.d, x \o c.post, t)
      BY <3>1, <3>2
    <3>. QED BY <3>3 DEF c, e, x
  <2>4. u.d = n.d /\ u.post = r.post \o n.post
    <3>. HIDE DEF n, u
    <3>. QED BY <2>1
  <2>7. \A o \in DOMAIN r.d.watched :
          n.d.watched[o] = IF o = i THEN [r.d.watched[o] EXCEPT !.graphical = value] ELSE r.d.watched[o]
    <3>. DEFINE w == r.d.watched
                x == [w EXCEPT ![i].graphical = value]
    <3>1. w \in Seq(Objects) /\ i \in DOMAIN w
      BY <1>2, <2>2
    <3>. HIDE DEF w
    <3>2. \A o \in DOMAIN w : x[o] = IF o = i THEN [w[o] EXCEPT !.graphical = value] ELSE w[o]
      BY <3>1, Marked
    <3>. HIDE DEF x
    <3>3. n.d.watched = x
      BY <2>3 DEF x, w
    <3>. QED BY <3>2, <3>3 DEF w
  <2>. HIDE DEF n, m
  <2>5. u.post \in Seq(Deletes) /\ q \o u.post = (q \o r.post) \o n.post
    <3>1. Deletes \subseteq Events
      BY DEF Events
    <3>2. r.post \in Seq(Deletes)
      BY <1>2
    <3>3. r.post \o n.post \in Seq(Deletes)
      BY <2>3, <3>2, ConcatProperties
    <3>4. r.post \in Seq(Events) /\ n.post \in Seq(Events)
      BY <2>3, <3>1, <3>2, SeqMonotonic
    <3>5. q \o (r.post \o n.post) = (q \o r.post) \o n.post
      <4>. DEFINE a == r.post
                  b == n.post
      <4>1. a \in Seq(Events) /\ b \in Seq(Events) /\ q \in Seq(Events)
        BY <1>1, <3>4
      <4>. HIDE DEF a, b
      <4>2. q \o (a \o b) = (q \o a) \o b
        BY <4>1, ConcatAssociative
      <4>. QED BY <4>2 DEF a, b
    <3>. QED BY <2>4, <3>3, <3>5
  <2>6. u \in [d : Daemons, post : Seq(Deletes)]
    BY <2>1, <2>3, <2>4, <2>5
  <2>. HIDE DEF u
  <2>8. Len(n.d.watched) = Len(d.watched)
    BY <1>2, <2>2, <2>3, Marked DEF m
  <2>9. ASSUME NEW o \in DOMAIN d.watched
        PROVE  u.d.watched[o] = IF o <= i /\ o \in Watchers(d, s) THEN [d.watched[o] EXCEPT !.graphical = value]
                                                                 ELSE d.watched[o]
    <3>1. r.d.watched[o] = IF o <= i - 1 /\ o \in Watchers(d, s) THEN [d.watched[o] EXCEPT !.graphical = value]
                                                                ELSE d.watched[o]
      BY DEF ToldUpTo
    <3>2. CASE o = i
      BY <1>1, <1>2, <1>5, <2>2, <2>4, <2>7, <3>2
    <3>3. CASE o # i
      <4>1. o <= i <=> o <= i - 1
        BY <1>1, <3>3
      <4>. QED BY <1>1, <1>2, <2>4, <2>7, <3>1, <3>3, <4>1
    <3>. QED BY <3>2, <3>3
  <2>10. \A t \in Seats : u.d.seats[t] # 0 <=> IF t = s /\ \E o \in Watchers(d, s) : o <= i THEN value
                                               ELSE d.seats[t] # 0
    <3>1. \E o \in Watchers(d, s) : o <= i
      BY <1>3, <1>5
    <3>2. \A t \in Seats : t # s => (r.d.seats[t] # 0 <=> d.seats[t] # 0)
      BY DEF ToldUpTo
    <3>. QED BY <2>3, <2>4, <3>1, <3>2
  <2>11. ASSUME NEW t \in Seats, SeatKept(d, q, t),
                \/ t # s \/ ~value \/ Watchers(d, s) = {}
                \/ d.seats[s] = 0 /\ \A o, p \in Watchers(d, s) : o = p
         PROVE  SeatKept(u.d, q \o u.post, t)
    <3>1. SeatKept(r.d, q \o r.post, t)
      BY <2>11 DEF ToldUpTo
    <3>2. t # s \/ ~value \/ r.d.seats[s] = 0
      <4>. SUFFICES ASSUME t = s, value PROVE r.d.seats[s] = 0
        OBVIOUS
      <4>1. d.seats[s] = 0 /\ \A o \in Watchers(d, s) : o = i
        BY <1>5, <2>11
      <4>2. ~\E o \in Watchers(d, s) : o <= i - 1
        BY <4>1
      <4>. QED BY <4>1, <4>2 DEF ToldUpTo
    <3>. QED BY <2>3, <2>4, <2>5, <3>1, <3>2
  <2>12. /\ Sane(u.d, q \o u.post) /\ u.d.pc = d.pc /\ u.d.systemSeats = d.systemSeats
         /\ Len(u.d.watched) = Len(d.watched)
    BY <1>2, <2>3, <2>4, <2>5, <2>8
  <2>13. ToldUpTo(d, q, s, value, i, u)
    BY <2>6, <2>9, <2>10, <2>11, <2>12 DEF ToldUpTo
  <2>. QED BY <1>5, <2>13 DEF u
<1>. QED BY <1>4, <1>5

\* All of them.
LEMMA AllToldKeeps ==
  ASSUME NEW d, NEW q, Sane(d, q), NEW s \in Seats, NEW value \in BOOLEAN
  PROVE  ToldUpTo(d, q, s, value, Len(d.watched), AllTold(d, s, value))
<1>. DEFINE M == Len(d.watched)
            first == [d |-> d, post |-> <<>>]
            Step(r, i) == IF i \in Watchers(d, s) THEN Told(r, i, value) ELSE r
            S == {r \in [d : Daemons, post : Seq(Deletes)] :
                    \E i \in 0 .. M : ToldUpTo(d, q, s, value, i, r)}
            G == [p \in S \X (1 .. M) |->
                    IF ToldUpTo(d, q, s, value, p[2] - 1, p[1]) THEN Step(p[1], p[2]) ELSE p[1]]
            Run(f) == f = [i \in 0 .. M |-> IF i = 0 THEN first ELSE Step(f[i - 1], i)]
<1>1. d \in Daemons /\ q \in Seq(Events) /\ M \in Nat /\ Watchers(d, s) \subseteq 1 .. M /\ DOMAIN d.watched = 1 .. M
  <2>1. d \in Daemons /\ d.watched \in Seq(Objects) /\ q \in Seq(Events)
    BY DEF Sane, DaemonOK, QueueOK, Daemons
  <2>. QED BY <2>1, LenProperties DEF Watchers
<1>2. ToldUpTo(d, q, s, value, 0, first)
  <2>1. q \o <<>> = q /\ <<>> \in Seq(Deletes)
    BY <1>1, ConcatEmptySeq, EmptySeq
  <2>2. \A o \in 1 .. M : ~(o <= 0)
    BY <1>1
  <2>. QED BY <1>1, <2>1, <2>2 DEF ToldUpTo
<1>3. \A r, i : i \in 1 .. M /\ ToldUpTo(d, q, s, value, i - 1, r) => ToldUpTo(d, q, s, value, i, Step(r, i))
  BY ToldOneMore
<1>. HIDE DEF Step, first, M
<1>4. first \in S
  <2>1. first \in [d : Daemons, post : Seq(Deletes)]
    BY <1>2 DEF ToldUpTo
  <2>2. 0 \in 0 .. M
    BY <1>1
  <2>. QED BY <1>2, <2>1, <2>2
<1>5. ASSUME NEW r \in S, NEW i \in 1 .. M
      PROVE  (IF ToldUpTo(d, q, s, value, i - 1, r) THEN Step(r, i) ELSE r) \in S
  <2>1. CASE ToldUpTo(d, q, s, value, i - 1, r)
    <3>1. ToldUpTo(d, q, s, value, i, Step(r, i)) /\ i \in 0 .. M
      BY <1>1, <1>3, <2>1
    <3>2. Step(r, i) \in [d : Daemons, post : Seq(Deletes)]
      BY <3>1 DEF ToldUpTo
    <3>. QED BY <2>1, <3>1, <3>2
  <2>. QED BY <2>1
<1>6. Closed(M, S, first, G)
  <2>1. G \in [S \X (1 .. M) -> S]
    BY <1>5
  <2>. QED BY <1>4, <2>1 DEF Closed
<1>7. \A r \in S, i \in 1 .. M : G[<<r, i>>] = IF ToldUpTo(d, q, s, value, i - 1, r) THEN Step(r, i) ELSE r
  OBVIOUS
<1>. HIDE DEF S, G
<1>8. HasCourse(M, S, first, G)
  BY <1>1, <1>6, StepByStep
<1>9. PICK f \in [0 .. M -> S] : f[0] = first /\ \A i \in 1 .. M : f[i] = G[<<f[i - 1], i>>]
  BY <1>8 DEF HasCourse
<1>10. \A i \in 0 .. M : ToldUpTo(d, q, s, value, i, f[i])
  <2>. DEFINE B == {i \in 0 .. M : ToldUpTo(d, q, s, value, i, f[i])}
  <2>1. 0 \in B
    BY <1>1, <1>2, <1>9
  <2>2. \A i \in 1 .. M : i - 1 \in B => i \in B
    <3>. SUFFICES ASSUME NEW i \in 1 .. M, ToldUpTo(d, q, s, value, i - 1, f[i - 1])
                  PROVE  i \in 0 .. M /\ ToldUpTo(d, q, s, value, i, f[i])
      BY DEF B
    <3>1. i - 1 \in 0 .. M /\ i \in 0 .. M
      BY <1>1
    <3>2. f[i] = Step(f[i - 1], i)
      BY <1>7, <1>9, <3>1
    <3>. QED BY <1>3, <3>1, <3>2
  <2>. HIDE DEF B
  <2>3. \A i \in 0 .. M : i \in B
    BY <1>1, <2>1, <2>2, Counting
  <2>. QED BY <2>3 DEF B
<1>11. Run(f)
  <2>1. \A i \in 0 .. M : f[i] = IF i = 0 THEN first ELSE Step(f[i - 1], i)
    <3>. SUFFICES ASSUME NEW i \in 0 .. M, i # 0 PROVE f[i] = Step(f[i - 1], i)
      BY <1>9
    <3>1. i - 1 \in 0 .. M /\ i \in 1 .. M
      BY <1>1
    <3>. QED BY <1>7, <1>9, <1>10, <3>1
  <2>. QED BY <1>9, <2>1
<1>. DEFINE g == CHOOSE h : Run(h)
<1>12. Run(g)
  BY <1>11
<1>13. AllTold(d, s, value) = g[M]
  BY DEF AllTold, first, M, Step
<1>. HIDE DEF g
<1>14. \A i \in 0 .. M : ToldUpTo(d, q, s, value, i, g[i])
  <2>. DEFINE B == {i \in 0 .. M : ToldUpTo(d, q, s, value, i, g[i])}
  <2>1. 0 \in B
    BY <1>1, <1>2, <1>12
  <2>2. \A i \in 1 .. M : i - 1 \in B => i \in B
    <3>. SUFFICES ASSUME NEW i \in 1 .. M, ToldUpTo(d, q, s, value, i - 1, g[i - 1])
                  PROVE  i \in 0 .. M /\ ToldUpTo(d, q, s, value, i, g[i])
      BY DEF B
    <3>1. i \in 0 .. M /\ i # 0
      BY <1>1
    <3>2. g[i] = Step(g[i - 1], i)
      BY <1>12, <3>1
    <3>. QED BY <1>3, <3>1, <3>2
  <2>. HIDE DEF B
  <2>3. \A i \in 0 .. M : i \in B
    BY <1>1, <2>1, <2>2, Counting
  <2>. QED BY <2>3 DEF B
<1>. QED BY <1>1, <1>13, <1>14 DEF M

\* A set that adding one of the seats T does not leave.
AddsWithin(S, T) == \A y \in S, s \in T : LogindSeatAdded(y, s) \in S

\* One seat after the other is added, within such a set.
LEMMA AddingGoesOn ==
  ASSUME NEW S, NEW T, NEW x \in S, NEW l \in Seq(T), AddsWithin(S, T)
  PROVE  \E g \in [0 .. Len(l) -> S] :
           /\ g[0] = x /\ g[Len(l)] = SeatsAdded(x, l)
           /\ \A i \in 1 .. Len(l) : g[i] = LogindSeatAdded(g[i - 1], l[i])
<1>. DEFINE M == Len(l)
            G == [p \in S \X (1 .. M) |-> LogindSeatAdded(p[1], l[p[2]])]
            Run(f) == f = [i \in 0 .. M |-> IF i = 0 THEN x ELSE LogindSeatAdded(f[i - 1], l[i])]
<1>1. M \in Nat /\ \A i \in 1 .. M : l[i] \in T
  BY LenProperties, ElementOfSeq
<1>2. \A y \in S, i \in 1 .. M : LogindSeatAdded(y, l[i]) \in S
  BY <1>1 DEF AddsWithin
<1>3. G \in [S \X (1 .. M) -> S]
  BY <1>2
<1>4. \A y \in S, i \in 1 .. M : G[<<y, i>>] = LogindSeatAdded(y, l[i])
  OBVIOUS
<1>. HIDE DEF G, M
<1>5. PICK f \in [0 .. M -> S] : f[0] = x /\ \A i \in 1 .. M : f[i] = G[<<f[i - 1], i>>]
  <2>1. Closed(M, S, x, G)
    BY <1>3 DEF Closed
  <2>2. HasCourse(M, S, x, G)
    BY <1>1, <2>1, StepByStep
  <2>. QED BY <2>2 DEF HasCourse
<1>6. Run(f)
  <2>1. \A i \in 0 .. M : i # 0 => i - 1 \in 0 .. M /\ i \in 1 .. M
    BY <1>1
  <2>2. \A i \in 0 .. M : f[i] = IF i = 0 THEN x ELSE LogindSeatAdded(f[i - 1], l[i])
    BY <1>4, <1>5, <2>1
  <2>. QED BY <1>5, <2>2
<1>. DEFINE g == CHOOSE h : Run(h)
<1>7. Run(g)
  BY <1>6
<1>8. SeatsAdded(x, l) = g[M]
  BY DEF SeatsAdded, M
<1>. HIDE DEF g
<1>9. g[0] = x /\ \A i \in 1 .. M : g[i] = LogindSeatAdded(g[i - 1], l[i])
  BY <1>1, <1>7
<1>10. g \in [0 .. M -> S]
  <2>. DEFINE B == {i \in 0 .. M : g[i] \in S}
  <2>1. 0 \in B
    BY <1>1, <1>9
  <2>2. \A i \in 1 .. M : i - 1 \in B => i \in B
    BY <1>2, <1>9
  <2>. HIDE DEF B
  <2>3. \A i \in 0 .. M : i \in B
    BY <1>1, <2>1, <2>2, Counting
  <2>. QED BY <1>7, <2>3 DEF B
<1>. QED BY <1>1, <1>8, <1>9, <1>10 DEF M

\* So all of them leave it in that set.
LEMMA AddingStays ==
  ASSUME NEW S, NEW T, NEW x \in S, NEW l \in Seq(T), AddsWithin(S, T)
  PROVE  SeatsAdded(x, l) \in S
<1>1. PICK g \in [0 .. Len(l) -> S] : g[Len(l)] = SeatsAdded(x, l)
  BY AddingGoesOn
<1>2. Len(l) \in 0 .. Len(l)
  BY LenProperties
<1>. QED BY <1>1, <1>2

\* The object a seat gets, and what is sent for it.
NewObject(s) == [seat |-> s, graphical |-> FALSE, alive |-> TRUE]

Asks(s, o) == [type |-> "Get", seat |-> s, of |-> o]

Subscribes(others, s) == IF others = {} THEN <<[type |-> "AddMatch", of |-> s]>> ELSE <<>>

\* What logindSeatAdded does to each field of the daemon.
LEMMA AddedIs ==
  ASSUME NEW x \in [d : Daemons, out : Seq(Messages)], NEW s \in Seats
  PROVE  LET y == LogindSeatAdded(x, s)
             o == Len(x.d.watched) + 1
         IN /\ y \in [d : Daemons, out : Seq(Messages)]
            /\ y.d.pc = x.d.pc /\ y.d.seats = x.d.seats /\ y.d.made = x.d.made
            /\ y.d.list = x.d.list /\ y.d.paths = x.d.paths
            /\ y.d.watched = Append(x.d.watched, NewObject(s))
            /\ y.d.systemSeats = [x.d.systemSeats EXCEPT ![s] = o]
            /\ y.out = x.out \o Subscribes(Watchers(x.d, s), s) \o <<Asks(s, o)>>
<1>. DEFINE y == LogindSeatAdded(x, s)
            o == Len(x.d.watched) + 1
            others == Watchers(x.d, s)
            d == x.d
            w == Append(d.watched, NewObject(s))
            m == [d.systemSeats EXCEPT ![s] = o]
            sent == x.out \o Subscribes(others, s) \o <<Asks(s, o)>>
<1>1. y = [d |-> [d EXCEPT !.watched = Append(@, NewObject(s)), !.systemSeats[s] = o], out |-> sent]
  BY DEF LogindSeatAdded, NewObject, Asks, Subscribes
<1>2. d \in Daemons /\ d.watched \in Seq(Objects) /\ d.systemSeats \in [Seats -> Nat] /\ x.out \in Seq(Messages)
  BY DEF Daemons
<1>3. NewObject(s) \in Objects
  BY DEF NewObject, Objects
<1>4. w \in Seq(Objects)
  BY <1>2, <1>3, AppendProperties
<1>5. o \in Nat /\ m \in [Seats -> Nat]
  <2>1. Len(d.watched) \in Nat
    BY <1>2, LenProperties
  <2>2. o \in Nat
    BY <2>1
  <2>. HIDE DEF o
  <2>. QED BY <1>2, <2>2
<1>6. sent \in Seq(Messages)
  <2>1. [type |-> "AddMatch", of |-> s] \in Messages /\ Asks(s, o) \in Messages
    BY <1>5 DEF Messages, Asks
  <2>2. Subscribes(others, s) \in Seq(Messages) /\ <<Asks(s, o)>> \in Seq(Messages)
    <3>. HIDE DEF o, others
    <3>. QED BY <2>1 DEF Subscribes
  <2>. HIDE DEF o, others
  <2>. QED BY <1>2, <2>2, ConcatProperties
<1>7. y = [d |-> [d EXCEPT !.watched = w, !.systemSeats = m], out |-> sent]
  BY <1>1
<1>. DEFINE e == [d EXCEPT !.watched = w, !.systemSeats = m]
<1>. HIDE DEF d, w, m, o, sent, y
<1>8. /\ e \in Daemons /\ e.pc = d.pc /\ e.seats = d.seats /\ e.made = d.made /\ e.list = d.list
      /\ e.paths = d.paths /\ e.watched = w /\ e.systemSeats = m
  BY <1>2, <1>4, <1>5 DEF Daemons
<1>. HIDE DEF e
<1>9. y = [d |-> e, out |-> sent]
  BY <1>7 DEF e
<1>10. y.d = e /\ y.out = sent /\ y \in [d : Daemons, out : Seq(Messages)]
  BY <1>6, <1>8, <1>9
<1>. QED BY <1>8, <1>10 DEF d, w, m, o, sent, y

\* The objects a seat has once it has one more.
LEMMA MoreWatchers ==
  ASSUME NEW w \in Seq(Objects), NEW s \in Seats, NEW d, d.watched = w,
         NEW n, n.watched = Append(w, NewObject(s))
  PROVE  /\ \A t : Watchers(n, t) = IF t = s THEN Watchers(d, t) \cup {Len(w) + 1} ELSE Watchers(d, t)
         /\ Len(w) \in Nat /\ DOMAIN w = 1 .. Len(w) /\ DOMAIN n.watched = 1 .. Len(w) + 1
         /\ n.watched \in Seq(Objects) /\ n.watched[Len(w) + 1] = NewObject(s)
         /\ \A o \in DOMAIN w : o \in DOMAIN n.watched /\ o # Len(w) + 1 /\ n.watched[o] = w[o]
<1>. DEFINE k == Len(w) + 1
<1>1. NewObject(s) \in Objects /\ NewObject(s).seat = s /\ NewObject(s).alive
  BY DEF NewObject, Objects
<1>2. /\ Len(w) \in Nat /\ DOMAIN w = 1 .. Len(w) /\ DOMAIN n.watched = 1 .. k
      /\ n.watched[k] = NewObject(s) /\ n.watched \in Seq(Objects)
      /\ \A o \in DOMAIN w : o \in 1 .. k /\ o # k /\ n.watched[o] = w[o]
      /\ \A o \in 1 .. k : o = k \/ o \in DOMAIN w
  BY <1>1, AppendIs, AppendProperties
<1>3. k \in 1 .. k
  BY <1>2
<1>. HIDE DEF k
<1>4. ASSUME NEW t
      PROVE  Watchers(n, t) = IF t = s THEN Watchers(d, t) \cup {k} ELSE Watchers(d, t)
  <2>1. \A o : o \in Watchers(n, t) <=> \/ o \in Watchers(d, t)
                                        \/ o = k /\ t = s
    BY <1>1, <1>2, <1>3 DEF Watchers
  <2>. QED BY <2>1
<1>. QED BY <1>2, <1>4 DEF k

\* A seat that is added changes nothing for the Seat objects and the paths.
LEMMA AddedKeeps ==
  ASSUME NEW x \in [d : Daemons, out : Seq(Messages)], NEW s \in Seats, NEW q, Sane(x.d, q)
  PROVE  LET y == LogindSeatAdded(x, s)
         IN Sane(y.d, q) /\ \A t : SeatKept(x.d, q, t) => SeatKept(y.d, q, t)
<1>. DEFINE y == LogindSeatAdded(x, s)
            k == Len(x.d.watched) + 1
<1>1. /\ y.d \in Daemons /\ y.d.seats = x.d.seats /\ y.d.made = x.d.made
      /\ y.d.list = x.d.list /\ y.d.paths = x.d.paths
      /\ y.d.watched = Append(x.d.watched, NewObject(s))
      /\ y.d.systemSeats = [x.d.systemSeats EXCEPT ![s] = k]
  BY AddedIs
<1>. HIDE DEF y
<1>2. x.d.watched \in Seq(Objects) /\ x.d.systemSeats \in [Seats -> Nat]
  BY DEF Daemons
<1>3. \A t : Watchers(y.d, t) = IF t = s THEN Watchers(x.d, t) \cup {k} ELSE Watchers(x.d, t)
  <2>. DEFINE w == x.d.watched
              d == x.d
              n == y.d
  <2>1. w \in Seq(Objects) /\ d.watched = w /\ n.watched = Append(w, NewObject(s))
    BY <1>1, <1>2
  <2>. HIDE DEF w, d, n
  <2>2. \A t : Watchers(n, t) = IF t = s THEN Watchers(d, t) \cup {Len(w) + 1} ELSE Watchers(d, t)
    BY <2>1, MoreWatchers
  <2>. QED BY <2>2 DEF w, d, n
<1>. HIDE DEF k
<1>4. \A t \in Seats : y.d.systemSeats[t] = 0 \/ y.d.systemSeats[t] \in Watchers(y.d, t)
  BY <1>1, <1>2, <1>3 DEF Sane, DaemonOK
<1>5. Sane(y.d, q) /\ \A t : SeatKept(x.d, q, t) => SeatKept(y.d, q, t)
  BY <1>1, <1>4, WatchedAside
<1>. QED BY <1>5 DEF y

\* An object that is deleted.
LEMMA Retired ==
  ASSUME NEW w \in Seq(Objects), NEW o \in DOMAIN w
  PROVE  LET m == [w EXCEPT ![o].alive = FALSE]
         IN /\ m \in Seq(Objects) /\ DOMAIN m = DOMAIN w /\ Len(m) = Len(w)
            /\ \A i \in DOMAIN w : /\ m[i].seat = w[i].seat /\ m[i].graphical = w[i].graphical
                                   /\ m[i].alive = (w[i].alive /\ i # o)
<1>. DEFINE x == [w[o] EXCEPT !.alive = FALSE]
            m == [w EXCEPT ![o] = x]
<1>1. DOMAIN w = 1 .. Len(w) /\ \A i \in DOMAIN w : w[i] \in Objects
  BY LenProperties, ElementOfSeq
<1>2. x \in Objects /\ x.seat = w[o].seat /\ x.alive = FALSE /\ x.graphical = w[o].graphical
  BY <1>1 DEF Objects
<1>. HIDE DEF x
<1>3. /\ m \in Seq(Objects) /\ Len(m) = Len(w)
      /\ \A i \in DOMAIN w : m[i] = IF i = o THEN x ELSE w[i]
  BY <1>1, <1>2, ExceptSeq
<1>4. DOMAIN m = DOMAIN w
  OBVIOUS
<1>5. [w EXCEPT ![o].alive = FALSE] = m
  BY DEF x
<1>. HIDE DEF m
<1>6. \A i \in DOMAIN w : /\ m[i].seat = w[i].seat /\ m[i].graphical = w[i].graphical
                          /\ m[i].alive = (w[i].alive /\ i # o)
  <2>1. \A i \in DOMAIN w : w[i].alive \in BOOLEAN
    BY <1>1 DEF Objects
  <2>. QED BY <1>2, <1>3, <2>1
<1>. QED BY <1>3, <1>4, <1>5, <1>6

\* The objects without the one m_systemSeats holds for s.
WithoutObject(d, s) == IF d.systemSeats[s] = 0 THEN d.watched
                       ELSE [d.watched EXCEPT ![d.systemSeats[s]].alive = FALSE]

\* Their watchers.
LEMMA FewerWatchers ==
  ASSUME NEW d, d.watched \in Seq(Objects), NEW s \in Seats,
         d.systemSeats[s] = 0 \/ d.systemSeats[s] \in Watchers(d, s),
         NEW n, n.watched = WithoutObject(d, s)
  PROVE  /\ n.watched \in Seq(Objects) /\ DOMAIN n.watched = DOMAIN d.watched
         /\ Len(n.watched) = Len(d.watched)
         /\ \A i \in DOMAIN d.watched : /\ n.watched[i].seat = d.watched[i].seat
                                        /\ n.watched[i].graphical = d.watched[i].graphical
         /\ \A t : Watchers(n, t) = IF t = s THEN Watchers(d, t) \ {d.systemSeats[s]} ELSE Watchers(d, t)
<1>. DEFINE o == d.systemSeats[s]
            w == d.watched
<1>1. DOMAIN w = 1 .. Len(w) /\ Len(w) \in Nat
  BY LenProperties
<1>2. CASE o = 0
  <2>1. 0 \notin DOMAIN w
    BY <1>1
  <2>. QED BY <1>2, <2>1 DEF WithoutObject, Watchers
<1>3. CASE o # 0
  <2>. DEFINE m == [w EXCEPT ![o].alive = FALSE]
  <2>1. o \in DOMAIN w /\ w[o].seat = s
    BY <1>3 DEF Watchers
  <2>2. n.watched = m
    BY <1>3 DEF WithoutObject
  <2>. HIDE DEF o, w
  <2>3. /\ m \in Seq(Objects) /\ DOMAIN m = DOMAIN w /\ Len(m) = Len(w)
        /\ \A i \in DOMAIN w : /\ m[i].seat = w[i].seat /\ m[i].graphical = w[i].graphical
                               /\ m[i].alive = (w[i].alive /\ i # o)
    BY <2>1, Retired DEF w
  <2>. HIDE DEF m
  <2>4. d.watched = w
    BY DEF w
  <2>5. ASSUME NEW t
        PROVE  Watchers(n, t) = IF t = s THEN Watchers(d, t) \ {o} ELSE Watchers(d, t)
    <3>1. \A i : i \in Watchers(n, t) <=> i \in Watchers(d, t) /\ i # o
      BY <2>2, <2>3, <2>4 DEF Watchers
    <3>2. t # s => o \notin Watchers(d, t)
      BY <2>1, <2>4 DEF Watchers
    <3>. QED BY <3>1, <3>2
  <2>. QED BY <2>2, <2>3, <2>4, <2>5 DEF o
<1>. QED BY <1>2, <1>3

\* The rule that goes with the last object of a seat.
Unsubscribes(o, left, s) == IF o # 0 /\ left = {} THEN <<[type |-> "RemoveMatch", of |-> s]>> ELSE <<>>

\* A seat that is removed: its object, its Seat and what is posted.
LEMMA RemovedKeeps ==
  ASSUME NEW d, NEW q, Sane(d, q), NEW s \in Seats
  PROVE  LET r == LogindSeatRemoved(d, s)
         IN /\ r.post \in Seq(Deletes) /\ r.d \in Daemons /\ r.d.pc = d.pc
            /\ r.d.watched = WithoutObject(d, s)
            /\ r.d.systemSeats = [d.systemSeats EXCEPT ![s] = 0]
            /\ r.d.seats = [d.seats EXCEPT ![s] = 0]
            /\ r.out = Unsubscribes(d.systemSeats[s], Watchers(r.d, s), s)
            /\ Sane(r.d, q \o r.post)
            /\ \A t \in Seats : SeatKept(d, q, t) => SeatKept(r.d, q \o r.post, t)
<1>. DEFINE r == LogindSeatRemoved(d, s)
            w == WithoutObject(d, s)
            m == [d.systemSeats EXCEPT ![s] = 0]
            e == [d EXCEPT !.systemSeats = m, !.watched = w]
            u == RemoveSeat(e, s)
<1>1. /\ d \in Daemons /\ d.watched \in Seq(Objects) /\ d.systemSeats \in [Seats -> Nat] /\ q \in Seq(Events)
      /\ \A t \in Seats : d.systemSeats[t] = 0 \/ d.systemSeats[t] \in Watchers(d, t)
  BY DEF Sane, DaemonOK, QueueOK, Daemons
<1>2. r = [d |-> u.d, post |-> u.post, out |-> Unsubscribes(d.systemSeats[s], Watchers(e, s), s)]
  <2>1. e = [d EXCEPT !.systemSeats[s] = 0,
                      !.watched = IF d.systemSeats[s] = 0 THEN @ ELSE [@ EXCEPT ![d.systemSeats[s]].alive = FALSE]]
    BY DEF WithoutObject
  <2>. QED BY <2>1 DEF LogindSeatRemoved, Unsubscribes
<1>3. w \in Seq(Objects) /\ m \in [Seats -> Nat]
  <2>. DEFINE n == [watched |-> w]
  <2>1. n.watched = w
    OBVIOUS
  <2>. HIDE DEF n, w
  <2>2. w \in Seq(Objects)
    BY <1>1, <2>1, FewerWatchers DEF w
  <2>. QED BY <1>1, <2>2
<1>. HIDE DEF w, m
<1>4. /\ e \in Daemons /\ e.pc = d.pc /\ e.watched = w /\ e.systemSeats = m
      /\ e.made = d.made /\ e.list = d.list /\ e.seats = d.seats /\ e.paths = d.paths
  BY <1>1, <1>3 DEF Daemons
<1>. HIDE DEF e
<1>5. \A t : Watchers(e, t) = IF t = s THEN Watchers(d, t) \ {d.systemSeats[s]} ELSE Watchers(d, t)
  BY <1>1, <1>4, FewerWatchers DEF w
<1>6. \A t \in Seats : e.systemSeats[t] = 0 \/ e.systemSeats[t] \in Watchers(e, t)
  BY <1>1, <1>4, <1>5 DEF m
<1>7. Sane(e, q) /\ \A t : SeatKept(d, q, t) => SeatKept(e, q, t)
  BY <1>4, <1>6, WatchedAside
<1>8. /\ u.post \in Seq(Deletes) /\ u.d \in Daemons
      /\ u.d.pc = e.pc /\ u.d.watched = e.watched /\ u.d.systemSeats = e.systemSeats
      /\ u.d.seats = [e.seats EXCEPT ![s] = 0]
      /\ Sane(u.d, q \o u.post)
      /\ \A t \in Seats : SeatKept(e, q, t) => SeatKept(u.d, q \o u.post, t)
  BY <1>7, RemoveSeatKeeps
<1>. HIDE DEF u
<1>9. Watchers(u.d, s) = Watchers(e, s)
  BY <1>8 DEF Watchers
<1>. HIDE DEF r
<1>10. /\ r.d = u.d /\ r.post = u.post
       /\ r.out = Unsubscribes(d.systemSeats[s], Watchers(u.d, s), s)
  BY <1>2, <1>9
<1>. QED BY <1>4, <1>7, <1>8, <1>10 DEF r, w, m

\* An event that deletes nothing leaves the queue, or joins it.
LEMMA NothingDeleted ==
  ASSUME NEW d, NEW q
  PROVE  /\ Sane(d, q) /\ q # <<>> /\ Head(q).type # "Delete" =>
              Sane(d, Tail(q)) /\ \A t : SeatKept(d, q, t) => SeatKept(d, Tail(q), t)
         /\ \A e \in Events : Sane(d, q) /\ e.type # "Delete" =>
              Sane(d, Append(q, e)) /\ \A t : SeatKept(d, q, t) => SeatKept(d, Append(q, e), t)
<1>0. \A what, id : Delete(what, id).type = "Delete"
  BY DEF Delete
<1>1. ASSUME Sane(d, q), q # <<>>, Head(q).type # "Delete"
      PROVE  Sane(d, Tail(q)) /\ \A t : SeatKept(d, q, t) => SeatKept(d, Tail(q), t)
  <2>1. q \in Seq(Events)
    BY <1>1 DEF Sane, QueueOK
  <2>2. Tail(q) \in Seq(Events) /\ \A what, id : Holds(q, Delete(what, id)) <=> Holds(Tail(q), Delete(what, id))
    BY <1>0, <1>1, <2>1, HoldsTail
  <2>. QED BY <1>1, <2>2 DEF Sane, QueueOK, PathsKept, SeatKept
<1>2. ASSUME NEW e \in Events, Sane(d, q), e.type # "Delete"
      PROVE  Sane(d, Append(q, e)) /\ \A t : SeatKept(d, q, t) => SeatKept(d, Append(q, e), t)
  <2>1. q \in Seq(Events)
    BY <1>2 DEF Sane, QueueOK
  <2>2. /\ Append(q, e) \in Seq(Events)
        /\ \A what, id : Holds(q, Delete(what, id)) <=> Holds(Append(q, e), Delete(what, id))
    BY <1>0, <1>2, <2>1, AppendIs, AppendProperties
  <2>. QED BY <1>2, <2>2 DEF Sane, QueueOK, PathsKept, SeatKept
<1>. QED BY <1>1, <1>2

\* What a deferred deletion does.
DeletedOne(d, e) ==
  LET s == d.made[e.of].seat
  IN IF e.what = "seat" THEN [d EXCEPT !.made[e.of].alive = FALSE]
     ELSE [d EXCEPT !.paths[s] = IF @ = e.of THEN 0 ELSE @]

\* A Seat that was posted is gone, a path that was posted is free.
LEMMA DeletedKeeps ==
  ASSUME NEW d, NEW q, Sane(d, q), q # <<>>, Head(q).type = "Delete"
  PROVE  LET n == DeletedOne(d, Head(q))
         IN /\ n \in Daemons /\ n.pc = d.pc /\ n.watched = d.watched /\ n.systemSeats = d.systemSeats
            /\ n.seats = d.seats
            /\ Sane(n, Tail(q)) /\ \A t \in Seats : SeatKept(d, q, t) => SeatKept(n, Tail(q), t)
<1>. DEFINE e == Head(q)
            n == DeletedOne(d, e)
            id == e.of
<1>1. /\ d \in Daemons /\ d.made \in Seq(SeatObjects) /\ d.list \in Seq(DOMAIN d.made)
      /\ d.paths \in [Seats -> Nat] /\ q \in Seq(Events)
  BY DEF Sane, DaemonOK, QueueOK, Daemons
<1>2. /\ e \in Events /\ Tail(q) \in Seq(Events)
      /\ \A x : Holds(q, x) <=> x = e \/ Holds(Tail(q), x)
  BY <1>1, HoldsTail
<1>3. e \in Deletes
  BY <1>2 DEF Events
<1>4. e = Delete(e.what, id) /\ e.what \in {"seat", "path"} /\ id \in Nat
  BY <1>3 DEF Deletes, Delete
<1>5. id \in DOMAIN d.made /\ d.made[id] \in SeatObjects
  <2>1. id \in DOMAIN d.made
    BY <1>2, <1>4 DEF Sane, QueueOK
  <2>. QED BY <1>1, <2>1, LenProperties, ElementOfSeq
<1>6. \A what, x : Delete(what, x) = e <=> what = e.what /\ x = id
  BY <1>4 DEF Delete
<1>. HIDE DEF e, id, n
<1>7. CASE e.what = "seat"
  <2>. DEFINE x == [d.made[id] EXCEPT !.alive = FALSE]
              m == [d.made EXCEPT ![id] = x]
  <2>1. x \in SeatObjects /\ x.seat = d.made[id].seat /\ ~x.alive
    BY <1>5 DEF SeatObjects
  <2>2. n = [d EXCEPT !.made = m]
    BY <1>7 DEF n, DeletedOne, id
  <2>. HIDE DEF x
  <2>3. m \in Seq(SeatObjects) /\ DOMAIN m = DOMAIN d.made /\ \A i \in DOMAIN d.made : m[i] = IF i = id THEN x ELSE d.made[i]
    <3>1. DOMAIN m = DOMAIN d.made
      OBVIOUS
    <3>2. DOMAIN d.made = 1 .. Len(d.made)
      BY <1>1, LenProperties
    <3>. QED BY <1>1, <1>5, <2>1, <3>1, <3>2, ExceptSeq
  <2>. HIDE DEF m
  <2>4. /\ n \in Daemons /\ n.pc = d.pc /\ n.watched = d.watched /\ n.systemSeats = d.systemSeats
        /\ n.seats = d.seats /\ n.made = m /\ n.list = d.list /\ n.paths = d.paths
    BY <1>1, <2>2, <2>3 DEF Daemons
  <2>5. \A i \in DOMAIN d.made : m[i].seat = d.made[i].seat
    BY <2>1, <2>3
  <2>6. DaemonOK(n)
    <3>1. n.list \in Seq(DOMAIN n.made)
      BY <1>1, <2>3, <2>4
    <3>2. ASSUME NEW t \in Seats
          PROVE  /\ n.systemSeats[t] = 0 \/ n.systemSeats[t] \in Watchers(n, t)
                 /\ n.seats[t] = 0 \/ (n.seats[t] \in DOMAIN n.made /\ n.made[n.seats[t]].seat = t)
                 /\ n.paths[t] = 0 \/ (n.paths[t] \in DOMAIN n.made /\ n.made[n.paths[t]].seat = t)
      BY <2>3, <2>4, <2>5 DEF Sane, DaemonOK, Watchers
    <3>. QED BY <2>4, <3>1, <3>2 DEF DaemonOK
  <2>7. QueueOK(n, Tail(q))
    BY <1>2, <2>3, <2>4 DEF Sane, QueueOK
  <2>8. PathsKept(n, Tail(q))
    BY <1>2, <1>6, <1>7, <2>4 DEF Sane, PathsKept
  <2>9. \A t \in Seats : SeatKept(d, q, t) => SeatKept(n, Tail(q), t)
    BY <1>2, <1>6, <2>1, <2>3, <2>4, <2>5 DEF SeatKept
  <2>. QED BY <2>4, <2>6, <2>7, <2>8, <2>9 DEF Sane, n, e
<1>8. CASE e.what = "path"
  <2>. DEFINE s == d.made[id].seat
              m == [d.paths EXCEPT ![s] = IF d.paths[s] = id THEN 0 ELSE d.paths[s]]
  <2>1. s \in Seats
    BY <1>5 DEF SeatObjects
  <2>2. n = [d EXCEPT !.paths = m]
    <3>1. "path" # "seat"
      OBVIOUS
    <3>. QED BY <1>8, <3>1 DEF n, DeletedOne, id
  <2>. HIDE DEF s
  <2>3. /\ m \in [Seats -> Nat]
        /\ \A t \in Seats : m[t] = IF t = s /\ d.paths[s] = id THEN 0 ELSE d.paths[t]
    BY <1>1, <2>1
  <2>. HIDE DEF m
  <2>4. /\ n \in Daemons /\ n.pc = d.pc /\ n.watched = d.watched /\ n.systemSeats = d.systemSeats
        /\ n.seats = d.seats /\ n.made = d.made /\ n.list = d.list /\ n.paths = m
    BY <1>1, <2>2, <2>3 DEF Daemons
  <2>5. DaemonOK(n)
    <3>1. ASSUME NEW t \in Seats
          PROVE  /\ n.systemSeats[t] = 0 \/ n.systemSeats[t] \in Watchers(n, t)
                 /\ n.seats[t] = 0 \/ (n.seats[t] \in DOMAIN n.made /\ n.made[n.seats[t]].seat = t)
                 /\ n.paths[t] = 0 \/ (n.paths[t] \in DOMAIN n.made /\ n.made[n.paths[t]].seat = t)
      BY <2>3, <2>4 DEF Sane, DaemonOK, Watchers
    <3>. QED BY <1>1, <2>4, <3>1 DEF DaemonOK
  <2>6. QueueOK(n, Tail(q))
    BY <1>2, <2>4 DEF Sane, QueueOK
  <2>7. PathsKept(n, Tail(q))
    <3>. SUFFICES ASSUME NEW t \in Seats, n.paths[t] # 0
                  PROVE  Holds(n.list, n.paths[t]) \/ Holds(Tail(q), Delete("path", n.paths[t]))
      BY DEF PathsKept
    <3>1. n.paths[t] = d.paths[t] /\ ~(t = s /\ d.paths[t] = id)
      BY <2>3, <2>4
    <3>2. d.made[d.paths[t]].seat = t
      BY <2>4, <3>1 DEF Sane, DaemonOK
    <3>3. d.paths[t] # id
      BY <3>1, <3>2 DEF s
    <3>. QED BY <1>2, <1>6, <2>4, <3>1, <3>3 DEF Sane, PathsKept
  <2>8. \A t \in Seats : SeatKept(d, q, t) => SeatKept(n, Tail(q), t)
    BY <1>2, <1>6, <1>8, <2>4 DEF SeatKept
  <2>. QED BY <2>4, <2>5, <2>6, <2>7, <2>8 DEF Sane, n, e
<1>. QED BY <1>4, <1>7, <1>8

Switched(d, s) ==
  [d EXCEPT !.switches = @ + 1,
            !.made = IF d.seats[s] = 0 THEN @ ELSE [d.made EXCEPT ![d.seats[s]].displays = @ + 1]]

\* One more display of a Seat is none of this.
LEMMA SwitchKeeps ==
  ASSUME NEW d, NEW q, Sane(d, q), NEW s \in Seats, NEW n, n = Switched(d, s)
  PROVE  /\ n \in Daemons /\ n.pc = d.pc /\ n.watched = d.watched /\ n.systemSeats = d.systemSeats
         /\ n.seats = d.seats
         /\ Sane(n, q) /\ \A t \in Seats : SeatKept(d, q, t) => SeatKept(n, q, t)
<1>. DEFINE id == d.seats[s]
            x == [d.made[id] EXCEPT !.displays = @ + 1]
            m == IF id = 0 THEN d.made ELSE [d.made EXCEPT ![id] = x]
<1>1. /\ d \in Daemons /\ d.made \in Seq(SeatObjects) /\ d.list \in Seq(DOMAIN d.made)
      /\ q \in Seq(Events) /\ d.switches \in Nat
      /\ id = 0 \/ id \in DOMAIN d.made
  BY DEF Sane, DaemonOK, QueueOK, Daemons
<1>2. /\ m \in Seq(SeatObjects) /\ DOMAIN m = DOMAIN d.made
      /\ \A i \in DOMAIN d.made : m[i].seat = d.made[i].seat /\ m[i].alive = d.made[i].alive
  <2>1. CASE id = 0
    BY <1>1, <2>1
  <2>2. CASE id # 0
    <3>1. id \in DOMAIN d.made /\ DOMAIN d.made = 1 .. Len(d.made)
      BY <1>1, <2>2, LenProperties
    <3>2. d.made[id] \in SeatObjects
      BY <1>1, <3>1, ElementOfSeq
    <3>3. x \in SeatObjects /\ x.seat = d.made[id].seat /\ x.alive = d.made[id].alive
      <4>. DEFINE y == d.made[id]
      <4>1. x = [y EXCEPT !.displays = y.displays + 1] /\ y \in SeatObjects
        BY <3>2
      <4>. HIDE DEF x, y
      <4>2. x \in SeatObjects /\ x.seat = y.seat /\ x.alive = y.alive
        BY <4>1 DEF SeatObjects
      <4>. QED BY <4>2 DEF y
    <3>. DEFINE k == [d.made EXCEPT ![id] = x]
    <3>4. DOMAIN k = DOMAIN d.made /\ m = k
      BY <2>2
    <3>. HIDE DEF x, id, m
    <3>5. k \in Seq(SeatObjects) /\ \A i \in DOMAIN d.made : k[i] = IF i = id THEN x ELSE d.made[i]
      BY <1>1, <3>1, <3>3, ExceptSeq
    <3>. HIDE DEF k
    <3>. QED BY <3>3, <3>4, <3>5
  <2>. QED BY <2>1, <2>2
<1>3. n = [d EXCEPT !.switches = d.switches + 1, !.made = m]
  <2>. DEFINE k == [d.made EXCEPT ![id].displays = @ + 1]
  <2>1. n = [d EXCEPT !.switches = d.switches + 1, !.made = IF id = 0 THEN d.made ELSE k]
    BY DEF Switched
  <2>2. k = [d.made EXCEPT ![id] = x]
    OBVIOUS
  <2>. HIDE DEF k, id, x
  <2>3. m = IF id = 0 THEN d.made ELSE k
    BY <2>2
  <2>. HIDE DEF m
  <2>. QED BY <2>1, <2>3
<1>. HIDE DEF m, id, x
<1>4. /\ n \in Daemons /\ n.pc = d.pc /\ n.watched = d.watched /\ n.systemSeats = d.systemSeats
      /\ n.seats = d.seats /\ n.made = m /\ n.list = d.list /\ n.paths = d.paths
  <2>1. d.switches + 1 \in Nat
    BY <1>1
  <2>. QED BY <1>1, <1>2, <1>3, <2>1 DEF Daemons
<1>5. DaemonOK(n)
  <2>1. ASSUME NEW t \in Seats
        PROVE  /\ n.systemSeats[t] = 0 \/ n.systemSeats[t] \in Watchers(n, t)
               /\ n.seats[t] = 0 \/ (n.seats[t] \in DOMAIN n.made /\ n.made[n.seats[t]].seat = t)
               /\ n.paths[t] = 0 \/ (n.paths[t] \in DOMAIN n.made /\ n.made[n.paths[t]].seat = t)
    <3>1. n.systemSeats[t] = 0 \/ n.systemSeats[t] \in Watchers(n, t)
      BY <1>4 DEF Sane, DaemonOK, Watchers
    <3>2. n.seats[t] = 0 \/ (n.seats[t] \in DOMAIN n.made /\ n.made[n.seats[t]].seat = t)
      <4>1. d.seats[t] = 0 \/ (d.seats[t] \in DOMAIN d.made /\ d.made[d.seats[t]].seat = t)
        BY DEF Sane, DaemonOK
      <4>. QED BY <1>2, <1>4, <4>1
    <3>3. n.paths[t] = 0 \/ (n.paths[t] \in DOMAIN n.made /\ n.made[n.paths[t]].seat = t)
      <4>1. d.paths[t] = 0 \/ (d.paths[t] \in DOMAIN d.made /\ d.made[d.paths[t]].seat = t)
        BY DEF Sane, DaemonOK
      <4>. QED BY <1>2, <1>4, <4>1
    <3>. QED BY <3>1, <3>2, <3>3
  <2>2. n.list \in Seq(DOMAIN n.made)
    BY <1>1, <1>2, <1>4
  <2>. QED BY <1>4, <2>1, <2>2 DEF DaemonOK
<1>6. QueueOK(n, q) /\ PathsKept(n, q) /\ \A t \in Seats : SeatKept(d, q, t) => SeatKept(n, q, t)
  BY <1>2, <1>4 DEF Sane, QueueOK, PathsKept, SeatKept
<1>. QED BY <1>4, <1>5, <1>6 DEF Sane

-----------------------------------------------------------------------------
(* The daemon as it will be.  A handler only changes the daemon and sends,  *)
(* and the queue keeps its order: so what the daemon comes to is determined  *)
(* by what it is and by the queue.  A view is what this needs of a daemon    *)
(* and of what it sent.                                                     *)

Views ==
  [d : [watched : Seq(Objects), systemSeats : [Seats -> Nat], up : [Seats -> BOOLEAN]], out : Seq(Messages)]

\* What of a daemon and its messages decides which seats run.
View(d, sent) ==
  [d |-> [watched |-> d.watched, systemSeats |-> d.systemSeats, up |-> [s \in Seats |-> d.seats[s] # 0]],
   out |-> sent]

\* What each handler does to a view.  LogindSeatAdded and SeatsAdded do it already.
Changed(v, s, value) ==
  [d |-> [watched |-> [o \in DOMAIN v.d.watched |->
                        IF o \in Watchers(v.d, s) THEN [v.d.watched[o] EXCEPT !.graphical = value]
                                                  ELSE v.d.watched[o]],
          systemSeats |-> v.d.systemSeats,
          up |-> IF Watchers(v.d, s) = {} THEN v.d.up ELSE [v.d.up EXCEPT ![s] = value]],
   out |-> v.out]

Answered(v, o, value) ==
  [d |-> [watched |-> [v.d.watched EXCEPT ![o].graphical = value],
          systemSeats |-> v.d.systemSeats,
          up |-> [v.d.up EXCEPT ![v.d.watched[o].seat] = value]],
   out |-> v.out]

Gone(v, s) ==
  LET d == [watched |-> WithoutObject(v.d, s),
            systemSeats |-> [v.d.systemSeats EXCEPT ![s] = 0],
            up |-> [v.d.up EXCEPT ![s] = FALSE]]
  IN [d |-> d, out |-> v.out \o Unsubscribes(v.d.systemSeats[s], Watchers(d, s), s)]

News(v, e) == e.valid /\ v.d.watched[e.of].alive /\ v.d.watched[e.of].graphical # e.value

Handled(v, e) ==
  CASE e.type = "Seats"       -> SeatsAdded(v, e.seats)
    [] e.type = "SeatNew"     -> LogindSeatAdded(v, e.of)
    [] e.type = "SeatRemoved" -> Gone(v, e.of)
    [] e.type = "Changed"     -> Changed(v, e.of, e.value)
    [] e.type = "Value"       -> IF News(v, e) THEN Answered(v, e.of, e.value) ELSE v
    [] OTHER                  -> v

\* What a view has in common with its daemon.
LEMMA ViewIs ==
  ASSUME NEW d \in Daemons, NEW sent \in Seq(Messages)
  PROVE  /\ View(d, sent) \in Views
         /\ View(d, sent).d.watched = d.watched /\ View(d, sent).d.systemSeats = d.systemSeats
         /\ View(d, sent).out = sent
         /\ \A s \in Seats : View(d, sent).d.up[s] = (d.seats[s] # 0)
         /\ View(d, sent).d.up = [s \in Seats |-> d.seats[s] # 0]
         /\ \A s : Watchers(View(d, sent).d, s) = Watchers(d, s)
<1>. DEFINE up == [s \in Seats |-> d.seats[s] # 0]
            v == View(d, sent)
<1>1. d.watched \in Seq(Objects) /\ d.systemSeats \in [Seats -> Nat]
  BY DEF Daemons
<1>2. v = [d |-> [watched |-> d.watched, systemSeats |-> d.systemSeats, up |-> up], out |-> sent]
  BY DEF View
<1>3. up \in [Seats -> BOOLEAN] /\ \A s \in Seats : up[s] = (d.seats[s] # 0)
  OBVIOUS
<1>. HIDE DEF up, v
<1>4. v \in Views /\ v.d.watched = d.watched /\ v.d.systemSeats = d.systemSeats /\ v.out = sent /\ v.d.up = up
  BY <1>1, <1>2, <1>3 DEF Views
<1>5. \A s : Watchers(v.d, s) = Watchers(d, s)
  BY <1>4 DEF Watchers
<1>. QED BY <1>3, <1>4, <1>5 DEF v, up

\* Two views are the same when their fields are.
LEMMA SameView ==
  ASSUME NEW v \in Views, NEW w \in Views, v.d.watched = w.d.watched, v.d.systemSeats = w.d.systemSeats,
         v.out = w.out, \A s \in Seats : v.d.up[s] = w.d.up[s]
  PROVE  v = w
<1>1. v.d.up = w.d.up
  <2>1. v.d.up \in [Seats -> BOOLEAN] /\ w.d.up \in [Seats -> BOOLEAN]
    BY DEF Views
  <2>. QED BY <2>1
<1>2. v.d = w.d
  <2>1. \A r : r \in Views => r.d = [watched |-> r.d.watched, systemSeats |-> r.d.systemSeats, up |-> r.d.up]
    BY DEF Views
  <2>2. v.d = [watched |-> v.d.watched, systemSeats |-> v.d.systemSeats, up |-> v.d.up]
    BY <2>1
  <2>3. w.d = [watched |-> w.d.watched, systemSeats |-> w.d.systemSeats, up |-> w.d.up]
    BY <2>1
  <2>. QED BY <1>1, <2>2, <2>3
<1>3. \A r : r \in Views => r = [d |-> r.d, out |-> r.out]
  BY DEF Views
<1>4. v = [d |-> v.d, out |-> v.out]
  BY <1>3
<1>5. w = [d |-> w.d, out |-> w.out]
  BY <1>3
<1>. QED BY <1>2, <1>4, <1>5

\* What logindSeatAdded does to each field of a view.
LEMMA ViewAdded ==
  ASSUME NEW v \in Views, NEW s \in Seats
  PROVE  LET y == LogindSeatAdded(v, s)
             o == Len(v.d.watched) + 1
         IN /\ y \in Views /\ y.d.up = v.d.up
            /\ y.d.watched = Append(v.d.watched, NewObject(s))
            /\ y.d.systemSeats = [v.d.systemSeats EXCEPT ![s] = o]
            /\ y.out = v.out \o Subscribes(Watchers(v.d, s), s) \o <<Asks(s, o)>>
<1>. DEFINE y == LogindSeatAdded(v, s)
            o == Len(v.d.watched) + 1
            others == Watchers(v.d, s)
            d == v.d
            w == Append(d.watched, NewObject(s))
            m == [d.systemSeats EXCEPT ![s] = o]
            sent == v.out \o Subscribes(others, s) \o <<Asks(s, o)>>
            Watches == [watched : Seq(Objects), systemSeats : [Seats -> Nat], up : [Seats -> BOOLEAN]]
<1>1. y = [d |-> [d EXCEPT !.watched = Append(@, NewObject(s)), !.systemSeats[s] = o], out |-> sent]
  BY DEF LogindSeatAdded, NewObject, Asks, Subscribes
<1>2. /\ d \in Watches /\ d.watched \in Seq(Objects) /\ d.systemSeats \in [Seats -> Nat] /\ v.out \in Seq(Messages)
      /\ d.up \in [Seats -> BOOLEAN]
  BY DEF Views
<1>3. NewObject(s) \in Objects
  BY DEF NewObject, Objects
<1>4. w \in Seq(Objects)
  BY <1>2, <1>3, AppendProperties
<1>5. o \in Nat /\ m \in [Seats -> Nat]
  <2>1. Len(d.watched) \in Nat
    BY <1>2, LenProperties
  <2>2. o \in Nat
    BY <2>1
  <2>. HIDE DEF o
  <2>. QED BY <1>2, <2>2
<1>6. sent \in Seq(Messages)
  <2>1. [type |-> "AddMatch", of |-> s] \in Messages /\ Asks(s, o) \in Messages
    BY <1>5 DEF Messages, Asks
  <2>2. Subscribes(others, s) \in Seq(Messages) /\ <<Asks(s, o)>> \in Seq(Messages)
    <3>. HIDE DEF o, others
    <3>. QED BY <2>1 DEF Subscribes
  <2>. HIDE DEF o, others
  <2>. QED BY <1>2, <2>2, ConcatProperties
<1>7. y = [d |-> [d EXCEPT !.watched = w, !.systemSeats = m], out |-> sent]
  BY <1>1
<1>. DEFINE e == [d EXCEPT !.watched = w, !.systemSeats = m]
<1>. HIDE DEF d, w, m, o, sent, y
<1>8. e \in Watches /\ e.up = d.up /\ e.watched = w /\ e.systemSeats = m
  BY <1>2, <1>4, <1>5
<1>. HIDE DEF e
<1>9. y = [d |-> e, out |-> sent]
  BY <1>7 DEF e
<1>10. y.d = e /\ y.out = sent /\ y \in [d : Watches, out : Seq(Messages)]
  <2>. HIDE DEF Watches
  <2>. QED BY <1>6, <1>8, <1>9
<1>11. y \in Views
  BY <1>10 DEF Views
<1>. QED BY <1>8, <1>10, <1>11 DEF d, w, m, o, sent, y

\* Adding a seat to a daemon shows in its view.
LEMMA AddedShows ==
  ASSUME NEW x \in [d : Daemons, out : Seq(Messages)], NEW s \in Seats
  PROVE  View(LogindSeatAdded(x, s).d, LogindSeatAdded(x, s).out) = LogindSeatAdded(View(x.d, x.out), s)
<1>. DEFINE y == LogindSeatAdded(x, s)
            v == View(x.d, x.out)
            u == View(y.d, y.out)
            w == LogindSeatAdded(v, s)
<1>1. /\ y.d \in Daemons /\ y.out \in Seq(Messages) /\ y.d.seats = x.d.seats
      /\ y.d.watched = Append(x.d.watched, NewObject(s))
      /\ y.d.systemSeats = [x.d.systemSeats EXCEPT ![s] = Len(x.d.watched) + 1]
      /\ y.out = x.out \o Subscribes(Watchers(x.d, s), s) \o <<Asks(s, Len(x.d.watched) + 1)>>
  <2>1. y \in [d : Daemons, out : Seq(Messages)]
    BY AddedIs
  <2>2. y.d \in Daemons /\ y.out \in Seq(Messages)
    <3>. HIDE DEF y
    <3>. QED BY <2>1
  <2>. QED BY <2>2, AddedIs
<1>. HIDE DEF y
<1>2. /\ v \in Views /\ v.d.watched = x.d.watched /\ v.d.systemSeats = x.d.systemSeats /\ v.out = x.out
      /\ \A t \in Seats : v.d.up[t] = (x.d.seats[t] # 0)
      /\ Watchers(v.d, s) = Watchers(x.d, s)
  <2>. DEFINE d == x.d
              sent == x.out
  <2>1. d \in Daemons /\ sent \in Seq(Messages)
    OBVIOUS
  <2>. HIDE DEF d, sent
  <2>2. /\ View(d, sent) \in Views /\ View(d, sent).d.watched = d.watched
        /\ View(d, sent).d.systemSeats = d.systemSeats /\ View(d, sent).out = sent
        /\ \A t \in Seats : View(d, sent).d.up[t] = (d.seats[t] # 0)
    BY <2>1, ViewIs
  <2>3. Watchers(View(d, sent).d, s) = Watchers(d, s)
    BY <2>2 DEF Watchers
  <2>. QED BY <2>2, <2>3 DEF d, sent
<1>3. /\ u \in Views /\ u.d.watched = y.d.watched /\ u.d.systemSeats = y.d.systemSeats /\ u.out = y.out
      /\ \A t \in Seats : u.d.up[t] = (y.d.seats[t] # 0)
  <2>. DEFINE d == y.d
              sent == y.out
  <2>1. d \in Daemons /\ sent \in Seq(Messages)
    BY <1>1
  <2>. HIDE DEF d, sent
  <2>2. /\ View(d, sent) \in Views /\ View(d, sent).d.watched = d.watched
        /\ View(d, sent).d.systemSeats = d.systemSeats /\ View(d, sent).out = sent
        /\ \A t \in Seats : View(d, sent).d.up[t] = (d.seats[t] # 0)
    BY <2>1, ViewIs
  <2>. QED BY <2>2 DEF d, sent
<1>. HIDE DEF v, u
<1>4. /\ w \in Views /\ w.d.up = v.d.up
      /\ w.d.watched = Append(v.d.watched, NewObject(s))
      /\ w.d.systemSeats = [v.d.systemSeats EXCEPT ![s] = Len(v.d.watched) + 1]
      /\ w.out = v.out \o Subscribes(Watchers(v.d, s), s) \o <<Asks(s, Len(v.d.watched) + 1)>>
  BY <1>2, ViewAdded
<1>. HIDE DEF w
<1>5. u = w
  <2>1. /\ u.d.watched = w.d.watched /\ u.d.systemSeats = w.d.systemSeats
        /\ \A t \in Seats : u.d.up[t] = w.d.up[t]
    BY <1>1, <1>2, <1>3, <1>4
  <2>2. u.out = w.out
    BY <1>1, <1>2, <1>3, <1>4
  <2>. QED BY <1>3, <1>4, <2>1, <2>2, SameView
<1>. QED BY <1>5 DEF u, w, v, y

\* So does adding them all.
LEMMA AllAddedShow ==
  ASSUME NEW x \in [d : Daemons, out : Seq(Messages)], NEW l \in Seq(Seats)
  PROVE  /\ SeatsAdded(View(x.d, x.out), l) \in Views
         /\ View(SeatsAdded(x, l).d, SeatsAdded(x, l).out) = SeatsAdded(View(x.d, x.out), l)
<1>. DEFINE S == [d : Daemons, out : Seq(Messages)]
            v == View(x.d, x.out)
<1>1. AddsWithin(S, Seats)
  BY AddedIs DEF AddsWithin
<1>2. AddsWithin(Views, Seats)
  BY ViewAdded DEF AddsWithin
<1>3. v \in Views
  BY ViewIs
<1>4. \A y \in S, s \in Seats :
        View(LogindSeatAdded(y, s).d, LogindSeatAdded(y, s).out) = LogindSeatAdded(View(y.d, y.out), s)
  BY AddedShows
<1>. HIDE DEF v, S
<1>5. PICK g \in [0 .. Len(l) -> S] :
        /\ g[0] = x /\ g[Len(l)] = SeatsAdded(x, l)
        /\ \A i \in 1 .. Len(l) : g[i] = LogindSeatAdded(g[i - 1], l[i])
  <2>1. x \in S
    BY DEF S
  <2>. QED BY <1>1, <2>1, AddingGoesOn
<1>6. PICK h \in [0 .. Len(l) -> Views] :
        /\ h[0] = v /\ h[Len(l)] = SeatsAdded(v, l)
        /\ \A i \in 1 .. Len(l) : h[i] = LogindSeatAdded(h[i - 1], l[i])
  BY <1>2, <1>3, AddingGoesOn
<1>7. Len(l) \in Nat /\ \A i \in 1 .. Len(l) : l[i] \in Seats
  BY LenProperties, ElementOfSeq
<1>8. \A i \in 0 .. Len(l) : View(g[i].d, g[i].out) = h[i]
  <2>. DEFINE B == {i \in 0 .. Len(l) : View(g[i].d, g[i].out) = h[i]}
  <2>1. 0 \in B
    BY <1>5, <1>6, <1>7 DEF v
  <2>2. \A i \in 1 .. Len(l) : i - 1 \in B => i \in B
    <3>. SUFFICES ASSUME NEW i \in 1 .. Len(l), View(g[i - 1].d, g[i - 1].out) = h[i - 1]
                  PROVE  i \in 0 .. Len(l) /\ View(g[i].d, g[i].out) = h[i]
      BY DEF B
    <3>1. i \in 0 .. Len(l) /\ i - 1 \in 0 .. Len(l) /\ l[i] \in Seats
      BY <1>7
    <3>2. g[i] = LogindSeatAdded(g[i - 1], l[i]) /\ h[i] = LogindSeatAdded(h[i - 1], l[i]) /\ g[i - 1] \in S
      BY <1>5, <1>6, <3>1
    <3>. QED BY <1>4, <3>1, <3>2
  <2>. HIDE DEF B
  <2>3. \A i \in 0 .. Len(l) : i \in B
    BY <1>7, <2>1, <2>2, Counting
  <2>. QED BY <2>3 DEF B
<1>9. Len(l) \in 0 .. Len(l)
  BY <1>7
<1>10. View(SeatsAdded(x, l).d, SeatsAdded(x, l).out) = SeatsAdded(v, l) /\ SeatsAdded(v, l) \in Views
  BY <1>5, <1>6, <1>8, <1>9
<1>. QED BY <1>10 DEF v

\* m_systemSeats has lost an object of s: Leaked, of a view.
Lost(v, s) == \E o \in Watchers(v.d, s) : v.d.systemSeats[s] # o

\* Event e makes a second Seat of s.
Doubles(v, e, s) ==
  /\ v.d.up[s] /\ ~Lost(v, s)
  /\ \/ e.type = "Changed" /\ e.of = s /\ e.value /\ Watchers(v.d, s) # {}
     \/ e.type = "Value" /\ News(v, e) /\ v.d.watched[e.of].seat = s /\ e.value

\* A view whose m_systemSeats names objects that are there.
Tracks(v) == v \in Views /\ \A s \in Seats : v.d.systemSeats[s] = 0 \/ v.d.systemSeats[s] \in Watchers(v.d, s)

\* What the change of a property or an answer makes of view v.
ChangedTo(v, s, value, y) ==
  /\ y \in Views /\ y.d.systemSeats = v.d.systemSeats /\ y.out = v.out
  /\ DOMAIN y.d.watched = DOMAIN v.d.watched
  /\ \A i \in DOMAIN v.d.watched :
       /\ y.d.watched[i].seat = v.d.watched[i].seat
       /\ y.d.watched[i].graphical = IF i \in Watchers(v.d, s) THEN value ELSE v.d.watched[i].graphical
  /\ \A t \in Seats : y.d.up[t] = IF t = s /\ Watchers(v.d, s) # {} THEN value ELSE v.d.up[t]
  /\ \A t : Watchers(y.d, t) = Watchers(v.d, t)

AnsweredTo(v, o, value, y) ==
  /\ y \in Views /\ y.d.systemSeats = v.d.systemSeats /\ y.out = v.out
  /\ DOMAIN y.d.watched = DOMAIN v.d.watched /\ v.d.watched[o].seat \in Seats
  /\ \A i \in DOMAIN v.d.watched :
       /\ y.d.watched[i].seat = v.d.watched[i].seat
       /\ y.d.watched[i].graphical = IF i = o THEN value ELSE v.d.watched[i].graphical
  /\ \A t \in Seats : y.d.up[t] = IF t = v.d.watched[o].seat THEN value ELSE v.d.up[t]
  /\ \A t : Watchers(y.d, t) = Watchers(v.d, t)

\* What the change of a property does to each field of a view.
LEMMA ViewChanged ==
  ASSUME NEW v \in Views, NEW s \in Seats, NEW value \in BOOLEAN
  PROVE  /\ ChangedTo(v, s, value, Changed(v, s, value))
         /\ Len(Changed(v, s, value).d.watched) = Len(v.d.watched)
<1>. DEFINE y == Changed(v, s, value)
            w == v.d.watched
            W == Watchers(v.d, s)
            m == [o \in DOMAIN w |-> IF o \in W THEN [w[o] EXCEPT !.graphical = value] ELSE w[o]]
            up == IF W = {} THEN v.d.up ELSE [v.d.up EXCEPT ![s] = value]
<1>1. y = [d |-> [watched |-> m, systemSeats |-> v.d.systemSeats, up |-> up], out |-> v.out]
  BY DEF Changed
<1>2. /\ w \in Seq(Objects) /\ v.d.systemSeats \in [Seats -> Nat] /\ v.d.up \in [Seats -> BOOLEAN]
      /\ v.out \in Seq(Messages)
  BY DEF Views
<1>3. Len(w) \in Nat /\ DOMAIN w = 1 .. Len(w) /\ \A o \in DOMAIN w : w[o] \in Objects
  BY <1>2, LenProperties, ElementOfSeq
<1>4. \A t : Watchers(v.d, t) = {o \in DOMAIN w : w[o].seat = t /\ w[o].alive}
  BY DEF Watchers
<1>. HIDE DEF w, W, y
<1>5. /\ \A o \in DOMAIN w : m[o] = IF o \in W THEN [w[o] EXCEPT !.graphical = value] ELSE w[o]
      /\ DOMAIN m = DOMAIN w
      /\ \A o \in DOMAIN w : m[o] \in Objects
  BY <1>3 DEF Objects
<1>6. \A o \in DOMAIN w : /\ m[o].seat = w[o].seat /\ m[o].alive = w[o].alive
                          /\ m[o].graphical = IF o \in W THEN value ELSE w[o].graphical
  BY <1>3, <1>5 DEF Objects
<1>7. m \in Seq(Objects) /\ Len(m) = Len(w)
  <2>1. m = [o \in 1 .. Len(w) |-> m[o]]
    BY <1>3, <1>5
  <2>2. m \in [1 .. Len(w) -> Objects]
    BY <1>3, <1>5
  <2>. HIDE DEF m
  <2>3. m \in Seq(Objects)
    BY <1>3, <2>2
  <2>. QED BY <1>3, <2>2, <2>3, LenProperties
<1>8. up \in [Seats -> BOOLEAN] /\ \A t \in Seats : up[t] = IF t = s /\ W # {} THEN value ELSE v.d.up[t]
  BY <1>2
<1>. HIDE DEF m, up
<1>9. /\ y \in Views /\ y.d.watched = m /\ y.d.systemSeats = v.d.systemSeats /\ y.d.up = up /\ y.out = v.out
  BY <1>1, <1>2, <1>7, <1>8 DEF Views
<1>10. \A t : Watchers(y.d, t) = Watchers(v.d, t)
  BY <1>4, <1>5, <1>6, <1>9 DEF Watchers
<1>11. v.d.watched = w /\ Watchers(v.d, s) = W
  BY DEF w, W
<1>12. ChangedTo(v, s, value, y)
  BY <1>5, <1>6, <1>8, <1>9, <1>10, <1>11 DEF ChangedTo
<1>13. Len(y.d.watched) = Len(v.d.watched)
  BY <1>7, <1>9, <1>11
<1>. QED BY <1>12, <1>13 DEF y

\* What an answer does to each field of a view.
LEMMA ViewAnswered ==
  ASSUME NEW v \in Views, NEW o \in DOMAIN v.d.watched, NEW value \in BOOLEAN
  PROVE  AnsweredTo(v, o, value, Answered(v, o, value))
<1>. DEFINE y == Answered(v, o, value)
            w == v.d.watched
            s == w[o].seat
            m == [w EXCEPT ![o].graphical = value]
            up == [v.d.up EXCEPT ![s] = value]
<1>1. y = [d |-> [watched |-> m, systemSeats |-> v.d.systemSeats, up |-> up], out |-> v.out]
  BY DEF Answered
<1>2. /\ w \in Seq(Objects) /\ v.d.systemSeats \in [Seats -> Nat] /\ v.d.up \in [Seats -> BOOLEAN]
      /\ v.out \in Seq(Messages)
  BY DEF Views
<1>3. o \in DOMAIN w /\ \A t : Watchers(v.d, t) = {i \in DOMAIN w : w[i].seat = t /\ w[i].alive}
  BY DEF Watchers
<1>. HIDE DEF w, y
<1>4. /\ m \in Seq(Objects) /\ DOMAIN m = DOMAIN w /\ Len(m) = Len(w)
      /\ \A i \in DOMAIN w : /\ m[i].seat = w[i].seat /\ m[i].alive = w[i].alive
                             /\ m[i].graphical = IF i = o THEN value ELSE w[i].graphical
                             /\ w[i] \in Objects
  BY <1>2, <1>3, Marked
<1>5. s \in Seats
  BY <1>3, <1>4 DEF Objects
<1>. HIDE DEF m, s
<1>6. up \in [Seats -> BOOLEAN] /\ \A t \in Seats : up[t] = IF t = s THEN value ELSE v.d.up[t]
  BY <1>2, <1>5
<1>. HIDE DEF up
<1>7. /\ y \in Views /\ y.d.watched = m /\ y.d.systemSeats = v.d.systemSeats /\ y.d.up = up /\ y.out = v.out
  BY <1>1, <1>2, <1>4, <1>6 DEF Views
<1>8. \A t : Watchers(y.d, t) = Watchers(v.d, t)
  <2>1. \A t : Watchers(y.d, t) = {i \in DOMAIN m : m[i].seat = t /\ m[i].alive}
    BY <1>7 DEF Watchers
  <2>2. ASSUME NEW t PROVE Watchers(y.d, t) = Watchers(v.d, t)
    <3>1. \A i : i \in Watchers(y.d, t) <=> i \in Watchers(v.d, t)
      BY <1>3, <1>4, <2>1
    <3>. QED BY <3>1
  <2>. QED BY <2>2
<1>9. v.d.watched = w /\ v.d.watched[o].seat = s
  BY DEF w, s
<1>10. AnsweredTo(v, o, value, y)
  BY <1>4, <1>5, <1>6, <1>7, <1>8, <1>9 DEF AnsweredTo
<1>. QED BY <1>10 DEF y

\* What the removal of a seat does to each field of a view.
LEMMA ViewGone ==
  ASSUME NEW v, Tracks(v), NEW s \in Seats
  PROVE  LET y == Gone(v, s)
         IN /\ y \in Views
            /\ y.out = v.out \o Unsubscribes(v.d.systemSeats[s], Watchers(y.d, s), s)
            /\ y.d.watched = WithoutObject(v.d, s)
            /\ y.d.systemSeats = [v.d.systemSeats EXCEPT ![s] = 0]
            /\ \A t \in Seats : y.d.systemSeats[t] = IF t = s THEN 0 ELSE v.d.systemSeats[t]
            /\ DOMAIN y.d.watched = DOMAIN v.d.watched /\ Len(y.d.watched) = Len(v.d.watched)
            /\ \A i \in DOMAIN v.d.watched : /\ y.d.watched[i].seat = v.d.watched[i].seat
                                             /\ y.d.watched[i].graphical = v.d.watched[i].graphical
            /\ \A t \in Seats : y.d.up[t] = IF t = s THEN FALSE ELSE v.d.up[t]
            /\ \A t : Watchers(y.d, t) = IF t = s THEN Watchers(v.d, t) \ {v.d.systemSeats[s]}
                                                  ELSE Watchers(v.d, t)
<1>. DEFINE y == Gone(v, s)
            d == v.d
            w == WithoutObject(d, s)
            m == [d.systemSeats EXCEPT ![s] = 0]
            up == [d.up EXCEPT ![s] = FALSE]
            n == [watched |-> w, systemSeats |-> m, up |-> up]
            sent == v.out \o Unsubscribes(d.systemSeats[s], Watchers(n, s), s)
<1>1. y = [d |-> n, out |-> sent]
  BY DEF Gone
<1>2. /\ d.watched \in Seq(Objects) /\ d.systemSeats \in [Seats -> Nat] /\ d.up \in [Seats -> BOOLEAN]
      /\ v.out \in Seq(Messages) /\ (d.systemSeats[s] = 0 \/ d.systemSeats[s] \in Watchers(d, s))
  BY DEF Views, Tracks
<1>3. n.watched = w /\ n.systemSeats = m /\ n.up = up
  OBVIOUS
<1>4. /\ m \in [Seats -> Nat] /\ up \in [Seats -> BOOLEAN]
      /\ \A t \in Seats : m[t] = IF t = s THEN 0 ELSE d.systemSeats[t]
      /\ \A t \in Seats : up[t] = IF t = s THEN FALSE ELSE d.up[t]
  BY <1>2
<1>. HIDE DEF w, d, y, m, up, n
<1>5. /\ n.watched \in Seq(Objects) /\ DOMAIN n.watched = DOMAIN d.watched
      /\ Len(n.watched) = Len(d.watched)
      /\ \A i \in DOMAIN d.watched : /\ n.watched[i].seat = d.watched[i].seat
                                     /\ n.watched[i].graphical = d.watched[i].graphical
      /\ \A t : Watchers(n, t) = IF t = s THEN Watchers(d, t) \ {d.systemSeats[s]} ELSE Watchers(d, t)
  BY <1>2, <1>3, FewerWatchers DEF w
<1>6. sent \in Seq(Messages)
  <2>1. [type |-> "RemoveMatch", of |-> s] \in Messages
    BY DEF Messages
  <2>2. \A o, left : Unsubscribes(o, left, s) \in Seq(Messages)
    BY <2>1 DEF Unsubscribes
  <2>. QED BY <1>2, <2>2, ConcatProperties
<1>. HIDE DEF sent
<1>7. n \in [watched : Seq(Objects), systemSeats : [Seats -> Nat], up : [Seats -> BOOLEAN]]
  <2>1. n = [watched |-> w, systemSeats |-> m, up |-> up]
    BY DEF n
  <2>. QED BY <1>3, <1>4, <1>5, <2>1
<1>8. y \in Views /\ y.d = n /\ y.out = sent
  BY <1>1, <1>6, <1>7 DEF Views
<1>. QED BY <1>3, <1>4, <1>5, <1>8 DEF y, d, w, m, sent

-----------------------------------------------------------------------------
(* What handling the first event leads to *)

Outcome(d, sent, e) ==
  CASE e.type = "Seats"       -> LET x == SeatsAdded([d |-> d, out |-> sent], e.seats)
                                 IN [d |-> x.d, out |-> x.out, post |-> <<>>]
    [] e.type = "SeatNew"     -> LET x == LogindSeatAdded([d |-> d, out |-> sent], e.of)
                                 IN [d |-> x.d, out |-> x.out, post |-> <<>>]
    [] e.type = "SeatRemoved" -> LET r == LogindSeatRemoved(d, e.of)
                                 IN [d |-> r.d, out |-> sent \o r.out, post |-> r.post]
    [] e.type = "Changed"     -> LET r == AllTold(d, e.of, e.value)
                                 IN [d |-> r.d, out |-> sent, post |-> r.post]
    [] e.type = "Value"       -> LET r == CanGraphicalChanged(d, e.of, e.value)
                                 IN IF ~d.watched[e.of].alive \/ ~e.valid \/ e.value = d.watched[e.of].graphical
                                      THEN [d |-> d, out |-> sent, post |-> <<>>]
                                      ELSE [d |-> r.d, out |-> sent, post |-> r.post]
    [] OTHER                  -> [d |-> DeletedOne(d, e), out |-> sent, post |-> <<>>]

\* It shows in the view, and forgets a Seat only where it makes a second one.
Follows(d, q, sent, r) ==
  LET e == Head(q)
      v == View(d, sent)
  IN /\ r.d \in Daemons /\ r.out \in Seq(Messages) /\ r.post \in Seq(Deletes) /\ r.d.pc = d.pc
     /\ Sane(r.d, Tail(q) \o r.post)
     /\ View(r.d, r.out) = Handled(v, e)
     /\ \A t \in Seats : SeatKept(d, q, t) /\ ~Lost(v, t) /\ ~Doubles(v, e, t) =>
                           SeatKept(r.d, Tail(q) \o r.post, t)

\* An event the daemon can handle.
Ready(d, q, sent) ==
  /\ Sane(d, q) /\ q # <<>> /\ sent \in Seq(Messages) /\ Head(q) \in Events
  /\ Head(q).type = "Value" => Head(q).of \in DOMAIN d.watched

\* The list of seats.
LEMMA ListFollows ==
  ASSUME NEW d, NEW q, NEW sent, Ready(d, q, sent), Head(q).type = "Seats"
  PROVE  Follows(d, q, sent, Outcome(d, sent, Head(q)))
<1>. DEFINE e == Head(q)
            l == e.seats
            x == [d |-> d, out |-> sent]
            y == SeatsAdded(x, l)
            r == Outcome(d, sent, e)
            rest == Tail(q)
            S == {z \in [d : Daemons, out : Seq(Messages)] :
                    /\ Sane(z.d, rest) /\ z.d.pc = d.pc
                    /\ \A t \in Seats : SeatKept(d, rest, t) => SeatKept(z.d, rest, t)}
<1>1. r = [d |-> y.d, out |-> y.out, post |-> <<>>]
  BY DEF Outcome
<1>2. l \in Seq(Seats) /\ d \in Daemons /\ sent \in Seq(Messages) /\ rest \in Seq(Events)
  <2>1. e \in Events /\ d \in Daemons /\ q \in Seq(Events) /\ q # <<>>
    BY DEF Ready, Sane, DaemonOK, QueueOK
  <2>2. rest \in Seq(Events)
    BY <2>1, HoldsTail
  <2>3. e.seats \in Seq(Seats)
    BY <2>1 DEF Events, Deletes
  <2>. QED BY <2>1, <2>2, <2>3 DEF Ready
<1>3. Sane(d, rest) /\ \A t : SeatKept(d, q, t) => SeatKept(d, rest, t)
  <2>1. Head(q).type # "Delete"
    OBVIOUS
  <2>. QED BY <2>1, NothingDeleted DEF Ready
<1>4. x \in S
  BY <1>2, <1>3
<1>5. AddsWithin(S, Seats)
  <2>. SUFFICES ASSUME NEW z \in S, NEW s \in Seats PROVE LogindSeatAdded(z, s) \in S
    BY DEF AddsWithin
  <2>. DEFINE n == LogindSeatAdded(z, s)
  <2>1. /\ z \in [d : Daemons, out : Seq(Messages)] /\ Sane(z.d, rest) /\ z.d.pc = d.pc
        /\ \A t \in Seats : SeatKept(d, rest, t) => SeatKept(z.d, rest, t)
    OBVIOUS
  <2>. HIDE DEF S, rest
  <2>2. n \in [d : Daemons, out : Seq(Messages)] /\ n.d.pc = z.d.pc
    BY <2>1, AddedIs
  <2>3. Sane(n.d, rest) /\ \A t : SeatKept(z.d, rest, t) => SeatKept(n.d, rest, t)
    BY <2>1, AddedKeeps
  <2>. HIDE DEF n
  <2>4. n \in S
    BY <2>1, <2>2, <2>3 DEF S
  <2>. QED BY <2>4 DEF n
<1>6. y \in S
  <2>. HIDE DEF S, x, l
  <2>. QED BY <1>2, <1>4, <1>5, AddingStays
<1>7. View(y.d, y.out) = Handled(View(d, sent), e)
  <2>1. x.d = d /\ x.out = sent /\ x \in [d : Daemons, out : Seq(Messages)]
    BY <1>2
  <2>. HIDE DEF x, l
  <2>2. View(y.d, y.out) = SeatsAdded(View(x.d, x.out), l)
    BY <1>2, <2>1, AllAddedShow
  <2>. HIDE DEF y, e
  <2>3. Handled(View(d, sent), e) = SeatsAdded(View(d, sent), e.seats)
    <3>1. e.type = "Seats"
      BY DEF e
    <3>. QED BY <3>1 DEF Handled
  <2>. QED BY <2>1, <2>2, <2>3 DEF l
<1>8. /\ y \in [d : Daemons, out : Seq(Messages)] /\ Sane(y.d, rest) /\ y.d.pc = d.pc
      /\ \A t \in Seats : SeatKept(d, rest, t) => SeatKept(y.d, rest, t)
  <2>. HIDE DEF y
  <2>. QED BY <1>6
<1>9. rest \o <<>> = rest
  BY <1>2, ConcatEmptySeq
<1>. HIDE DEF y, r
<1>10. r.d = y.d /\ r.out = y.out /\ r.post = <<>> /\ r.post \in Seq(Deletes)
  BY <1>1
<1>. QED BY <1>3, <1>7, <1>8, <1>9, <1>10 DEF Follows, r

\* A new seat.
LEMMA NewFollows ==
  ASSUME NEW d, NEW q, NEW sent, Ready(d, q, sent), Head(q).type = "SeatNew"
  PROVE  Follows(d, q, sent, Outcome(d, sent, Head(q)))
<1>. DEFINE e == Head(q)
            s == e.of
            x == [d |-> d, out |-> sent]
            y == LogindSeatAdded(x, s)
            r == Outcome(d, sent, e)
            rest == Tail(q)
<1>1. r = [d |-> y.d, out |-> y.out, post |-> <<>>]
  BY DEF Outcome
<1>2. s \in Seats /\ d \in Daemons /\ sent \in Seq(Messages) /\ rest \in Seq(Events)
  <2>1. e \in Events /\ d \in Daemons /\ q \in Seq(Events) /\ q # <<>>
    BY DEF Ready, Sane, DaemonOK, QueueOK
  <2>2. rest \in Seq(Events)
    BY <2>1, HoldsTail
  <2>3. s \in Seats
    BY <2>1 DEF Events, Deletes
  <2>. QED BY <2>1, <2>2, <2>3 DEF Ready
<1>3. Sane(d, rest) /\ \A t : SeatKept(d, q, t) => SeatKept(d, rest, t)
  <2>1. Head(q).type # "Delete"
    OBVIOUS
  <2>. QED BY <2>1, NothingDeleted DEF Ready
<1>4. x.d = d /\ x.out = sent /\ x \in [d : Daemons, out : Seq(Messages)]
  BY <1>2
<1>5. e.type = "SeatNew"
  OBVIOUS
<1>. HIDE DEF x, s, rest, e
<1>6. y \in [d : Daemons, out : Seq(Messages)] /\ y.d.pc = d.pc
  BY <1>2, <1>4, AddedIs
<1>7. Sane(y.d, rest) /\ \A t : SeatKept(d, rest, t) => SeatKept(y.d, rest, t)
  BY <1>2, <1>3, <1>4, AddedKeeps
<1>8. View(y.d, y.out) = Handled(View(d, sent), e)
  <2>1. View(y.d, y.out) = LogindSeatAdded(View(x.d, x.out), s)
    BY <1>2, <1>4, AddedShows
  <2>. HIDE DEF y
  <2>2. Handled(View(d, sent), e) = LogindSeatAdded(View(d, sent), e.of)
    BY <1>5 DEF Handled
  <2>. QED BY <1>4, <2>1, <2>2 DEF s
<1>9. rest \o <<>> = rest
  BY <1>2, ConcatEmptySeq
<1>. HIDE DEF y, r
<1>10. r.d = y.d /\ r.out = y.out /\ r.post = <<>> /\ r.post \in Seq(Deletes)
  BY <1>1
<1>. QED BY <1>3, <1>6, <1>7, <1>8, <1>9, <1>10 DEF Follows, r, e, rest

\* A seat removed.
LEMMA RemovalFollows ==
  ASSUME NEW d, NEW q, NEW sent, Ready(d, q, sent), Head(q).type = "SeatRemoved"
  PROVE  Follows(d, q, sent, Outcome(d, sent, Head(q)))
<1>. DEFINE e == Head(q)
            s == e.of
            y == LogindSeatRemoved(d, s)
            r == Outcome(d, sent, e)
            rest == Tail(q)
            v == View(d, sent)
            g == Gone(v, s)
            u == View(y.d, sent \o y.out)
<1>1. r = [d |-> y.d, out |-> sent \o y.out, post |-> y.post]
  BY DEF Outcome
<1>2. s \in Seats /\ d \in Daemons /\ sent \in Seq(Messages) /\ rest \in Seq(Events)
  <2>1. e \in Events /\ d \in Daemons /\ q \in Seq(Events) /\ q # <<>>
    BY DEF Ready, Sane, DaemonOK, QueueOK
  <2>2. rest \in Seq(Events)
    BY <2>1, HoldsTail
  <2>3. s \in Seats
    BY <2>1 DEF Events, Deletes
  <2>. QED BY <2>1, <2>2, <2>3 DEF Ready
<1>3. Sane(d, rest) /\ \A t : SeatKept(d, q, t) => SeatKept(d, rest, t)
  <2>1. Head(q).type # "Delete"
    OBVIOUS
  <2>. QED BY <2>1, NothingDeleted DEF Ready
<1>4. /\ d.systemSeats \in [Seats -> Nat] /\ d.seats \in [Seats -> Nat] /\ d.watched \in Seq(Objects)
      /\ \A t \in Seats : d.systemSeats[t] = 0 \/ d.systemSeats[t] \in Watchers(d, t)
  BY <1>2, <1>3 DEF Daemons, Sane, DaemonOK
<1>5. e.type = "SeatRemoved"
  OBVIOUS
<1>. HIDE DEF s, rest, e
<1>6. /\ y.post \in Seq(Deletes) /\ y.d \in Daemons /\ y.d.pc = d.pc
      /\ y.d.watched = WithoutObject(d, s)
      /\ y.d.systemSeats = [d.systemSeats EXCEPT ![s] = 0]
      /\ y.d.seats = [d.seats EXCEPT ![s] = 0]
      /\ y.out = Unsubscribes(d.systemSeats[s], Watchers(y.d, s), s)
      /\ Sane(y.d, rest \o y.post)
      /\ \A t \in Seats : SeatKept(d, rest, t) => SeatKept(y.d, rest \o y.post, t)
  BY <1>2, <1>3, RemovedKeeps
<1>. HIDE DEF y
<1>7. sent \o y.out \in Seq(Messages)
  <2>1. [type |-> "RemoveMatch", of |-> s] \in Messages
    BY <1>2 DEF Messages
  <2>2. \A o, left : Unsubscribes(o, left, s) \in Seq(Messages)
    BY <2>1 DEF Unsubscribes
  <2>. QED BY <1>2, <1>6, <2>2, ConcatProperties
<1>8. /\ v \in Views /\ v.d.watched = d.watched /\ v.d.systemSeats = d.systemSeats /\ v.out = sent
      /\ \A t \in Seats : v.d.up[t] = (d.seats[t] # 0)
  BY <1>2, ViewIs
<1>9. /\ u \in Views /\ u.d.watched = y.d.watched /\ u.d.systemSeats = y.d.systemSeats /\ u.out = sent \o y.out
      /\ \A t \in Seats : u.d.up[t] = (y.d.seats[t] # 0)
  <2>. DEFINE yd == y.d
              yo == sent \o y.out
  <2>1. yd \in Daemons /\ yo \in Seq(Messages)
    BY <1>6, <1>7
  <2>. HIDE DEF yd, yo
  <2>2. /\ View(yd, yo) \in Views /\ View(yd, yo).d.watched = yd.watched
        /\ View(yd, yo).d.systemSeats = yd.systemSeats /\ View(yd, yo).out = yo
        /\ \A t \in Seats : View(yd, yo).d.up[t] = (yd.seats[t] # 0)
    BY <2>1, ViewIs
  <2>. QED BY <2>2 DEF yd, yo
<1>. HIDE DEF v, u
<1>10. Tracks(v)
  BY <1>4, <1>8 DEF Tracks, Watchers
<1>11. /\ g \in Views
       /\ g.out = v.out \o Unsubscribes(v.d.systemSeats[s], Watchers(g.d, s), s)
       /\ g.d.watched = WithoutObject(v.d, s)
       /\ g.d.systemSeats = [v.d.systemSeats EXCEPT ![s] = 0]
       /\ \A t \in Seats : g.d.up[t] = IF t = s THEN FALSE ELSE v.d.up[t]
  <2>1. /\ g \in Views
        /\ g.d.watched = WithoutObject(v.d, s)
        /\ g.d.systemSeats = [v.d.systemSeats EXCEPT ![s] = 0]
    BY <1>2, <1>10, ViewGone
  <2>2. g.out = v.out \o Unsubscribes(v.d.systemSeats[s], Watchers(g.d, s), s)
    BY <1>2, <1>10, ViewGone
  <2>3. \A t \in Seats : g.d.up[t] = IF t = s THEN FALSE ELSE v.d.up[t]
    BY <1>2, <1>10, ViewGone
  <2>. HIDE DEF g
  <2>. QED BY <2>1, <2>2, <2>3
<1>. HIDE DEF g
<1>12. g.d.watched = y.d.watched
  BY <1>6, <1>8, <1>11 DEF WithoutObject
<1>13. Watchers(g.d, s) = Watchers(y.d, s)
  BY <1>12 DEF Watchers
<1>14. u = g
  <2>1. u.d.watched = g.d.watched /\ u.d.systemSeats = g.d.systemSeats
    BY <1>6, <1>8, <1>9, <1>11, <1>12
  <2>2. u.out = g.out
    BY <1>6, <1>8, <1>9, <1>11, <1>13
  <2>3. ASSUME NEW t \in Seats PROVE u.d.up[t] = g.d.up[t]
    <3>1. y.d.seats[t] = IF t = s THEN 0 ELSE d.seats[t]
      BY <1>2, <1>4, <1>6
    <3>2. u.d.up[t] = (y.d.seats[t] # 0) /\ g.d.up[t] = (t # s /\ d.seats[t] # 0)
      BY <1>8, <1>9, <1>11
    <3>. QED BY <3>1, <3>2
  <2>. QED BY <1>9, <1>11, <2>1, <2>2, <2>3, SameView
<1>15. Handled(v, e) = g
  BY <1>5 DEF Handled, g, s
<1>. HIDE DEF r
<1>16. r.d = y.d /\ r.out = sent \o y.out /\ r.post = y.post
  BY <1>1
<1>17. View(r.d, r.out) = Handled(View(d, sent), e)
  BY <1>14, <1>15, <1>16 DEF u, v
<1>. QED BY <1>3, <1>6, <1>7, <1>16, <1>17 DEF Follows, r, e, rest

\* What was deferred.
LEMMA DeletionFollows ==
  ASSUME NEW d, NEW q, NEW sent, Ready(d, q, sent), Head(q).type = "Delete"
  PROVE  Follows(d, q, sent, Outcome(d, sent, Head(q)))
<1>. DEFINE e == Head(q)
            n == DeletedOne(d, e)
            r == Outcome(d, sent, e)
            rest == Tail(q)
<1>1. r = [d |-> n, out |-> sent, post |-> <<>>]
  BY DEF Outcome
<1>2. d \in Daemons /\ sent \in Seq(Messages) /\ rest \in Seq(Events)
  <2>1. d \in Daemons /\ q \in Seq(Events) /\ q # <<>>
    BY DEF Ready, Sane, DaemonOK, QueueOK
  <2>2. rest \in Seq(Events)
    BY <2>1, HoldsTail
  <2>. QED BY <2>1, <2>2 DEF Ready
<1>3. /\ n \in Daemons /\ n.pc = d.pc /\ n.watched = d.watched /\ n.systemSeats = d.systemSeats
      /\ n.seats = d.seats
      /\ Sane(n, rest) /\ \A t \in Seats : SeatKept(d, q, t) => SeatKept(n, rest, t)
  BY DeletedKeeps DEF Ready
<1>4. e.type = "Delete"
  OBVIOUS
<1>. HIDE DEF n, rest, e
<1>5. View(n, sent) = Handled(View(d, sent), e)
  <2>1. View(n, sent) = View(d, sent)
    BY <1>3 DEF View
  <2>2. Handled(View(d, sent), e) = View(d, sent)
    BY <1>4 DEF Handled
  <2>. QED BY <2>1, <2>2
<1>6. rest \o <<>> = rest
  BY <1>2, ConcatEmptySeq
<1>. HIDE DEF r
<1>7. r.d = n /\ r.out = sent /\ r.post = <<>> /\ r.post \in Seq(Deletes)
  BY <1>1
<1>. QED BY <1>2, <1>3, <1>5, <1>6, <1>7 DEF Follows, r, e, rest

\* An answer.
LEMMA AnswerFollows ==
  ASSUME NEW d, NEW q, NEW sent, Ready(d, q, sent), Head(q).type = "Value"
  PROVE  Follows(d, q, sent, Outcome(d, sent, Head(q)))
<1>. DEFINE e == Head(q)
            o == e.of
            w == d.watched[o]
            y == CanGraphicalChanged(d, o, e.value)
            r == Outcome(d, sent, e)
            rest == Tail(q)
            v == View(d, sent)
<1>1. r = IF ~w.alive \/ ~e.valid \/ e.value = w.graphical THEN [d |-> d, out |-> sent, post |-> <<>>]
                                                         ELSE [d |-> y.d, out |-> sent, post |-> y.post]
  BY DEF Outcome
<1>2. /\ d \in Daemons /\ sent \in Seq(Messages) /\ rest \in Seq(Events)
      /\ o \in DOMAIN d.watched /\ e.value \in BOOLEAN /\ e.valid \in BOOLEAN /\ w \in Objects
  <2>1. e \in Events /\ d \in Daemons /\ q \in Seq(Events) /\ q # <<>> /\ o \in DOMAIN d.watched
    BY DEF Ready, Sane, DaemonOK, QueueOK
  <2>2. rest \in Seq(Events)
    BY <2>1, HoldsTail
  <2>3. e.value \in BOOLEAN /\ e.valid \in BOOLEAN
    BY <2>1 DEF Events, Deletes
  <2>4. w \in Objects
    <3>1. d.watched \in Seq(Objects)
      BY <2>1 DEF Daemons
    <3>. QED BY <2>1, <3>1, LenProperties, ElementOfSeq
  <2>. QED BY <2>1, <2>2, <2>3, <2>4 DEF Ready
<1>3. Sane(d, rest) /\ \A t : SeatKept(d, q, t) => SeatKept(d, rest, t)
  <2>1. Head(q).type # "Delete"
    OBVIOUS
  <2>. QED BY <2>1, NothingDeleted DEF Ready
<1>4. e.type = "Value"
  OBVIOUS
<1>5. /\ v \in Views /\ v.d.watched = d.watched /\ v.d.systemSeats = d.systemSeats /\ v.out = sent
      /\ \A t \in Seats : v.d.up[t] = (d.seats[t] # 0)
  BY <1>2, ViewIs
<1>. HIDE DEF rest, e, v, r, y, o
<1>6. News(v, e) <=> ~(~w.alive \/ ~e.valid \/ e.value = w.graphical)
  BY <1>2, <1>5 DEF News, o, Objects
<1>7. CASE ~News(v, e)
  <2>1. r.d = d /\ r.out = sent /\ r.post = <<>> /\ r.post \in Seq(Deletes)
    BY <1>1, <1>6, <1>7
  <2>2. Handled(v, e) = v
    BY <1>4, <1>7 DEF Handled
  <2>3. rest \o <<>> = rest
    BY <1>2, ConcatEmptySeq
  <2>. QED BY <1>2, <1>3, <2>1, <2>2, <2>3 DEF Follows, r, e, rest, v
<1>8. CASE News(v, e)
  <2>. DEFINE s == d.watched[o].seat
              g == Answered(v, o, e.value)
              u == View(y.d, sent)
  <2>1. r.d = y.d /\ r.out = sent /\ r.post = y.post
    BY <1>1, <1>6, <1>8
  <2>2. /\ y.post \in Seq(Deletes) /\ y.d \in Daemons /\ y.d.pc = d.pc
        /\ y.d.watched = [d.watched EXCEPT ![o].graphical = e.value]
        /\ y.d.systemSeats = d.systemSeats
        /\ \A t \in Seats : y.d.seats[t] # 0 <=> IF t = s THEN e.value ELSE d.seats[t] # 0
        /\ Sane(y.d, rest \o y.post)
        /\ \A t \in Seats : SeatKept(d, rest, t) /\ (t # s \/ ~e.value \/ d.seats[s] = 0) =>
                              SeatKept(y.d, rest \o y.post, t)
    <3>. DEFINE value == e.value
    <3>. HIDE DEF value
    <3>1. value \in BOOLEAN
      BY <1>2 DEF value
    <3>. DEFINE c == CanGraphicalChanged(d, o, value)
    <3>2. /\ c.post \in Seq(Deletes) /\ c.d \in Daemons /\ c.d.pc = d.pc
          /\ c.d.watched = [d.watched EXCEPT ![o].graphical = value]
          /\ c.d.systemSeats = d.systemSeats
          /\ \A t \in Seats : c.d.seats[t] # 0 <=> IF t = s THEN value ELSE d.seats[t] # 0
          /\ Sane(c.d, rest \o c.post)
          /\ \A t \in Seats : SeatKept(d, rest, t) /\ (t # s \/ ~value \/ d.seats[s] = 0) =>
                                SeatKept(c.d, rest \o c.post, t)
      BY <1>2, <1>3, <3>1, ToldKeeps
    <3>3. c = y
      BY DEF y, value
    <3>. HIDE DEF c
    <3>. QED BY <3>2, <3>3 DEF value
  <2>3. /\ u \in Views /\ u.d.watched = y.d.watched /\ u.d.systemSeats = y.d.systemSeats /\ u.out = sent
        /\ \A t \in Seats : u.d.up[t] = (y.d.seats[t] # 0)
    <3>. DEFINE yd == y.d
    <3>1. yd \in Daemons
      BY <2>2
    <3>. HIDE DEF yd
    <3>2. /\ View(yd, sent) \in Views /\ View(yd, sent).d.watched = yd.watched
          /\ View(yd, sent).d.systemSeats = yd.systemSeats /\ View(yd, sent).out = sent
          /\ \A t \in Seats : View(yd, sent).d.up[t] = (yd.seats[t] # 0)
      BY <1>2, <3>1, ViewIs
    <3>. QED BY <3>2 DEF yd
  <2>. HIDE DEF u
  <2>4. /\ g \in Views /\ g.d.systemSeats = v.d.systemSeats /\ g.out = v.out
        /\ g.d.watched = [v.d.watched EXCEPT ![o].graphical = e.value]
        /\ \A t \in Seats : g.d.up[t] = IF t = v.d.watched[o].seat THEN e.value ELSE v.d.up[t]
    <3>1. AnsweredTo(v, o, e.value, g) /\ g.d.watched = [v.d.watched EXCEPT ![o].graphical = e.value]
      BY <1>2, <1>5, ViewAnswered DEF Answered
    <3>. HIDE DEF g
    <3>. QED BY <3>1 DEF AnsweredTo
  <2>. HIDE DEF g
  <2>5. \A t \in Seats : u.d.up[t] = g.d.up[t]
    <3>1. SUFFICES ASSUME NEW t \in Seats PROVE u.d.up[t] = g.d.up[t]
      OBVIOUS
    <3>2. u.d.up[t] = (y.d.seats[t] # 0) /\ (y.d.seats[t] # 0 <=> IF t = s THEN e.value ELSE d.seats[t] # 0)
      BY <2>2, <2>3
    <3>3. g.d.up[t] = IF t = s THEN e.value ELSE d.seats[t] # 0
      BY <1>5, <2>4
    <3>. QED BY <1>2, <3>2, <3>3
  <2>6. u = g
    <3>1. u.d.watched = g.d.watched /\ u.d.systemSeats = g.d.systemSeats /\ u.out = g.out
      BY <1>5, <2>2, <2>3, <2>4
    <3>. QED BY <2>3, <2>4, <2>5, <3>1, SameView
  <2>7. Handled(v, e) = g
    BY <1>4, <1>8 DEF Handled, g, o
  <2>8. View(r.d, r.out) = Handled(v, e)
    BY <2>1, <2>6, <2>7 DEF u
  <2>9. \A t \in Seats : ~Lost(v, t) /\ ~Doubles(v, e, t) => t # s \/ ~e.value \/ d.seats[s] = 0
    <3>. SUFFICES ASSUME NEW t \in Seats, ~Lost(v, t), t = s, e.value, d.seats[s] # 0 PROVE Doubles(v, e, t)
      OBVIOUS
    <3>. QED BY <1>4, <1>5, <1>8 DEF Doubles, o
  <2>. QED BY <1>2, <1>3, <2>1, <2>2, <2>8, <2>9 DEF Follows, r, e, rest, v
<1>. QED BY <1>7, <1>8

\* A notice that a property changed.
LEMMA ChangeFollows ==
  ASSUME NEW d, NEW q, NEW sent, Ready(d, q, sent), Head(q).type = "Changed"
  PROVE  Follows(d, q, sent, Outcome(d, sent, Head(q)))
<1>. DEFINE e == Head(q)
            s == e.of
            value == e.value
            y == AllTold(d, s, value)
            r == Outcome(d, sent, e)
            rest == Tail(q)
            v == View(d, sent)
            W == Watchers(d, s)
<1>1. r = [d |-> y.d, out |-> sent, post |-> y.post]
  BY DEF Outcome
<1>2. /\ d \in Daemons /\ sent \in Seq(Messages) /\ rest \in Seq(Events)
      /\ s \in Seats /\ value \in BOOLEAN /\ d.watched \in Seq(Objects) /\ d.systemSeats \in [Seats -> Nat]
  <2>1. e \in Events /\ d \in Daemons /\ q \in Seq(Events) /\ q # <<>>
    BY DEF Ready, Sane, DaemonOK, QueueOK
  <2>2. rest \in Seq(Events)
    BY <2>1, HoldsTail
  <2>3. s \in Seats /\ value \in BOOLEAN
    BY <2>1 DEF Events, Deletes
  <2>4. d.watched \in Seq(Objects) /\ d.systemSeats \in [Seats -> Nat]
    BY <2>1 DEF Daemons
  <2>. QED BY <2>1, <2>2, <2>3, <2>4 DEF Ready
<1>3. Sane(d, rest) /\ \A t : SeatKept(d, q, t) => SeatKept(d, rest, t)
  <2>1. Head(q).type # "Delete"
    OBVIOUS
  <2>. QED BY <2>1, NothingDeleted DEF Ready
<1>4. e.type = "Changed"
  OBVIOUS
<1>5. /\ v \in Views /\ v.d.watched = d.watched /\ v.d.systemSeats = d.systemSeats /\ v.out = sent
      /\ \A t \in Seats : v.d.up[t] = (d.seats[t] # 0)
  BY <1>2, ViewIs
<1>. HIDE DEF rest, e, v, r, y, s, value
<1>6. ToldUpTo(d, rest, s, value, Len(d.watched), y)
  BY <1>2, <1>3, AllToldKeeps DEF y
<1>7. Len(d.watched) \in Nat /\ DOMAIN d.watched = 1 .. Len(d.watched) /\ \A o \in W : o <= Len(d.watched)
  BY <1>2, LenProperties DEF Watchers
<1>8. /\ y.d \in Daemons /\ y.post \in Seq(Deletes) /\ y.d.pc = d.pc /\ Sane(y.d, rest \o y.post)
      /\ y.d.systemSeats = d.systemSeats /\ Len(y.d.watched) = Len(d.watched)
      /\ \A t \in Seats :
           /\ SeatKept(d, rest, t)
           /\ \/ t # s \/ ~value \/ W = {}
              \/ d.seats[s] = 0 /\ \A o, p \in W : o = p
           => SeatKept(y.d, rest \o y.post, t)
  BY <1>6 DEF ToldUpTo
<1>9. \A o \in DOMAIN d.watched : y.d.watched[o] = IF o \in W THEN [d.watched[o] EXCEPT !.graphical = value]
                                                           ELSE d.watched[o]
  BY <1>6, <1>7 DEF ToldUpTo
<1>10. \A t \in Seats : y.d.seats[t] # 0 <=> IF t = s /\ W # {} THEN value ELSE d.seats[t] # 0
  <2>1. (\E o \in W : o <= Len(d.watched)) <=> W # {}
    BY <1>7
  <2>. QED BY <1>6, <2>1 DEF ToldUpTo
<1>11. Watchers(v.d, s) = W
  BY <1>5 DEF Watchers
<1>. DEFINE g == Changed(v, s, value)
            u == View(y.d, sent)
<1>12. /\ u \in Views /\ u.d.watched = y.d.watched /\ u.d.systemSeats = y.d.systemSeats /\ u.out = sent
       /\ \A t \in Seats : u.d.up[t] = (y.d.seats[t] # 0)
  <2>. DEFINE yd == y.d
  <2>1. yd \in Daemons
    BY <1>8
  <2>. HIDE DEF yd
  <2>2. /\ View(yd, sent) \in Views /\ View(yd, sent).d.watched = yd.watched
        /\ View(yd, sent).d.systemSeats = yd.systemSeats /\ View(yd, sent).out = sent
        /\ \A t \in Seats : View(yd, sent).d.up[t] = (yd.seats[t] # 0)
    BY <1>2, <2>1, ViewIs
  <2>. QED BY <2>2 DEF yd
<1>. HIDE DEF u
<1>13. /\ g \in Views /\ g.d.systemSeats = v.d.systemSeats /\ g.out = v.out
       /\ Len(g.d.watched) = Len(v.d.watched)
       /\ \A i \in DOMAIN v.d.watched :
            g.d.watched[i] = IF i \in Watchers(v.d, s) THEN [v.d.watched[i] EXCEPT !.graphical = value]
                                                       ELSE v.d.watched[i]
       /\ \A t \in Seats : g.d.up[t] = IF t = s /\ Watchers(v.d, s) # {} THEN value ELSE v.d.up[t]
  <2>0. v \in Views /\ s \in Seats /\ value \in BOOLEAN
    BY <1>2, <1>5
  <2>1. ChangedTo(v, s, value, g) /\ Len(g.d.watched) = Len(v.d.watched)
    BY <2>0, ViewChanged
  <2>2. \A i \in DOMAIN v.d.watched :
          g.d.watched[i] = IF i \in Watchers(v.d, s) THEN [v.d.watched[i] EXCEPT !.graphical = value]
                                                     ELSE v.d.watched[i]
    BY DEF Changed
  <2>. HIDE DEF g
  <2>. QED BY <2>1, <2>2 DEF ChangedTo
<1>. HIDE DEF g, W
<1>14. u.d.watched = g.d.watched
  <2>1. u.d.watched \in Seq(Objects) /\ g.d.watched \in Seq(Objects)
    BY <1>12, <1>13 DEF Views
  <2>2. Len(u.d.watched) = Len(g.d.watched) /\ Len(u.d.watched) = Len(d.watched)
    BY <1>5, <1>8, <1>12, <1>13
  <2>3. \A i \in 1 .. Len(u.d.watched) : u.d.watched[i] = g.d.watched[i]
    <3>. SUFFICES ASSUME NEW i \in DOMAIN d.watched PROVE u.d.watched[i] = g.d.watched[i]
      BY <1>7, <2>2
    <3>1. u.d.watched[i] = IF i \in W THEN [d.watched[i] EXCEPT !.graphical = value] ELSE d.watched[i]
      BY <1>9, <1>12
    <3>2. g.d.watched[i] = IF i \in W THEN [v.d.watched[i] EXCEPT !.graphical = value] ELSE v.d.watched[i]
      BY <1>5, <1>11, <1>13
    <3>. QED BY <1>5, <3>1, <3>2
  <2>. QED BY <2>1, <2>2, <2>3, SeqEqual
<1>15. \A t \in Seats : u.d.up[t] = g.d.up[t]
  <2>1. SUFFICES ASSUME NEW t \in Seats PROVE u.d.up[t] = g.d.up[t]
    OBVIOUS
  <2>2. u.d.up[t] = (y.d.seats[t] # 0) /\ (y.d.seats[t] # 0 <=> IF t = s /\ W # {} THEN value ELSE d.seats[t] # 0)
    BY <1>10, <1>12
  <2>3. g.d.up[t] = IF t = s /\ W # {} THEN value ELSE d.seats[t] # 0
    BY <1>5, <1>11, <1>13
  <2>. QED BY <1>2, <2>2, <2>3
<1>16. u = g
  <2>1. u.d.systemSeats = g.d.systemSeats /\ u.out = g.out
    BY <1>5, <1>8, <1>12, <1>13
  <2>. QED BY <1>12, <1>13, <1>14, <1>15, <2>1, SameView
<1>17. Handled(v, e) = g
  BY <1>4 DEF Handled, g, s, value
<1>18. r.d = y.d /\ r.out = sent /\ r.post = y.post
  BY <1>1
<1>19. View(r.d, r.out) = Handled(v, e)
  BY <1>16, <1>17, <1>18 DEF u
<1>20. \A t \in Seats : ~Lost(v, t) /\ ~Doubles(v, e, t) =>
         \/ t # s \/ ~value \/ W = {}
         \/ d.seats[s] = 0 /\ \A o, p \in W : o = p
  <2>. SUFFICES ASSUME NEW t \in Seats, ~Lost(v, t), ~Doubles(v, e, t), t = s, value, W # {}
                PROVE  d.seats[s] = 0 /\ \A o, p \in W : o = p
    OBVIOUS
  <2>1. \A o \in W : o = v.d.systemSeats[s]
    BY <1>11 DEF Lost
  <2>2. ~v.d.up[s]
    BY <1>4, <1>11 DEF Doubles, s, value
  <2>. QED BY <1>2, <1>5, <2>1, <2>2
<1>. QED BY <1>2, <1>3, <1>8, <1>18, <1>19, <1>20 DEF Follows, r, e, rest, v

-----------------------------------------------------------------------------
(* What the objects of a view keep *)

\* A question is about an object that is there.
Known(w, m) == m.type = "Get" => m.of \in DOMAIN w /\ w[m.of].seat = m.seat

Knows(v) == \A m : Holds(v.out, m) => Known(v.d.watched, m)

\* Objects come; they keep their seat.
Grown(w, n) == DOMAIN w \subseteq DOMAIN n /\ \A o \in DOMAIN w : n[o].seat = w[o].seat

\* A Seat that runs is one the object of its name takes for graphical.
InStep(v) == \A s \in Seats : v.d.up[s] /\ ~Lost(v, s) =>
               v.d.systemSeats[s] # 0 /\ v.d.watched[v.d.systemSeats[s]].graphical

\* From one view to a later one.
Grows(v, y) ==
  /\ Tracks(y) /\ Grown(v.d.watched, y.d.watched)
  /\ \A s \in Seats : Lost(v, s) => Lost(y, s)
  /\ Knows(v) => Knows(y)
  /\ InStep(v) => InStep(y)

\* What is known of objects is known of them when there are more.
LEMMA KnownOfMore ==
  ASSUME NEW w, NEW n, Grown(w, n), NEW m, Known(w, m)
  PROVE  Known(n, m)
BY DEF Grown, Known

\* Growing goes on.
LEMMA GrowsOn ==
  ASSUME NEW v, NEW x, NEW y, Grows(v, x), Grows(x, y)
  PROVE  Grows(v, y)
<1>1. Grown(v.d.watched, y.d.watched)
  BY DEF Grows, Grown
<1>. QED BY <1>1 DEF Grows

\* What a message that is sent adds.
LEMMA SentToo ==
  ASSUME NEW p \in Seq(Messages), NEW s \in Seats, NEW others, NEW o \in Nat, NEW m
  PROVE  /\ Holds(p \o Subscribes(others, s) \o <<Asks(s, o)>>, m) <=>
              \/ Holds(p, m) \/ (others = {} /\ m = [type |-> "AddMatch", of |-> s]) \/ m = Asks(s, o)
         /\ Holds(p \o Unsubscribes(o, others, s), m) <=>
              Holds(p, m) \/ (o # 0 /\ others = {} /\ m = [type |-> "RemoveMatch", of |-> s])
         /\ Subscribes(others, s) \in Seq(Messages) /\ Unsubscribes(o, others, s) \in Seq(Messages)
         /\ <<Asks(s, o)>> \in Seq(Messages) /\ Asks(s, o) \in Messages
<1>. DEFINE a == [type |-> "AddMatch", of |-> s]
            r == [type |-> "RemoveMatch", of |-> s]
            g == Asks(s, o)
<1>1. a \in Messages /\ r \in Messages /\ g \in Messages
  BY DEF Messages, Asks
<1>. HIDE DEF a, r, g
<1>2. \A x : /\ Holds(<<x>>, m) <=> m = x
             /\ ~Holds(<<>>, m)
  BY DEF Holds
<1>3. <<a>> \in Seq(Messages) /\ <<r>> \in Seq(Messages) /\ <<g>> \in Seq(Messages) /\ <<>> \in Seq(Messages)
  BY <1>1
<1>4. Subscribes(others, s) = IF others = {} THEN <<a>> ELSE <<>>
  BY DEF Subscribes, a
<1>5. Unsubscribes(o, others, s) = IF o # 0 /\ others = {} THEN <<r>> ELSE <<>>
  BY DEF Unsubscribes, r
<1>6. Subscribes(others, s) \in Seq(Messages) /\ Unsubscribes(o, others, s) \in Seq(Messages)
  BY <1>3, <1>4, <1>5
<1>7. Holds(Subscribes(others, s), m) <=> others = {} /\ m = a
  BY <1>2, <1>4
<1>8. Holds(Unsubscribes(o, others, s), m) <=> o # 0 /\ others = {} /\ m = r
  BY <1>2, <1>5
<1>. DEFINE u == Subscribes(others, s)
            k == Unsubscribes(o, others, s)
            t == <<g>>
<1>9. Holds(t, m) <=> m = g
  BY <1>2
<1>10. t \in Seq(Messages) /\ u \in Seq(Messages) /\ k \in Seq(Messages)
  BY <1>3, <1>6
<1>. HIDE DEF u, k, t
<1>11. Holds((p \o u) \o t, m) <=> Holds(p \o u, m) \/ Holds(t, m)
  <2>1. p \o u \in Seq(Messages)
    BY <1>10, ConcatProperties
  <2>. QED BY <1>10, <2>1, HoldsBoth
<1>12. Holds(p \o u, m) <=> Holds(p, m) \/ Holds(u, m)
  BY <1>10, HoldsBoth
<1>13. Holds(p \o k, m) <=> Holds(p, m) \/ Holds(k, m)
  BY <1>10, HoldsBoth
<1>. QED BY <1>1, <1>6, <1>7, <1>8, <1>9, <1>10, <1>11, <1>12, <1>13 DEF u, k, t, a, r, g

\* A seat more.
LEMMA AddedGrows ==
  ASSUME NEW v, Tracks(v), NEW s \in Seats
  PROVE  Grows(v, LogindSeatAdded(v, s))
<1>. DEFINE y == LogindSeatAdded(v, s)
            w == v.d.watched
            k == Len(w) + 1
            d == v.d
            n == y.d
<1>1. /\ v \in Views /\ w \in Seq(Objects) /\ v.out \in Seq(Messages) /\ d.watched = w
      /\ d.systemSeats \in [Seats -> Nat]
      /\ \A t \in Seats : d.systemSeats[t] = 0 \/ d.systemSeats[t] \in Watchers(d, t)
  BY DEF Tracks, Views
<1>2. /\ y \in Views /\ n.up = d.up /\ n.watched = Append(w, NewObject(s))
      /\ n.systemSeats = [d.systemSeats EXCEPT ![s] = k]
      /\ y.out = v.out \o Subscribes(Watchers(d, s), s) \o <<Asks(s, k)>>
  BY <1>1, ViewAdded
<1>. HIDE DEF y, w, d, n
<1>3. /\ \A t : Watchers(n, t) = IF t = s THEN Watchers(d, t) \cup {k} ELSE Watchers(d, t)
      /\ Len(w) \in Nat /\ DOMAIN w = 1 .. Len(w) /\ DOMAIN n.watched = 1 .. k
      /\ n.watched \in Seq(Objects) /\ n.watched[k] = NewObject(s)
      /\ \A o \in DOMAIN w : o \in DOMAIN n.watched /\ o # k /\ n.watched[o] = w[o]
  <2>1. n.watched = Append(w, NewObject(s)) /\ d.watched = w /\ w \in Seq(Objects)
    BY <1>1, <1>2
  <2>2. \A t : Watchers(n, t) = IF t = s THEN Watchers(d, t) \cup {Len(w) + 1} ELSE Watchers(d, t)
    BY <2>1, MoreWatchers
  <2>3. /\ Len(w) \in Nat /\ DOMAIN w = 1 .. Len(w) /\ DOMAIN n.watched = 1 .. Len(w) + 1
        /\ n.watched \in Seq(Objects) /\ n.watched[Len(w) + 1] = NewObject(s)
        /\ \A o \in DOMAIN w : o \in DOMAIN n.watched /\ o # Len(w) + 1 /\ n.watched[o] = w[o]
    BY <2>1, MoreWatchers
  <2>. QED BY <2>2, <2>3
<1>4. k \in Nat /\ k # 0 /\ k \in DOMAIN n.watched /\ NewObject(s).seat = s
  BY <1>3 DEF NewObject
<1>. HIDE DEF k
<1>5. \A t \in Seats : n.systemSeats[t] = IF t = s THEN k ELSE d.systemSeats[t]
  BY <1>1, <1>2
<1>6. Tracks(y)
  <2>1. \A t \in Seats : n.systemSeats[t] = 0 \/ n.systemSeats[t] \in Watchers(n, t)
    BY <1>1, <1>3, <1>5
  <2>. QED BY <1>2, <2>1 DEF Tracks, n
<1>7. Grown(w, n.watched)
  BY <1>3 DEF Grown
<1>8. k \notin Watchers(d, s) /\ \A t : Watchers(d, t) \subseteq DOMAIN w
  <2>1. \A t : Watchers(d, t) \subseteq DOMAIN w
    BY <1>1 DEF Watchers
  <2>. QED BY <1>3, <2>1
<1>9. \A t \in Seats : Lost(v, t) => Lost(y, t)
  <2>1. \A t \in Seats : Lost(v, t) <=> \E o \in Watchers(d, t) : d.systemSeats[t] # o
    BY DEF Lost, d
  <2>2. \A t \in Seats : Lost(y, t) <=> \E o \in Watchers(n, t) : n.systemSeats[t] # o
    BY DEF Lost, n
  <2>. QED BY <1>3, <1>5, <1>8, <2>1, <2>2
<1>10. Knows(v) => Knows(y)
  <2>. SUFFICES ASSUME Knows(v), NEW m, Holds(y.out, m) PROVE Known(n.watched, m)
    BY DEF Knows, n
  <2>1. \/ Holds(v.out, m) \/ m = [type |-> "AddMatch", of |-> s] \/ m = Asks(s, k)
    <3>. DEFINE before == v.out
                W == Watchers(d, s)
    <3>1. before \in Seq(Messages) /\ Holds(before \o Subscribes(W, s) \o <<Asks(s, k)>>, m)
      BY <1>1, <1>2
    <3>. HIDE DEF before, W
    <3>2. Holds(before, m) \/ m = [type |-> "AddMatch", of |-> s] \/ m = Asks(s, k)
      BY <1>4, <3>1, SentToo
    <3>. QED BY <3>2 DEF before
  <2>2. CASE Holds(v.out, m)
    <3>1. Known(w, m)
      BY <2>2 DEF Knows, w
    <3>. QED BY <1>7, <3>1, KnownOfMore
  <2>3. CASE m = [type |-> "AddMatch", of |-> s]
    BY <2>3 DEF Known
  <2>4. CASE m = Asks(s, k)
    BY <1>3, <1>4, <2>4 DEF Known, Asks
  <2>. QED BY <2>1, <2>2, <2>3, <2>4
<1>11. InStep(v) => InStep(y)
  <2>. SUFFICES ASSUME InStep(v), NEW t \in Seats, n.up[t], ~Lost(y, t)
                PROVE  n.systemSeats[t] # 0 /\ n.watched[n.systemSeats[t]].graphical
    BY DEF InStep, n
  <2>1. d.up[t] /\ ~Lost(v, t)
    BY <1>2, <1>9
  <2>2. d.systemSeats[t] # 0 /\ w[d.systemSeats[t]].graphical /\ d.systemSeats[t] \in Watchers(d, t)
    <3>1. d.systemSeats[t] # 0 /\ w[d.systemSeats[t]].graphical
      BY <2>1 DEF InStep, d, w
    <3>. QED BY <1>1, <3>1
  <2>3. t # s
    <3>. SUFFICES ASSUME t = s PROVE FALSE
      OBVIOUS
    <3>1. d.systemSeats[t] \in Watchers(n, t) /\ d.systemSeats[t] # n.systemSeats[t]
      BY <1>3, <1>5, <1>8, <2>2
    <3>. QED BY <3>1 DEF Lost, n
  <2>. QED BY <1>3, <1>5, <1>8, <2>2, <2>3
<1>. QED BY <1>6, <1>7, <1>9, <1>10, <1>11 DEF Grows, y, w, n

\* A seat less.
LEMMA GoneGrows ==
  ASSUME NEW v, Tracks(v), NEW s \in Seats
  PROVE  Grows(v, Gone(v, s))
<1>. DEFINE y == Gone(v, s)
            d == v.d
            n == y.d
<1>1. /\ v \in Views /\ v.out \in Seq(Messages) /\ d.systemSeats \in [Seats -> Nat]
      /\ \A t \in Seats : d.systemSeats[t] = 0 \/ d.systemSeats[t] \in Watchers(d, t)
  BY DEF Tracks, Views
<1>2. /\ y \in Views
      /\ y.out = v.out \o Unsubscribes(d.systemSeats[s], Watchers(n, s), s)
      /\ DOMAIN n.watched = DOMAIN d.watched
      /\ \A i \in DOMAIN d.watched : /\ n.watched[i].seat = d.watched[i].seat
                                     /\ n.watched[i].graphical = d.watched[i].graphical
  BY ViewGone
<1>3. /\ \A t \in Seats : n.systemSeats[t] = IF t = s THEN 0 ELSE d.systemSeats[t]
      /\ \A t \in Seats : n.up[t] = IF t = s THEN FALSE ELSE d.up[t]
      /\ \A t : Watchers(n, t) = IF t = s THEN Watchers(d, t) \ {d.systemSeats[s]} ELSE Watchers(d, t)
  BY ViewGone
<1>. HIDE DEF y, n, d
<1>4. \A t \in Seats : Watchers(d, t) \subseteq DOMAIN d.watched /\ 0 \notin Watchers(d, t)
  <2>1. d.watched \in Seq(Objects)
    BY <1>1 DEF Views, d
  <2>2. DOMAIN d.watched = 1 .. Len(d.watched) /\ Len(d.watched) \in Nat
    BY <2>1, LenProperties
  <2>3. 0 \notin DOMAIN d.watched
    BY <2>2
  <2>. QED BY <2>3 DEF Watchers
<1>5. Tracks(y)
  <2>1. \A t \in Seats : n.systemSeats[t] = 0 \/ n.systemSeats[t] \in Watchers(n, t)
    BY <1>1, <1>3
  <2>. QED BY <1>2, <2>1 DEF Tracks, n
<1>6. Grown(d.watched, n.watched)
  BY <1>2 DEF Grown
<1>7. \A t \in Seats : Lost(v, t) => Lost(y, t)
  <2>1. \A t \in Seats : Lost(v, t) <=> \E o \in Watchers(d, t) : d.systemSeats[t] # o
    BY DEF Lost, d
  <2>2. \A t \in Seats : Lost(y, t) <=> \E o \in Watchers(n, t) : n.systemSeats[t] # o
    BY DEF Lost, n
  <2>. QED BY <1>3, <1>4, <2>1, <2>2
<1>8. Knows(v) => Knows(y)
  <2>. SUFFICES ASSUME Knows(v), NEW m, Holds(y.out, m) PROVE Known(n.watched, m)
    BY DEF Knows, n
  <2>1. Holds(v.out, m) \/ m = [type |-> "RemoveMatch", of |-> s]
    <3>. DEFINE before == v.out
                W == Watchers(n, s)
                o == d.systemSeats[s]
    <3>1. before \in Seq(Messages) /\ o \in Nat /\ Holds(before \o Unsubscribes(o, W, s), m)
      BY <1>1, <1>2
    <3>. HIDE DEF before, W, o
    <3>2. Holds(before, m) \/ m = [type |-> "RemoveMatch", of |-> s]
      BY <3>1, SentToo
    <3>. QED BY <3>2 DEF before
  <2>2. CASE Holds(v.out, m)
    <3>1. Known(d.watched, m)
      BY <2>2 DEF Knows, d
    <3>. QED BY <1>6, <3>1, KnownOfMore
  <2>3. CASE m = [type |-> "RemoveMatch", of |-> s]
    BY <2>3 DEF Known
  <2>. QED BY <2>1, <2>2, <2>3
<1>9. InStep(v) => InStep(y)
  <2>. SUFFICES ASSUME InStep(v), NEW t \in Seats, n.up[t], ~Lost(y, t)
                PROVE  n.systemSeats[t] # 0 /\ n.watched[n.systemSeats[t]].graphical
    BY DEF InStep, n
  <2>1. t # s /\ d.up[t] /\ ~Lost(v, t)
    BY <1>3, <1>7
  <2>2. d.systemSeats[t] # 0 /\ d.watched[d.systemSeats[t]].graphical
    BY <2>1 DEF InStep, d
  <2>. QED BY <1>1, <1>2, <1>3, <1>4, <2>1, <2>2
<1>. QED BY <1>5, <1>6, <1>7, <1>8, <1>9 DEF Grows, y, d, n

\* A property that changed, or an answer: only graphical and up are new.
LEMMA ToldGrows ==
  ASSUME NEW v, Tracks(v), NEW y, y \in Views, y.d.systemSeats = v.d.systemSeats, y.out = v.out,
         DOMAIN y.d.watched = DOMAIN v.d.watched,
         \A i \in DOMAIN v.d.watched : y.d.watched[i].seat = v.d.watched[i].seat,
         \A t : Watchers(y.d, t) = Watchers(v.d, t),
         \A t \in Seats : InStep(v) /\ y.d.up[t] /\ ~Lost(v, t) =>
                            v.d.systemSeats[t] # 0 /\ y.d.watched[v.d.systemSeats[t]].graphical
  PROVE  Grows(v, y)
<1>1. Tracks(y)
  BY DEF Tracks
<1>2. Grown(v.d.watched, y.d.watched)
  BY DEF Grown
<1>3. \A s \in Seats : Lost(v, s) <=> Lost(y, s)
  BY DEF Lost
<1>4. Knows(v) => Knows(y)
  BY <1>2, KnownOfMore DEF Knows
<1>5. InStep(v) => InStep(y)
  BY <1>3 DEF InStep
<1>. QED BY <1>1, <1>2, <1>3, <1>4, <1>5 DEF Grows

\* A notice.
LEMMA ChangedGrows ==
  ASSUME NEW v, Tracks(v), NEW s \in Seats, NEW value \in BOOLEAN
  PROVE  Grows(v, Changed(v, s, value))
<1>. DEFINE y == Changed(v, s, value)
<1>1. v \in Views
  BY DEF Tracks
<1>2. ChangedTo(v, s, value, y)
  BY <1>1, ViewChanged
<1>. HIDE DEF y
<1>3. \A i \in DOMAIN v.d.watched :
        /\ y.d.watched[i].seat = v.d.watched[i].seat
        /\ y.d.watched[i].graphical = IF i \in Watchers(v.d, s) THEN value ELSE v.d.watched[i].graphical
  BY <1>2 DEF ChangedTo
<1>4. \A t \in Seats : y.d.up[t] = IF t = s /\ Watchers(v.d, s) # {} THEN value ELSE v.d.up[t]
  BY <1>2 DEF ChangedTo
<1>5. /\ y \in Views /\ y.d.systemSeats = v.d.systemSeats /\ y.out = v.out
      /\ DOMAIN y.d.watched = DOMAIN v.d.watched
      /\ \A t : Watchers(y.d, t) = Watchers(v.d, t)
  BY <1>2 DEF ChangedTo
<1>6. ASSUME NEW t \in Seats, InStep(v), y.d.up[t], ~Lost(v, t)
      PROVE  v.d.systemSeats[t] # 0 /\ y.d.watched[v.d.systemSeats[t]].graphical
  <2>1. CASE t = s /\ Watchers(v.d, s) # {}
    <3>1. v.d.systemSeats[s] \in Watchers(v.d, s) /\ v.d.systemSeats[s] # 0
      <4>1. PICK o \in Watchers(v.d, s) : o = v.d.systemSeats[s]
        BY <1>6, <2>1 DEF Lost
      <4>2. 0 \notin DOMAIN v.d.watched
        <5>1. v.d.watched \in Seq(Objects)
          BY <1>1 DEF Views
        <5>2. DOMAIN v.d.watched = 1 .. Len(v.d.watched) /\ Len(v.d.watched) \in Nat
          BY <5>1, LenProperties
        <5>. QED BY <5>2
      <4>. QED BY <4>1, <4>2 DEF Watchers
    <3>2. v.d.systemSeats[s] \in DOMAIN v.d.watched
      BY <3>1 DEF Watchers
    <3>. QED BY <1>3, <1>4, <1>6, <2>1, <3>1, <3>2
  <2>2. CASE ~(t = s /\ Watchers(v.d, s) # {})
    <3>1. v.d.systemSeats[t] # 0 /\ v.d.watched[v.d.systemSeats[t]].graphical
      BY <1>4, <1>6, <2>2 DEF InStep
    <3>2. v.d.systemSeats[t] \in DOMAIN v.d.watched /\ v.d.watched[v.d.systemSeats[t]].seat = t
          /\ v.d.systemSeats[t] \in Watchers(v.d, t)
      BY <3>1 DEF Tracks, Watchers
    <3>3. v.d.systemSeats[t] \notin Watchers(v.d, s)
      <4>1. CASE t = s
        BY <2>2, <3>2, <4>1
      <4>2. CASE t # s
        BY <3>2, <4>2 DEF Watchers
      <4>. QED BY <4>1, <4>2
    <3>. QED BY <1>3, <3>1, <3>2, <3>3
  <2>. QED BY <2>1, <2>2
<1>7. \A i \in DOMAIN v.d.watched : y.d.watched[i].seat = v.d.watched[i].seat
  BY <1>3
<1>8. Grows(v, y)
  BY <1>5, <1>6, <1>7, ToldGrows
<1>. QED BY <1>8 DEF y

\* An answer that is news.
LEMMA AnsweredGrows ==
  ASSUME NEW v, Tracks(v), NEW o \in DOMAIN v.d.watched, v.d.watched[o].alive, NEW value \in BOOLEAN
  PROVE  Grows(v, Answered(v, o, value))
<1>. DEFINE y == Answered(v, o, value)
            s == v.d.watched[o].seat
<1>1. v \in Views
  BY DEF Tracks
<1>2. AnsweredTo(v, o, value, y)
  BY <1>1, ViewAnswered
<1>. HIDE DEF y
<1>3. \A i \in DOMAIN v.d.watched :
        /\ y.d.watched[i].seat = v.d.watched[i].seat
        /\ y.d.watched[i].graphical = IF i = o THEN value ELSE v.d.watched[i].graphical
  BY <1>2 DEF AnsweredTo
<1>4. \A t \in Seats : y.d.up[t] = IF t = s THEN value ELSE v.d.up[t]
  BY <1>2 DEF AnsweredTo
<1>5. /\ y \in Views /\ y.d.systemSeats = v.d.systemSeats /\ y.out = v.out
      /\ DOMAIN y.d.watched = DOMAIN v.d.watched /\ s \in Seats
      /\ \A t : Watchers(y.d, t) = Watchers(v.d, t)
  BY <1>2 DEF AnsweredTo
<1>6. o \in Watchers(v.d, s) /\ o # 0
  <2>1. v.d.watched \in Seq(Objects)
    BY <1>1 DEF Views
  <2>2. DOMAIN v.d.watched = 1 .. Len(v.d.watched) /\ Len(v.d.watched) \in Nat
    BY <2>1, LenProperties
  <2>. QED BY <2>2 DEF Watchers
<1>7. \A t \in Seats : o \in Watchers(v.d, t) => t = s
  BY DEF Watchers
<1>. HIDE DEF s
<1>8. ASSUME NEW t \in Seats, InStep(v), y.d.up[t], ~Lost(v, t)
      PROVE  v.d.systemSeats[t] # 0 /\ y.d.watched[v.d.systemSeats[t]].graphical
  <2>1. CASE t = s
    <3>1. v.d.systemSeats[s] = o
      BY <1>6, <1>8, <2>1 DEF Lost
    <3>. QED BY <1>3, <1>4, <1>6, <1>8, <2>1, <3>1
  <2>2. CASE t # s
    <3>1. v.d.systemSeats[t] # 0 /\ v.d.watched[v.d.systemSeats[t]].graphical
      BY <1>4, <1>8, <2>2 DEF InStep
    <3>2. v.d.systemSeats[t] \in DOMAIN v.d.watched /\ v.d.systemSeats[t] \in Watchers(v.d, t)
      BY <3>1 DEF Tracks, Watchers
    <3>3. v.d.systemSeats[t] # o
      BY <1>7, <2>2, <3>2
    <3>. QED BY <1>3, <3>1, <3>2, <3>3
  <2>. QED BY <2>1, <2>2
<1>9. \A i \in DOMAIN v.d.watched : y.d.watched[i].seat = v.d.watched[i].seat
  BY <1>3
<1>10. Grows(v, y)
  BY <1>5, <1>8, <1>9, ToldGrows
<1>. QED BY <1>10 DEF y

\* The list of seats.
LEMMA ListGrows ==
  ASSUME NEW v, Tracks(v), NEW l \in Seq(Seats)
  PROVE  Grows(v, SeatsAdded(v, l))
<1>. DEFINE S == {y \in Views : Grows(v, y)}
<1>1. v \in S
  BY DEF Grows, Grown, Tracks
<1>2. AddsWithin(S, Seats)
  <2>. SUFFICES ASSUME NEW x \in S, NEW s \in Seats PROVE LogindSeatAdded(x, s) \in S
    BY DEF AddsWithin
  <2>1. Tracks(x) /\ Grows(v, x)
    BY DEF Grows
  <2>2. Grows(x, LogindSeatAdded(x, s))
    BY <2>1, AddedGrows
  <2>3. Grows(v, LogindSeatAdded(x, s)) /\ LogindSeatAdded(x, s) \in Views
    BY <2>1, <2>2, GrowsOn DEF Grows, Tracks
  <2>. QED BY <2>3
<1>. HIDE DEF S
<1>3. SeatsAdded(v, l) \in S
  BY <1>1, <1>2, AddingStays
<1>. QED BY <1>3 DEF S

\* An event a view can be handed.
Fine(v, e) == e \in Events /\ (e.type = "Value" => e.of \in DOMAIN v.d.watched)

\* Every event.
LEMMA HandledGrows ==
  ASSUME NEW v, Tracks(v), NEW e, Fine(v, e)
  PROVE  Grows(v, Handled(v, e))
<1>0. Grows(v, v)
  BY DEF Grows, Grown
<1>1. e.type \in {"Seats", "SeatNew", "SeatRemoved", "Changed", "Value", "Delete"}
  BY DEF Fine, Events, Deletes
<1>2. CASE e.type = "Seats"
  <2>1. e.seats \in Seq(Seats)
    BY <1>2 DEF Fine, Events, Deletes
  <2>. QED BY <1>2, <2>1, ListGrows DEF Handled
<1>3. CASE e.type = "SeatNew"
  <2>1. e.of \in Seats
    BY <1>3 DEF Fine, Events, Deletes
  <2>. QED BY <1>3, <2>1, AddedGrows DEF Handled
<1>4. CASE e.type = "SeatRemoved"
  <2>1. e.of \in Seats
    BY <1>4 DEF Fine, Events, Deletes
  <2>. QED BY <1>4, <2>1, GoneGrows DEF Handled
<1>5. CASE e.type = "Changed"
  <2>1. e.of \in Seats /\ e.value \in BOOLEAN
    BY <1>5 DEF Fine, Events, Deletes
  <2>2. Handled(v, e) = Changed(v, e.of, e.value)
    BY <1>5 DEF Handled
  <2>. QED BY <2>1, <2>2, ChangedGrows
<1>6. CASE e.type = "Value"
  <2>1. e.of \in DOMAIN v.d.watched /\ e.value \in BOOLEAN
    BY <1>6 DEF Fine, Events, Deletes
  <2>2. Handled(v, e) = IF News(v, e) THEN Answered(v, e.of, e.value) ELSE v
    BY <1>6 DEF Handled
  <2>3. News(v, e) => v.d.watched[e.of].alive
    BY DEF News
  <2>. QED BY <1>0, <2>1, <2>2, <2>3, AnsweredGrows
<1>7. CASE e.type = "Delete"
  BY <1>0, <1>7 DEF Handled
<1>. QED BY <1>1, <1>2, <1>3, <1>4, <1>5, <1>6, <1>7

\* Any first event the daemon can handle.
LEMMA OutcomeFollows ==
  ASSUME NEW d, NEW q, NEW sent, Ready(d, q, sent)
  PROVE  Follows(d, q, sent, Outcome(d, sent, Head(q)))
<1>1. Head(q).type \in {"Seats", "SeatNew", "SeatRemoved", "Changed", "Value", "Delete"}
  BY DEF Ready, Events, Deletes
<1>. QED BY <1>1, ListFollows, NewFollows, RemovalFollows, ChangeFollows, AnswerFollows, DeletionFollows

-----------------------------------------------------------------------------
(* What the whole keeps *)

Requests == [type : {"ListSeats"}, of : {Manager}] \cup [type : {"Get"}, seat : Seats, of : Nat]

\* Everything has its type; questions and answers are about objects that are there.
Kept ==
  /\ system \in Systems /\ out \in Seq(Messages) /\ rules \subseteq Seats \cup {Manager}
  /\ calls \in Seq(Requests)
  /\ Sane(daemon, events)
  /\ Knows(View(daemon, out))
  /\ \A m : Holds(calls, m) => Known(daemon.watched, m)
  /\ \A e : Holds(events, e) /\ e.type = "Value" => e.of \in DOMAIN daemon.watched

\* The handler of the first event.
Handling ==
  /\ Running /\ events # <<>>
  /\ daemon' = Outcome(daemon, out, Head(events)).d
  /\ out' = Outcome(daemon, out, Head(events)).out
  /\ events' = Tail(events) \o Outcome(daemon, out, Head(events)).post
  /\ UNCHANGED <<system, rules, calls, signals>>

Handlers == SeatsListed \/ SeatNew \/ SeatRemoved \/ GotValue \/ PropertiesChanged \/ Deleted

\* Each of the six handlers is that.
LEMMA HandlersHandle ==
  ASSUME events \in Seq(Events), Handlers
  PROVE  Handling
<1>. DEFINE e == Head(events)
            t == Tail(events)
            r == Outcome(daemon, out, e)
<1>1. events # <<>> => t \in Seq(Events) /\ t \o <<>> = t
  OBVIOUS
<1>. SUFFICES /\ Running /\ events # <<>> /\ UNCHANGED <<system, rules, calls, signals>>
              /\ daemon' = r.d /\ out' = r.out /\ events' = t \o r.post
  BY DEF Handling
<1>. HIDE DEF t, e
<1>2. CASE SeatsListed
  <2>. DEFINE x == SeatsAdded([d |-> daemon, out |-> out], e.seats)
  <2>1. /\ Running /\ events # <<>> /\ e.type = "Seats" /\ UNCHANGED <<system, rules, calls, signals>>
        /\ daemon' = x.d /\ out' = x.out /\ events' = t
    BY <1>2 DEF SeatsListed, Handle, e, t
  <2>2. r = [d |-> x.d, out |-> x.out, post |-> <<>>]
    BY <2>1 DEF Outcome
  <2>. HIDE DEF x, r
  <2>. QED BY <1>1, <2>1, <2>2
<1>3. CASE SeatNew
  <2>. DEFINE x == LogindSeatAdded([d |-> daemon, out |-> out], e.of)
  <2>1. /\ Running /\ events # <<>> /\ e.type = "SeatNew" /\ UNCHANGED <<system, rules, calls, signals>>
        /\ daemon' = x.d /\ out' = x.out /\ events' = t
    BY <1>3 DEF SeatNew, Handle, e, t
  <2>2. r = [d |-> x.d, out |-> x.out, post |-> <<>>]
    BY <2>1 DEF Outcome
  <2>. HIDE DEF x, r
  <2>. QED BY <1>1, <2>1, <2>2
<1>4. CASE SeatRemoved
  <2>. DEFINE x == LogindSeatRemoved(daemon, e.of)
  <2>1. /\ Running /\ events # <<>> /\ e.type = "SeatRemoved" /\ UNCHANGED <<system, rules, calls, signals>>
        /\ daemon' = x.d /\ out' = out \o x.out /\ events' = t \o x.post
    BY <1>4 DEF SeatRemoved, Handle, Apply, e, t
  <2>2. r = [d |-> x.d, out |-> out \o x.out, post |-> x.post]
    BY <2>1 DEF Outcome
  <2>. HIDE DEF x, r
  <2>. QED BY <2>1, <2>2
<1>5. CASE GotValue
  <2>. DEFINE w == daemon.watched[e.of]
              same == ~w.alive \/ ~e.valid \/ e.value = w.graphical
              x == CanGraphicalChanged(daemon, e.of, e.value)
  <2>1. /\ Running /\ events # <<>> /\ e.type = "Value" /\ UNCHANGED <<system, rules, calls, signals>>
        /\ out' = out
        /\ same => daemon' = daemon /\ events' = t
        /\ ~same => daemon' = x.d /\ events' = t \o x.post
    BY <1>5 DEF GotValue, Handle, Apply, e, t
  <2>2. r = IF same THEN [d |-> daemon, out |-> out, post |-> <<>>]
                    ELSE [d |-> x.d, out |-> out, post |-> x.post]
    BY <2>1 DEF Outcome
  <2>. HIDE DEF same, x, r
  <2>. QED BY <1>1, <2>1, <2>2
<1>6. CASE PropertiesChanged
  <2>. DEFINE x == AllTold(daemon, e.of, e.value)
  <2>1. /\ Running /\ events # <<>> /\ e.type = "Changed" /\ UNCHANGED <<system, rules, calls, signals>>
        /\ daemon' = x.d /\ out' = out /\ events' = t \o x.post
    BY <1>6 DEF PropertiesChanged, Handle, Apply, e, t
  <2>2. r = [d |-> x.d, out |-> out, post |-> x.post]
    BY <2>1 DEF Outcome
  <2>. HIDE DEF x, r
  <2>. QED BY <2>1, <2>2
<1>7. CASE Deleted
  <2>1. /\ Running /\ events # <<>> /\ e.type = "Delete" /\ UNCHANGED <<system, rules, calls, signals>>
        /\ daemon' = DeletedOne(daemon, e) /\ out' = out /\ events' = t
    BY <1>7 DEF Deleted, Handle, DeletedOne, e, t
  <2>2. r = [d |-> DeletedOne(daemon, e), out |-> out, post |-> <<>>]
    BY <2>1 DEF Outcome
  <2>. HIDE DEF r
  <2>. QED BY <1>1, <2>1, <2>2
<1>. QED BY <1>2, <1>3, <1>4, <1>5, <1>6, <1>7 DEF Handlers

\* The view of a daemon that is in order tracks its objects.
LEMMA ViewTracks ==
  ASSUME NEW d, NEW q, Sane(d, q), NEW sent \in Seq(Messages)
  PROVE  Tracks(View(d, sent))
<1>. DEFINE v == View(d, sent)
<1>1. d \in Daemons /\ \A s \in Seats : d.systemSeats[s] = 0 \/ d.systemSeats[s] \in Watchers(d, s)
  BY DEF Sane, DaemonOK
<1>2. /\ v \in Views /\ v.d.systemSeats = d.systemSeats
      /\ \A s : Watchers(v.d, s) = Watchers(d, s)
  BY <1>1, ViewIs
<1>. HIDE DEF v
<1>3. Tracks(v)
  BY <1>1, <1>2 DEF Tracks
<1>. QED BY <1>3 DEF v

\* Handling an event keeps it.
LEMMA HandlingKeeps ==
  ASSUME Kept, Handling
  PROVE  /\ Kept'
         /\ Follows(daemon, events, out, Outcome(daemon, out, Head(events)))
         /\ Fine(View(daemon, out), Head(events))
         /\ Grows(View(daemon, out), View(daemon', out'))
<1>. DEFINE e == Head(events)
            r == Outcome(daemon, out, e)
            v == View(daemon, out)
            y == View(daemon', out')
<1>1. /\ daemon' = r.d /\ out' = r.out /\ events' = Tail(events) \o r.post /\ events # <<>>
      /\ UNCHANGED <<system, rules, calls>>
  BY DEF Handling
<1>2. daemon \in Daemons /\ out \in Seq(Messages) /\ events \in Seq(Events)
  BY DEF Kept, Sane, DaemonOK, QueueOK
<1>3. Tail(events) \in Seq(Events) /\ e \in Events /\ \A x : Holds(events, x) <=> x = e \/ Holds(Tail(events), x)
  BY <1>1, <1>2, HoldsTail
<1>4. Ready(daemon, events, out)
  BY <1>1, <1>2, <1>3 DEF Kept, Ready
<1>5. Follows(daemon, events, out, r)
  BY <1>4, OutcomeFollows
<1>6. Tracks(v) /\ v.d.watched = daemon.watched
  BY <1>2, ViewTracks, ViewIs DEF Kept
<1>7. Fine(v, e)
  BY <1>4, <1>6 DEF Fine, Ready
<1>8. Grows(v, Handled(v, e))
  BY <1>6, <1>7, HandledGrows
<1>. HIDE DEF r
<1>9. /\ r.d \in Daemons /\ r.out \in Seq(Messages) /\ r.post \in Seq(Deletes)
      /\ Sane(r.d, Tail(events) \o r.post) /\ View(r.d, r.out) = Handled(v, e)
  BY <1>5 DEF Follows
<1>10. y = Handled(v, e) /\ y.d.watched = daemon'.watched
  BY <1>1, <1>9, ViewIs
<1>. HIDE DEF y, v, e
<1>11. Grows(v, y)
  BY <1>8, <1>10
<1>12. Knows(y) /\ Grown(daemon.watched, daemon'.watched)
  BY <1>6, <1>10, <1>11 DEF Grows, Kept, v
<1>13. \A m : Holds(calls', m) => Known(daemon'.watched, m)
  BY <1>1, <1>12, KnownOfMore DEF Kept
<1>14. ASSUME NEW x, Holds(events', x), x.type = "Value" PROVE x.of \in DOMAIN daemon'.watched
  <2>1. Holds(Tail(events), x) \/ Holds(r.post, x)
    <3>. DEFINE t == Tail(events)
                p == r.post
    <3>1. p \in Seq(Events) /\ t \in Seq(Events) /\ Holds(t \o p, x)
      <4>1. Deletes \subseteq Events
        BY DEF Events
      <4>2. p \in Seq(Events)
        BY <1>9, <4>1
      <4>. QED BY <1>1, <1>3, <1>14, <4>2
    <3>. HIDE DEF t, p
    <3>2. Holds(t, x) \/ Holds(p, x)
      BY <3>1, HoldsBoth
    <3>. QED BY <3>2 DEF t, p
  <2>2. ~Holds(r.post, x)
    <3>1. \A i \in DOMAIN r.post : r.post[i] \in Deletes
      BY <1>9
    <3>2. x \notin Deletes
      BY <1>14 DEF Deletes
    <3>. QED BY <3>1, <3>2 DEF Holds
  <2>3. x.of \in DOMAIN daemon.watched
    BY <1>3, <1>14, <2>1, <2>2 DEF Kept
  <2>. QED BY <1>12, <2>3 DEF Grown
<1>15. Kept'
  <2>1. system' \in Systems /\ out' \in Seq(Messages) /\ rules' \subseteq Seats \cup {Manager} /\ calls' \in Seq(Requests)
    BY <1>1, <1>9 DEF Kept
  <2>2. Sane(daemon', events')
    BY <1>1, <1>9
  <2>. QED BY <1>12, <1>13, <1>14, <2>1, <2>2 DEF Kept, y
<1>. QED BY <1>5, <1>7, <1>11, <1>15 DEF e, v, y, r

\* A daemon that has made nothing.
LEMMA NothingMade ==
  ASSUME NEW p \in {"starting", "running", "stopped"}
  PROVE  LET d == [NewDaemon EXCEPT !.pc = p]
         IN /\ Sane(d, <<>>) /\ \A s \in Seats : SeatKept(d, <<>>, s)
            /\ d.watched = <<>> /\ d.systemSeats = [s \in Seats |-> 0] /\ d.seats = [s \in Seats |-> 0]
            /\ d.pc = p
<1>. DEFINE d == [NewDaemon EXCEPT !.pc = p]
            none == [s \in Seats |-> 0]
<1>1. none \in [Seats -> Nat] /\ \A s \in Seats : none[s] = 0
  OBVIOUS
<1>2. <<>> \in Seq(Objects) /\ <<>> \in Seq(SeatObjects) /\ <<>> \in Seq(Nat) /\ <<>> \in Seq(Events) /\ DOMAIN <<>> = {}
      /\ <<>> \in Seq({})
  OBVIOUS
<1>. HIDE DEF none
<1>3. d = [pc |-> p, watched |-> <<>>, systemSeats |-> none, seats |-> none, made |-> <<>>, list |-> <<>>,
           paths |-> none, switches |-> 0]
  BY DEF NewDaemon, none
<1>. HIDE DEF d
<1>4. /\ d \in Daemons /\ d.watched = <<>> /\ d.systemSeats = none /\ d.seats = none /\ d.made = <<>>
      /\ d.list = <<>> /\ d.paths = none /\ d.pc = p
  BY <1>1, <1>2, <1>3 DEF Daemons
<1>5. DaemonOK(d)
  BY <1>1, <1>2, <1>4 DEF DaemonOK
<1>6. QueueOK(d, <<>>) /\ PathsKept(d, <<>>) /\ \A s \in Seats : SeatKept(d, <<>>, s)
  BY <1>1, <1>2, <1>4 DEF QueueOK, PathsKept, SeatKept, Holds
<1>. QED BY <1>4, <1>5, <1>6 DEF Sane, d, none

\* The seats of a set in a sequence.
LEMMA Listed ==
  ASSUME NEW P, P \subseteq Seats
  PROVE  SetToSeq(P) \in Seq(P) /\ SetToSeq(P) \in Seq(Seats)
<1>1. IsFiniteSet(P)
  BY SeatManagerAssumption, FS_Subset DEF SeatManagerAssumption
<1>2. Cardinality(P) \in Nat /\ ExistsBijection(1 .. Cardinality(P), P)
  BY <1>1, FS_CardinalityType
<1>. DEFINE n == Cardinality(P)
<1>3. \E f \in [1 .. n -> P] : IsInjective(f)
  BY <1>2 DEF ExistsBijection, Bijection, Injection
<1>4. SetToSeq(P) \in [1 .. n -> P]
  BY <1>3, Zenon DEF SetToSeq
<1>5. SetToSeq(P) \in Seq(P)
  BY <1>2, <1>4
<1>. QED BY <1>5

\* At the start.
LEMMA KeptFirst ==
  ASSUME Init
  PROVE  Kept
<1>1. daemon = [NewDaemon EXCEPT !.pc = "starting"]
  BY DEF Init, NewDaemon
<1>2. Sane(daemon, events) /\ daemon.watched = <<>>
  BY <1>1, NothingMade DEF Init
<1>3. system \in Systems
  <2>. DEFINE none == [s \in Seats |-> 0]
              plugs == {Unplugged, [present |-> TRUE, graphical |-> FALSE], [present |-> TRUE, graphical |-> TRUE]}
  <2>1. none \in [Seats -> Nat]
    OBVIOUS
  <2>2. plugs \subseteq [present : BOOLEAN, graphical : BOOLEAN]
    BY DEF Unplugged
  <2>3. system \in [service : Services, testing : BOOLEAN, changes : {none}, missed : {{}}, seats : [Seats -> plugs]]
    BY DEF Init
  <2>. HIDE DEF none, plugs
  <2>4. Services \subseteq ServiceStates
    BY SeatManagerAssumption DEF SeatManagerAssumption
  <2>. QED BY <2>1, <2>2, <2>3, <2>4 DEF Systems
<1>4. Knows(View(daemon, out))
  BY DEF Init, Knows, View, Holds
<1>. QED BY <1>2, <1>3, <1>4 DEF Init, Kept, Holds

\* A daemon that starts running.
LEMMA Run ==
  ASSUME NEW d, NEW q, Sane(d, q), NEW n, n = [d EXCEPT !.pc = "running"]
  PROVE  /\ Sane(n, q) /\ n.watched = d.watched /\ n.systemSeats = d.systemSeats /\ n.seats = d.seats
         /\ n.made = d.made /\ n.pc = "running"
<1>1. d \in Daemons
  BY DEF Sane, DaemonOK
<1>2. /\ n \in Daemons /\ n.watched = d.watched /\ n.systemSeats = d.systemSeats /\ n.seats = d.seats
      /\ n.made = d.made /\ n.list = d.list /\ n.paths = d.paths /\ n.pc = "running"
  BY <1>1 DEF Daemons
<1>. QED BY <1>2 DEF Sane, DaemonOK, QueueOK, PathsKept, Watchers

\* The constructor of DaemonApp.
LEMMA StartKeeps ==
  ASSUME Kept, Start
  PROVE  Kept'
<1>. DEFINE run == [daemon EXCEPT !.pc = "running"]
<1>1. PICK service \in IF system.service = "activatable" THEN {"consoleKit", "none"} ELSE {system.service} :
        /\ system' = [system EXCEPT !.service = service]
        /\ IF system.testing \/ ~HasSeatService(service)
             THEN daemon' = CreateSeat(run, "seat0") /\ UNCHANGED out
             ELSE daemon' = run /\ out' = FetchSeats
  BY DEF Start
<1>2. UNCHANGED <<rules, calls, events>>
  BY DEF Start
<1>3. Sane(run, events) /\ run.watched = daemon.watched
  BY Run DEF Kept
<1>. HIDE DEF run
<1>4. system' \in Systems
  BY <1>1 DEF Kept, Systems, ServiceStates
<1>5. CASE daemon' = CreateSeat(run, "seat0") /\ UNCHANGED out
  <2>1. "seat0" \in Seats
    BY SeatManagerAssumption DEF SeatManagerAssumption
  <2>2. Sane(daemon', events')
    BY <1>2, <1>3, <1>5, <2>1, CreateSeatKeeps
  <2>3. daemon'.watched = daemon.watched
    <3>1. run \in Daemons
      BY <1>3 DEF Sane, DaemonOK
    <3>. QED BY <1>3, <1>5, <2>1, <3>1, CreateSeatIs
  <2>4. Knows(View(daemon', out'))
    BY <1>5, <2>3 DEF Kept, Knows, View
  <2>. QED BY <1>2, <1>4, <1>5, <2>2, <2>3, <2>4 DEF Kept
<1>6. CASE daemon' = run /\ out' = FetchSeats
  <2>1. Sane(daemon', events') /\ daemon'.watched = daemon.watched
    BY <1>2, <1>3, <1>6
  <2>2. out' \in Seq(Messages) /\ \A m : Holds(out', m) => m.type # "Get"
    BY <1>6 DEF FetchSeats, Messages, Holds
  <2>3. Knows(View(daemon', out'))
    BY <2>2 DEF Knows, View, Known
  <2>. QED BY <1>2, <1>4, <2>1, <2>2, <2>3 DEF Kept
<1>. QED BY <1>1, <1>5, <1>6

\* SwitchToGreeter.
LEMMA SwitchingKeeps ==
  ASSUME Kept, NEW s \in Seats, SwitchToGreeter(s)
  PROVE  /\ Kept' /\ View(daemon', out') = View(daemon, out) /\ daemon'.pc = daemon.pc
         /\ \A t \in Seats : SeatKept(daemon, events, t) => SeatKept(daemon', events', t)
<1>1. UNCHANGED <<system, out, rules, calls, events>>
  BY DEF SwitchToGreeter
<1>2. /\ daemon'.watched = daemon.watched /\ daemon'.systemSeats = daemon.systemSeats
      /\ daemon'.seats = daemon.seats /\ daemon'.pc = daemon.pc
      /\ Sane(daemon', events)
      /\ \A t \in Seats : SeatKept(daemon, events, t) => SeatKept(daemon', events, t)
  <2>. DEFINE d == daemon
              q == events
              n == daemon'
  <2>1. n = Switched(d, s)
    BY DEF SwitchToGreeter, Switched
  <2>2. Sane(d, q)
    BY DEF Kept
  <2>. HIDE DEF d, q, n
  <2>3. /\ n.watched = d.watched /\ n.systemSeats = d.systemSeats /\ n.seats = d.seats /\ n.pc = d.pc
        /\ Sane(n, q) /\ \A t \in Seats : SeatKept(d, q, t) => SeatKept(n, q, t)
    BY <2>1, <2>2, SwitchKeeps
  <2>. QED BY <2>3 DEF d, q, n
<1>3. View(daemon', out') = View(daemon, out)
  BY <1>1, <1>2 DEF View
<1>4. Kept'
  BY <1>1, <1>2, <1>3 DEF Kept
<1>. QED BY <1>1, <1>2, <1>3, <1>4

\* HandleSignal.
LEMMA SignalKeeps ==
  ASSUME Kept, NEW sig, HandleSignal(sig)
  PROVE  Kept'
<1>1. Sane(daemon', events') /\ daemon'.watched = <<>>
  BY NothingMade DEF HandleSignal
<1>2. Knows(View(daemon', out'))
  BY DEF HandleSignal, Knows, View, Holds
<1>. QED BY <1>1, <1>2 DEF HandleSignal, Kept, Holds

\* The bus reads a message.
LEMMA BusReadsKeeps ==
  ASSUME Kept, BusReads
  PROVE  Kept'
<1>. DEFINE m == Head(out)
            t == Tail(out)
<1>1. /\ out # <<>> /\ out' = t /\ UNCHANGED <<system, daemon, events>>
      /\ CASE m.type = "AddMatch"    -> rules' = rules \cup {m.of} /\ UNCHANGED calls
           [] m.type = "RemoveMatch" -> rules' = rules \ {m.of} /\ UNCHANGED calls
           [] OTHER                  -> calls' = Append(calls, m) /\ UNCHANGED rules
  BY DEF BusReads
<1>2. m \in Messages /\ t \in Seq(Messages) /\ \A x : Holds(out, x) <=> x = m \/ Holds(t, x)
  BY <1>1, HoldsTail DEF Kept
<1>. HIDE DEF m, t
<1>3. Knows(View(daemon', out')) /\ Known(daemon.watched, m)
  BY <1>1, <1>2 DEF Kept, Knows, View
<1>4. rules' \subseteq Seats \cup {Manager}
  <2>1. m.type = "AddMatch" => m.of \in Seats \cup {Manager}
    BY <1>2 DEF Messages
  <2>. QED BY <1>1, <2>1 DEF Kept
<1>5. calls' \in Seq(Requests) /\ \A x : Holds(calls', x) => Known(daemon.watched, x)
  <2>1. CASE m.type \in {"AddMatch", "RemoveMatch"}
    BY <1>1, <2>1 DEF Kept
  <2>2. CASE m.type \notin {"AddMatch", "RemoveMatch"}
    <3>1. m \in Requests
      BY <1>2, <2>2 DEF Messages, Requests
    <3>2. calls' = Append(calls, m) /\ calls \in Seq(Requests)
      BY <1>1, <2>2 DEF Kept
    <3>3. Append(calls, m) \in Seq(Requests) /\ \A x : Holds(Append(calls, m), x) <=> Holds(calls, x) \/ x = m
      BY <3>1, <3>2, AppendIs, AppendProperties
    <3>. QED BY <1>3, <3>2, <3>3 DEF Kept
  <2>. QED BY <2>1, <2>2
<1>. QED BY <1>1, <1>2, <1>3, <1>4, <1>5 DEF Kept

\* What joins the queue and is no deletion.
LEMMA Queued ==
  ASSUME Kept, NEW e \in Events, e.type # "Delete", e.type = "Value" => e.of \in DOMAIN daemon.watched
  PROVE  /\ Sane(daemon, Append(events, e))
         /\ \A x : Holds(Append(events, e), x) /\ x.type = "Value" => x.of \in DOMAIN daemon.watched
<1>1. Sane(daemon, events) /\ events \in Seq(Events)
  BY DEF Kept, Sane, QueueOK
<1>2. Sane(daemon, Append(events, e))
  BY <1>1, NothingDeleted
<1>3. \A x : Holds(Append(events, e), x) <=> Holds(events, x) \/ x = e
  BY <1>1, AppendIs
<1>. QED BY <1>2, <1>3 DEF Kept

\* What logind answers.
Answer(m) ==
  IF m.type = "ListSeats"
    THEN [type |-> "Seats", seats |-> SetToSeq({s \in Seats : system.seats[s].present})]
    ELSE [type |-> "Value", of |-> m.of, valid |-> system.seats[m.seat].present,
          value |-> system.seats[m.seat].graphical]

\* Logind answers.
LEMMA AnswersKeep ==
  ASSUME Kept, LogindAnswers
  PROVE  /\ Kept' /\ Answer(Head(calls)) \in Events /\ Head(calls) \in Requests
         /\ Known(daemon.watched, Head(calls)) /\ Answer(Head(calls)).type \in {"Seats", "Value"}
<1>. DEFINE m == Head(calls)
            t == Tail(calls)
            e == Answer(m)
<1>1. /\ calls # <<>> /\ calls' = t /\ UNCHANGED <<system, daemon, out, rules>> /\ events' = Append(events, e)
  BY DEF LogindAnswers, Answer
<1>2. m \in Requests /\ t \in Seq(Requests) /\ \A x : Holds(calls, x) <=> x = m \/ Holds(t, x)
  BY <1>1, HoldsTail DEF Kept
<1>. HIDE DEF m, t
<1>3. Known(daemon.watched, m) /\ \A x : Holds(t, x) => Known(daemon.watched, x)
  BY <1>2 DEF Kept
<1>4. /\ e \in Events /\ e.type \in {"Seats", "Value"}
      /\ e.type = "Value" => e.of \in DOMAIN daemon.watched
  <2>1. CASE m.type = "ListSeats"
    <3>. DEFINE l == SetToSeq({s \in Seats : system.seats[s].present})
    <3>1. l \in Seq(Seats)
      BY Listed
    <3>. HIDE DEF l
    <3>2. e = [type |-> "Seats", seats |-> l]
      BY <2>1 DEF Answer, l
    <3>. HIDE DEF e
    <3>. QED BY <3>1, <3>2 DEF Events
  <2>2. CASE m.type # "ListSeats"
    <3>1. m.type = "Get" /\ m.seat \in Seats /\ m.of \in Nat
      BY <1>2, <2>2 DEF Requests
    <3>2. system.seats[m.seat].present \in BOOLEAN /\ system.seats[m.seat].graphical \in BOOLEAN
      BY <3>1 DEF Kept, Systems
    <3>3. e = [type |-> "Value", of |-> m.of, valid |-> system.seats[m.seat].present,
               value |-> system.seats[m.seat].graphical]
      BY <2>2 DEF Answer
    <3>. HIDE DEF e
    <3>. QED BY <1>3, <3>1, <3>2, <3>3 DEF Events, Known
  <2>. QED BY <2>1, <2>2
<1>. HIDE DEF e
<1>5. /\ Sane(daemon, Append(events, e))
      /\ \A x : Holds(Append(events, e), x) /\ x.type = "Value" => x.of \in DOMAIN daemon.watched
  BY <1>4, Queued
<1>6. Kept'
  BY <1>1, <1>2, <1>3, <1>5 DEF Kept
<1>. QED BY <1>2, <1>3, <1>4, <1>6 DEF m, e

\* A seat changes.
LEMMA ChangeIs ==
  ASSUME Kept, NEW s \in Seats, NEW to \in [present : BOOLEAN, graphical : BOOLEAN], Change(s, to)
  PROVE  /\ UNCHANGED <<daemon, out, rules, calls>> /\ HasSeatService(system.service)
         /\ system' \in Systems /\ system'.testing = system.testing /\ system'.service = system.service
         /\ system'.seats = [system.seats EXCEPT ![s] = to]
         /\ system'.missed = IF system.seats[s].graphical /\ to.present /\ KnownGraphical(s) /\ s \notin rules
                               THEN system.missed \cup {s} ELSE system.missed
<1>. DEFINE missed == IF system.seats[s].graphical /\ to.present /\ KnownGraphical(s) /\ s \notin rules
                        THEN system.missed \cup {s} ELSE system.missed
            changes == [system.changes EXCEPT ![s] = @ + 1]
            seats == [system.seats EXCEPT ![s] = to]
<1>1. system \in Systems
  BY DEF Kept
<1>2. missed \subseteq Seats /\ changes \in [Seats -> Nat]
      /\ seats \in [Seats -> [present : BOOLEAN, graphical : BOOLEAN]]
  BY <1>1 DEF Systems
<1>3. system' = [system EXCEPT !.changes = changes, !.seats = seats, !.missed = missed]
  BY <1>1 DEF Change, Systems
<1>. HIDE DEF missed, changes, seats
<1>4. /\ system' \in Systems /\ system'.testing = system.testing /\ system'.service = system.service
      /\ system'.seats = seats /\ system'.missed = missed
  BY <1>1, <1>2, <1>3 DEF Systems
<1>5. UNCHANGED <<daemon, out, rules, calls>> /\ HasSeatService(system.service)
  BY DEF Change
<1>. QED BY <1>4, <1>5 DEF seats, missed

\* A seat that is added, removed or told otherwise, and what the bus passes on of it.
Happens(s, to, rule, e) ==
  /\ Change(s, to) /\ events' = IF Running /\ rule \in rules THEN Append(events, e) ELSE events

\* The three changes are such.
LEMMA Changes ==
  ASSUME Kept, NEW s \in Seats, Plug(s) \/ Unplug(s) \/ Toggle(s)
  PROVE  \E to \in [present : BOOLEAN, graphical : BOOLEAN], e \in Events, rule \in Seats \cup {Manager} :
           /\ Happens(s, to, rule, e) /\ e.of = s
           /\ \/ e.type = "SeatNew" /\ rule = Manager /\ ~system.seats[s].present /\ to.present
              \/ e.type = "SeatRemoved" /\ rule = Manager /\ system.seats[s].present /\ to = Unplugged
              \/ /\ e.type = "Changed" /\ rule = s /\ system.seats[s].present /\ to.present
                 /\ to.graphical = ~system.seats[s].graphical /\ e.value = to.graphical
<1>1. system.seats[s].graphical \in BOOLEAN
  BY DEF Kept, Systems
<1>2. CASE Plug(s)
  <2>1. PICK g \in BOOLEAN : Change(s, [present |-> TRUE, graphical |-> g])
    BY <1>2 DEF Plug
  <2>. DEFINE to == [present |-> TRUE, graphical |-> g]
              e == [type |-> "SeatNew", of |-> s]
  <2>2. Happens(s, to, Manager, e) /\ ~system.seats[s].present
    BY <1>2, <2>1 DEF Plug, Happens, Emit
  <2>3. to \in [present : BOOLEAN, graphical : BOOLEAN] /\ e \in Events /\ to.present /\ e.type = "SeatNew" /\ e.of = s
    BY DEF Events
  <2>. HIDE DEF to, e
  <2>. QED BY <2>2, <2>3
<1>3. CASE Unplug(s)
  <2>. DEFINE e == [type |-> "SeatRemoved", of |-> s]
  <2>2. Happens(s, Unplugged, Manager, e) /\ system.seats[s].present
    BY <1>3 DEF Unplug, Happens, Emit
  <2>3. Unplugged \in [present : BOOLEAN, graphical : BOOLEAN] /\ e \in Events /\ e.type = "SeatRemoved" /\ e.of = s
    BY DEF Events, Unplugged
  <2>. HIDE DEF e
  <2>. QED BY <2>2, <2>3
<1>4. CASE Toggle(s)
  <2>. DEFINE g == ~system.seats[s].graphical
              to == [present |-> TRUE, graphical |-> g]
              e == [type |-> "Changed", of |-> s, value |-> g]
  <2>2. Happens(s, to, s, e) /\ system.seats[s].present
    BY <1>4 DEF Toggle, Happens, Emit
  <2>3. /\ to \in [present : BOOLEAN, graphical : BOOLEAN] /\ e \in Events
        /\ to.present /\ e.type = "Changed" /\ e.of = s /\ to.graphical = g /\ e.value = g
    BY <1>1 DEF Events
  <2>. HIDE DEF to, e
  <2>. QED BY <2>2, <2>3
<1>. QED BY <1>2, <1>3, <1>4

\* Whatever changes.
LEMMA HappeningKeeps ==
  ASSUME Kept, NEW s \in Seats, NEW to \in [present : BOOLEAN, graphical : BOOLEAN],
         NEW e \in Events, NEW rule, Happens(s, to, rule, e), e.type \in {"SeatNew", "SeatRemoved", "Changed"}
  PROVE  Kept'
<1>1. UNCHANGED <<daemon, out, rules, calls>> /\ system' \in Systems
  BY ChangeIs DEF Happens
<1>2. /\ Sane(daemon, Append(events, e))
      /\ \A x : Holds(Append(events, e), x) /\ x.type = "Value" => x.of \in DOMAIN daemon.watched
  BY Queued
<1>3. events' = events \/ events' = Append(events, e)
  BY DEF Happens
<1>. QED BY <1>1, <1>2, <1>3 DEF Kept

\* What a step does.
LEMMA Steps ==
  ASSUME Next
  PROVE  \/ Handlers \/ Start \/ BusReads \/ LogindAnswers
         \/ \E s \in Seats : SwitchToGreeter(s) \/ Plug(s) \/ Unplug(s) \/ Toggle(s)
         \/ \E sig \in {"SIGINT", "SIGTERM"} : HandleSignal(sig) \/ Signalled(sig)
BY DEF Next, DaemonStep, Handlers

-----------------------------------------------------------------------------
(* Questions and rules on their way.  p is what was sent and not yet read,  *)
(* c what was read and not yet answered, R the rules in effect.             *)

IsGet(m, o) == m.type = "Get" /\ m.of = o

Rule(type, s) == [type |-> type, of |-> s]

Asked(p, c, o) == \E m : IsGet(m, o) /\ (Holds(p, m) \/ Holds(c, m))

\* No two questions of a sequence, or of two, are about one object.
Once(q) == \A i, j \in DOMAIN q : q[i].type = "Get" /\ q[j].type = "Get" /\ q[i].of = q[j].of => i = j

Apart(p, c) == \A m, n : Holds(p, m) /\ Holds(c, n) /\ m.type = "Get" /\ n.type = "Get" => m.of # n.of

AskedOnce(p, c) == Once(p) /\ Once(c) /\ Apart(p, c)

\* The rule of s is in effect until the question about o is read, and stays.
RuleThenQuestion(p, s, o, a, g) ==
  /\ a < g /\ p[a] = Rule("AddMatch", s) /\ IsGet(p[g], o)
  /\ \A r \in DOMAIN p : r > a => p[r] # Rule("RemoveMatch", s)

Subscribed(p, R, s, o) ==
  \/ s \in R /\ ~Holds(p, Rule("RemoveMatch", s))
  \/ \E a, g \in DOMAIN p : RuleThenQuestion(p, s, o, a, g)

\* The rules that are in effect once message m was read.
RulesAfter(R, m) ==
  CASE m.type = "AddMatch" -> R \cup {m.of} [] m.type = "RemoveMatch" -> R \ {m.of} [] OTHER -> R

\* Who is subscribed still is when any message but the end of it is sent.
LEMMA SubscribedStays ==
  ASSUME NEW p \in Seq(Messages), NEW R, NEW s, NEW o, Subscribed(p, R, s, o),
         NEW x, x # Rule("RemoveMatch", s)
  PROVE  Subscribed(Append(p, x), R, s, o)
<1>. DEFINE q == Append(p, x)
<1>1. /\ DOMAIN q = 1 .. Len(p) + 1 /\ Len(p) \in Nat /\ DOMAIN p = 1 .. Len(p) /\ q[Len(p) + 1] = x
      /\ \A i \in 1 .. Len(p) : i \in 1 .. Len(p) + 1 /\ q[i] = p[i]
      /\ \A i \in 1 .. Len(p) + 1 : i = Len(p) + 1 \/ i \in 1 .. Len(p)
      /\ \A y : Holds(q, y) <=> Holds(p, y) \/ y = x
  BY AppendIs
<1>. HIDE DEF q
<1>2. CASE s \in R /\ ~Holds(p, Rule("RemoveMatch", s))
  BY <1>1, <1>2 DEF Subscribed, q
<1>3. CASE \E a, g \in DOMAIN p : RuleThenQuestion(p, s, o, a, g)
  <2>1. PICK a, g \in 1 .. Len(p) : RuleThenQuestion(p, s, o, a, g)
    BY <1>1, <1>3
  <2>2. a \in DOMAIN q /\ g \in DOMAIN q /\ q[a] = p[a] /\ q[g] = p[g]
    BY <1>1, <2>1
  <2>3. \A r \in DOMAIN q : r > a => q[r] # Rule("RemoveMatch", s)
    BY <1>1, <2>1 DEF RuleThenQuestion
  <2>4. RuleThenQuestion(q, s, o, a, g)
    BY <2>1, <2>2, <2>3 DEF RuleThenQuestion
  <2>. QED BY <2>2, <2>4 DEF Subscribed, q
<1>. QED BY <1>2, <1>3 DEF Subscribed

\* The next object of a seat is subscribed when another is, or when it sends for the rule.
LEMMA SubscribedToo ==
  ASSUME NEW p \in Seq(Messages), NEW R, NEW s \in Seats, NEW o, NEW k \in Nat
  PROVE  /\ Subscribed(p, R, s, o) => Subscribed(Append(p, Asks(s, k)), R, s, k)
         /\ Subscribed(Append(Append(p, Rule("AddMatch", s)), Asks(s, k)), R, s, k)
<1>. DEFINE x == Asks(s, k)
            add == Rule("AddMatch", s)
            end == Rule("RemoveMatch", s)
            q == Append(p, x)
            b == Append(p, add)
            z == Append(b, x)
<1>0. x # end /\ add # end /\ IsGet(x, k) /\ add \in Messages
  BY DEF Asks, Rule, IsGet, Messages
<1>1. /\ DOMAIN q = 1 .. Len(p) + 1 /\ Len(p) \in Nat /\ DOMAIN p = 1 .. Len(p) /\ q[Len(p) + 1] = x
      /\ \A i \in 1 .. Len(p) : i \in 1 .. Len(p) + 1 /\ q[i] = p[i]
      /\ \A i \in 1 .. Len(p) + 1 : i = Len(p) + 1 \/ i \in 1 .. Len(p)
      /\ \A y : Holds(q, y) <=> Holds(p, y) \/ y = x
  BY AppendIs
<1>2. b \in Seq(Messages) /\ Len(b) = Len(p) + 1 /\ b[Len(p) + 1] = add
  BY <1>0
<1>. HIDE DEF q, b, x, add, end
<1>3. /\ DOMAIN z = 1 .. Len(b) + 1 /\ z[Len(b) + 1] = x
      /\ \A i \in 1 .. Len(b) : i \in 1 .. Len(b) + 1 /\ z[i] = b[i]
  BY <1>2, AppendIs
<1>. HIDE DEF z
<1>4. ASSUME Subscribed(p, R, s, o) PROVE Subscribed(q, R, s, k)
  <2>1. CASE s \in R /\ ~Holds(p, end)
    BY <1>0, <1>1, <2>1 DEF Subscribed, end
  <2>2. CASE \E a, g \in DOMAIN p : RuleThenQuestion(p, s, o, a, g)
    <3>1. PICK a, g \in 1 .. Len(p) : RuleThenQuestion(p, s, o, a, g)
      BY <1>1, <2>2
    <3>. DEFINE h == Len(p) + 1
    <3>2. a \in DOMAIN q /\ h \in DOMAIN q /\ a < h /\ q[a] = p[a] /\ q[h] = x
      BY <1>1, <3>1
    <3>3. \A r \in DOMAIN q : r > a => q[r] # end
      BY <1>0, <1>1, <3>1 DEF RuleThenQuestion, end
    <3>. HIDE DEF h
    <3>4. RuleThenQuestion(q, s, k, a, h)
      BY <1>0, <3>1, <3>2, <3>3 DEF RuleThenQuestion, end
    <3>. QED BY <3>2, <3>4 DEF Subscribed
  <2>. QED BY <1>4, <2>1, <2>2 DEF Subscribed, end
<1>5. Subscribed(z, R, s, k)
  <2>. DEFINE a == Len(p) + 1
              h == Len(p) + 2
  <2>1. a \in DOMAIN z /\ h \in DOMAIN z /\ a < h /\ z[a] = add /\ z[h] = x
    BY <1>1, <1>2, <1>3
  <2>2. \A r \in DOMAIN z : r > a => r = h
    BY <1>1, <1>2, <1>3
  <2>. HIDE DEF a, h
  <2>3. RuleThenQuestion(z, s, k, a, h)
    BY <1>0, <2>1, <2>2 DEF RuleThenQuestion, add, end
  <2>. QED BY <2>1, <2>3 DEF Subscribed
<1>. QED BY <1>4, <1>5 DEF q, z, b, x, add

\* Who is subscribed still is when the bus reads a message.
LEMMA SubscribedRead ==
  ASSUME NEW p \in Seq(Messages), p # <<>>, NEW R, NEW s, NEW o, Subscribed(p, R, s, o)
  PROVE  Subscribed(Tail(p), RulesAfter(R, Head(p)), s, o)
<1>. DEFINE m == Head(p)
            t == Tail(p)
            N == RulesAfter(R, m)
            end == Rule("RemoveMatch", s)
<1>1. /\ Len(p) \in Nat /\ Len(p) # 0 /\ DOMAIN p = 1 .. Len(p) /\ DOMAIN t = 1 .. Len(p) - 1
      /\ \A i \in 1 .. Len(p) - 1 : t[i] = p[i + 1]
      /\ m = p[1]
  OBVIOUS
<1>2. m \in Messages /\ \A x : Holds(p, x) <=> x = m \/ Holds(t, x)
  BY HoldsTail
<1>3. m.type = "RemoveMatch" => m = Rule("RemoveMatch", m.of)
  BY <1>2 DEF Messages, Rule
<1>4. s \in R /\ m # end => s \in N
  BY <1>3 DEF RulesAfter, end
<1>. HIDE DEF m, t, N, end
<1>5. ASSUME s \in R, ~Holds(p, end) PROVE Subscribed(t, N, s, o)
  BY <1>2, <1>4, <1>5 DEF Subscribed, end
<1>6. ASSUME NEW aa \in DOMAIN p, NEW gg \in DOMAIN p, RuleThenQuestion(p, s, o, aa, gg)
      PROVE  Subscribed(t, N, s, o)
  <2>1. PICK a, g \in 1 .. Len(p) : RuleThenQuestion(p, s, o, a, g)
    BY <1>1, <1>6
  <2>2. \A r \in 1 .. Len(p) : r > a => p[r] # end
    BY <1>1, <2>1 DEF RuleThenQuestion, end
  <2>3. CASE a = 1
    <3>1. m = Rule("AddMatch", s)
      BY <1>1, <2>1, <2>3 DEF RuleThenQuestion
    <3>2. s \in N
      BY <3>1 DEF N, RulesAfter, Rule
    <3>3. ~Holds(t, end)
      <4>1. \A i \in 1 .. Len(p) - 1 : i + 1 \in 1 .. Len(p) /\ i + 1 > a
        BY <1>1, <2>3
      <4>. QED BY <1>1, <2>2, <4>1 DEF Holds
    <3>. QED BY <3>2, <3>3 DEF Subscribed, end
  <2>4. CASE a # 1
    <3>. DEFINE b == a - 1
                h == g - 1
    <3>1. b \in 1 .. Len(p) - 1 /\ h \in 1 .. Len(p) - 1 /\ b < h /\ b + 1 = a /\ h + 1 = g
      BY <1>1, <2>1, <2>4 DEF RuleThenQuestion
    <3>2. t[b] = p[a] /\ t[h] = p[g]
      BY <1>1, <3>1
    <3>3. \A r \in 1 .. Len(p) - 1 : r > b => r + 1 \in 1 .. Len(p) /\ r + 1 > a
      BY <1>1, <3>1
    <3>4. \A r \in DOMAIN t : r > b => t[r] # end
      BY <1>1, <2>2, <3>3
    <3>. HIDE DEF b, h
    <3>5. RuleThenQuestion(t, s, o, b, h)
      BY <2>1, <3>1, <3>2, <3>4 DEF RuleThenQuestion, end
    <3>. QED BY <1>1, <3>1, <3>5 DEF Subscribed
  <2>. QED BY <2>3, <2>4
<1>7. Subscribed(t, N, s, o)
  BY <1>5, <1>6 DEF Subscribed, end
<1>. QED BY <1>7 DEF t, N, m

\* Whose rule is not in effect has its question on its way.
LEMMA NotYetRead ==
  ASSUME NEW p, NEW R, NEW s, NEW o, Subscribed(p, R, s, o), s \notin R, NEW c
  PROVE  Asked(p, c, o)
<1>1. PICK a, g \in DOMAIN p : RuleThenQuestion(p, s, o, a, g)
  BY DEF Subscribed
<1>2. IsGet(p[g], o) /\ Holds(p, p[g])
  BY <1>1 DEF RuleThenQuestion, Holds
<1>. QED BY <1>2 DEF Asked

\* Questions stay apart when another message is sent.
LEMMA OnceMore ==
  ASSUME NEW S, NEW p \in Seq(S), Once(p), NEW x, \A m : Holds(p, m) /\ m.type = "Get" /\ x.type = "Get" => m.of # x.of
  PROVE  Once(Append(p, x))
<1>. DEFINE q == Append(p, x)
<1>1. /\ DOMAIN q = 1 .. Len(p) + 1 /\ Len(p) \in Nat /\ DOMAIN p = 1 .. Len(p) /\ q[Len(p) + 1] = x
      /\ \A i \in 1 .. Len(p) : i \in 1 .. Len(p) + 1 /\ q[i] = p[i]
      /\ \A i \in 1 .. Len(p) + 1 : i = Len(p) + 1 \/ i \in 1 .. Len(p)
  BY AppendIs
<1>. HIDE DEF q
<1>2. ASSUME NEW i \in DOMAIN q, NEW j \in DOMAIN q, q[i].type = "Get", q[j].type = "Get", q[i].of = q[j].of
      PROVE  i = j
  <2>1. \A k \in 1 .. Len(p) : Holds(p, p[k])
    BY <1>1 DEF Holds
  <2>2. CASE i \in 1 .. Len(p) /\ j \in 1 .. Len(p)
    BY <1>1, <1>2, <2>2 DEF Once
  <2>3. CASE i = Len(p) + 1 /\ j \in 1 .. Len(p)
    <3>1. q[i] = x /\ q[j] = p[j] /\ Holds(p, p[j])
      BY <1>1, <2>1, <2>3
    <3>. QED BY <1>2, <3>1
  <2>4. CASE j = Len(p) + 1 /\ i \in 1 .. Len(p)
    <3>1. q[j] = x /\ q[i] = p[i] /\ Holds(p, p[i])
      BY <1>1, <2>1, <2>4
    <3>. QED BY <1>2, <3>1
  <2>. QED BY <1>1, <2>2, <2>3, <2>4
<1>3. Once(q)
  BY <1>2 DEF Once
<1>. QED BY <1>3 DEF q

\* They are when one is taken: what is behind it is about others.
LEMMA OnceLess ==
  ASSUME NEW S, NEW p \in Seq(S), p # <<>>, Once(p)
  PROVE  /\ Once(Tail(p))
         /\ \A m : Holds(Tail(p), m) /\ m.type = "Get" /\ Head(p).type = "Get" => m.of # Head(p).of
<1>. DEFINE m == Head(p)
            t == Tail(p)
<1>1. /\ Len(p) \in Nat /\ Len(p) # 0 /\ DOMAIN p = 1 .. Len(p) /\ DOMAIN t = 1 .. Len(p) - 1
      /\ \A i \in 1 .. Len(p) - 1 : t[i] = p[i + 1]
      /\ m = p[1]
  OBVIOUS
<1>. HIDE DEF m, t
<1>2. \A i \in 1 .. Len(p) - 1 : i + 1 \in 1 .. Len(p) /\ i + 1 # 1 /\ 1 \in 1 .. Len(p)
  BY <1>1
<1>3. Once(t)
  <2>. SUFFICES ASSUME NEW i \in DOMAIN t, NEW j \in DOMAIN t, t[i].type = "Get", t[j].type = "Get", t[i].of = t[j].of
                PROVE  i = j
    BY DEF Once
  <2>1. i + 1 = j + 1
    <3>1. i + 1 \in DOMAIN p /\ j + 1 \in DOMAIN p /\ t[i] = p[i + 1] /\ t[j] = p[j + 1]
      BY <1>1, <1>2
    <3>. QED BY <3>1 DEF Once
  <2>. QED BY <1>1, <2>1
<1>4. ASSUME NEW x, Holds(t, x), x.type = "Get", m.type = "Get" PROVE x.of # m.of
  <2>1. PICK i \in 1 .. Len(p) - 1 : t[i] = x
    BY <1>1, <1>4 DEF Holds
  <2>2. i + 1 \in DOMAIN p /\ 1 \in DOMAIN p /\ i + 1 # 1 /\ p[i + 1] = x /\ p[1] = m
    BY <1>1, <1>2, <2>1
  <2>. QED BY <1>4, <2>2 DEF Once
<1>. QED BY <1>3, <1>4 DEF m, t

\* The rule of the manager is among what is sent, with the list's question before it at most.
First(p) == \E a \in DOMAIN p : /\ p[a] = Rule("AddMatch", Manager)
                                /\ \A i \in DOMAIN p : i < a => p[i].type = "ListSeats"

\* It stays there whatever is sent after it.
LEMMA FirstStays ==
  ASSUME NEW p \in Seq(Messages), First(p), NEW x
  PROVE  First(Append(p, x))
<1>. DEFINE q == Append(p, x)
<1>1. /\ DOMAIN q = 1 .. Len(p) + 1 /\ Len(p) \in Nat /\ DOMAIN p = 1 .. Len(p)
      /\ \A i \in 1 .. Len(p) : i \in 1 .. Len(p) + 1 /\ q[i] = p[i]
      /\ \A i \in 1 .. Len(p) + 1 : i = Len(p) + 1 \/ i \in 1 .. Len(p)
  BY AppendIs
<1>. HIDE DEF q
<1>2. PICK a \in 1 .. Len(p) : /\ p[a] = Rule("AddMatch", Manager)
                               /\ \A i \in 1 .. Len(p) : i < a => p[i].type = "ListSeats"
  BY <1>1 DEF First
<1>3. a \in DOMAIN q /\ q[a] = p[a] /\ \A i \in DOMAIN q : i < a => i \in 1 .. Len(p) /\ q[i] = p[i]
  BY <1>1, <1>2
<1>4. First(q)
  BY <1>2, <1>3 DEF First
<1>. QED BY <1>4 DEF q

\* The bus reads it before anything else but the question.
LEMMA FirstRead ==
  ASSUME NEW p \in Seq(Messages), First(p)
  PROVE  /\ p # <<>>
         /\ \/ Head(p) = Rule("AddMatch", Manager)
            \/ Head(p).type = "ListSeats" /\ First(Tail(p))
<1>. DEFINE t == Tail(p)
            m == Head(p)
<1>1. PICK a \in DOMAIN p : /\ p[a] = Rule("AddMatch", Manager)
                            /\ \A i \in DOMAIN p : i < a => p[i].type = "ListSeats"
  BY DEF First
<1>2. p # <<>>
  BY <1>1
<1>3. /\ Len(p) \in Nat /\ Len(p) # 0 /\ DOMAIN p = 1 .. Len(p) /\ DOMAIN t = 1 .. Len(p) - 1
      /\ \A i \in 1 .. Len(p) - 1 : t[i] = p[i + 1]
      /\ m = p[1]
  BY <1>2
<1>. HIDE DEF t, m
<1>4. ASSUME a # 1 PROVE m.type = "ListSeats" /\ First(t)
  <2>. DEFINE b == a - 1
  <2>1. 1 \in DOMAIN p /\ 1 < a /\ b \in 1 .. Len(p) - 1 /\ b + 1 = a
    BY <1>1, <1>3, <1>4
  <2>2. m.type = "ListSeats"
    BY <1>1, <1>3, <2>1
  <2>3. \A i \in 1 .. Len(p) - 1 : i < b => i + 1 \in DOMAIN p /\ i + 1 < a
    BY <1>3, <2>1
  <2>4. \A i \in DOMAIN t : i < b => t[i].type = "ListSeats"
    BY <1>1, <1>3, <2>3
  <2>5. t[b] = p[a]
    BY <1>3, <2>1
  <2>. HIDE DEF b
  <2>. QED BY <1>1, <1>3, <2>1, <2>2, <2>4, <2>5 DEF First
<1>. QED BY <1>1, <1>2, <1>3, <1>4 DEF t, m

\* What is sent for a new object.
SentFor(p, W, s, k) == IF W = {} THEN Append(Append(p, Rule("AddMatch", s)), Asks(s, k)) ELSE Append(p, Asks(s, k))

\* What holds of what was sent holds with that; so it does of the new object.
LEMMA SentForIs ==
  ASSUME NEW p \in Seq(Messages), NEW W, NEW s \in Seats, NEW k \in Nat, NEW q, q = SentFor(p, W, s, k)
  PROVE  /\ q \in Seq(Messages) /\ q = p \o Subscribes(W, s) \o <<Asks(s, k)>>
         /\ \A m : Holds(p, m) => Holds(q, m)
         /\ Holds(q, Asks(s, k))
         /\ \A m : Holds(q, m) => Holds(p, m) \/ m = Asks(s, k) \/ m = Rule("AddMatch", s)
         /\ \A R, t, o : Subscribed(p, R, t, o) => Subscribed(q, R, t, o)
         /\ \A R, o : W = {} \/ Subscribed(p, R, s, o) => Subscribed(q, R, s, k)
         /\ Once(p) /\ (\A m : Holds(p, m) /\ m.type = "Get" => m.of # k) => Once(q)
         /\ First(p) => First(q)
<1>. DEFINE x == Asks(s, k)
            add == Rule("AddMatch", s)
            b == Append(p, add)
<1>1. x \in Messages /\ add \in Messages /\ x.type = "Get" /\ add.type = "AddMatch" /\ x.of = k
  BY DEF Asks, Rule, Messages
<1>2. \A t : x # Rule("RemoveMatch", t) /\ add # Rule("RemoveMatch", t)
  BY DEF Asks, Rule
<1>3. Subscribes(W, s) = IF W = {} THEN <<add>> ELSE <<>>
  BY DEF Subscribes, Rule
<1>4. q = IF W = {} THEN Append(b, x) ELSE Append(p, x)
  BY DEF SentFor
<1>5. \A R, o : Subscribed(p, R, s, o) => Subscribed(Append(p, x), R, s, k)
  BY SubscribedToo
<1>6. \A R : Subscribed(Append(b, x), R, s, k)
  BY SubscribedToo
<1>. HIDE DEF x, add
<1>7. /\ b \in Seq(Messages) /\ Append(b, x) \in Seq(Messages) /\ Append(p, x) \in Seq(Messages)
      /\ p \o <<add>> \o <<x>> = Append(b, x) /\ p \o <<>> \o <<x>> = Append(p, x)
  BY <1>1
<1>. HIDE DEF b
<1>8. /\ \A m : Holds(b, m) <=> Holds(p, m) \/ m = add
      /\ \A m : Holds(Append(b, x), m) <=> Holds(b, m) \/ m = x
      /\ \A m : Holds(Append(p, x), m) <=> Holds(p, m) \/ m = x
  BY <1>7, AppendIs DEF b
<1>9. q \in Seq(Messages) /\ q = p \o Subscribes(W, s) \o <<x>>
  BY <1>3, <1>4, <1>7
<1>10. /\ \A m : Holds(p, m) => Holds(q, m)
       /\ Holds(q, x)
       /\ \A m : Holds(q, m) => Holds(p, m) \/ m = x \/ m = add
  BY <1>4, <1>8
<1>11. ASSUME NEW R, NEW t, NEW o, Subscribed(p, R, t, o) PROVE Subscribed(q, R, t, o)
  <2>1. Subscribed(Append(p, x), R, t, o)
    BY <1>2, <1>11, SubscribedStays
  <2>2. Subscribed(b, R, t, o)
    BY <1>2, <1>11, SubscribedStays DEF b
  <2>3. Subscribed(Append(b, x), R, t, o)
    BY <1>2, <1>7, <2>2, SubscribedStays
  <2>. QED BY <1>4, <2>1, <2>3
<1>12. \A R, o : W = {} \/ Subscribed(p, R, s, o) => Subscribed(q, R, s, k)
  BY <1>4, <1>5, <1>6
<1>13. ASSUME Once(p), \A m : Holds(p, m) /\ m.type = "Get" => m.of # k PROVE Once(q)
  <2>1. Once(Append(p, x))
    BY <1>1, <1>13, OnceMore
  <2>2. Once(b)
    BY <1>1, <1>13, OnceMore DEF b
  <2>3. \A m : Holds(b, m) /\ m.type = "Get" => m.of # k
    BY <1>1, <1>8, <1>13
  <2>4. Once(Append(b, x))
    BY <1>1, <1>7, <2>2, <2>3, OnceMore
  <2>. QED BY <1>4, <2>1, <2>4
<1>14. ASSUME First(p) PROVE First(q)
  <2>1. First(Append(p, x)) /\ First(b)
    BY <1>14, FirstStays DEF b
  <2>2. First(Append(b, x))
    BY <1>7, <2>1, FirstStays
  <2>. QED BY <1>4, <2>1, <2>2
<1>. QED BY <1>9, <1>10, <1>11, <1>12, <1>13, <1>14 DEF x, add

\* What a new object of s, named k, makes of view v.
AddedTo(v, s, k, y) ==
  /\ y \in Views /\ k \in Nat /\ k # 0 /\ k \notin DOMAIN v.d.watched
  /\ DOMAIN y.d.watched = DOMAIN v.d.watched \cup {k}
  /\ \A o \in DOMAIN v.d.watched : y.d.watched[o] = v.d.watched[o]
  /\ ~y.d.watched[k].graphical
  /\ \A t \in Seats : y.d.systemSeats[t] = IF t = s THEN k ELSE v.d.systemSeats[t]
  /\ y.d.up = v.d.up
  /\ \A t : Watchers(y.d, t) = IF t = s THEN Watchers(v.d, t) \cup {k} ELSE Watchers(v.d, t)
  /\ y.out = SentFor(v.out, Watchers(v.d, s), s, k)

\* logindSeatAdded is that.
LEMMA AddedToIt ==
  ASSUME NEW v \in Views, NEW s \in Seats
  PROVE  AddedTo(v, s, Len(v.d.watched) + 1, LogindSeatAdded(v, s))
<1>. DEFINE y == LogindSeatAdded(v, s)
            w == v.d.watched
            k == Len(w) + 1
            d == v.d
            n == y.d
<1>1. /\ w \in Seq(Objects) /\ v.out \in Seq(Messages) /\ d.watched = w /\ d.systemSeats \in [Seats -> Nat]
  BY DEF Views
<1>2. /\ y \in Views /\ n.up = d.up /\ n.watched = Append(w, NewObject(s))
      /\ n.systemSeats = [d.systemSeats EXCEPT ![s] = k]
      /\ y.out = v.out \o Subscribes(Watchers(d, s), s) \o <<Asks(s, k)>>
  BY ViewAdded
<1>. HIDE DEF y, w, d, n
<1>3. /\ \A t : Watchers(n, t) = IF t = s THEN Watchers(d, t) \cup {k} ELSE Watchers(d, t)
      /\ Len(w) \in Nat /\ DOMAIN w = 1 .. Len(w) /\ DOMAIN n.watched = 1 .. k
      /\ n.watched[k] = NewObject(s)
      /\ \A o \in DOMAIN w : o \in DOMAIN n.watched /\ o # k /\ n.watched[o] = w[o]
  <2>1. n.watched = Append(w, NewObject(s)) /\ d.watched = w /\ w \in Seq(Objects)
    BY <1>1, <1>2
  <2>2. \A t : Watchers(n, t) = IF t = s THEN Watchers(d, t) \cup {Len(w) + 1} ELSE Watchers(d, t)
    BY <2>1, MoreWatchers
  <2>3. /\ Len(w) \in Nat /\ DOMAIN w = 1 .. Len(w) /\ DOMAIN n.watched = 1 .. Len(w) + 1
        /\ n.watched[Len(w) + 1] = NewObject(s)
        /\ \A o \in DOMAIN w : o \in DOMAIN n.watched /\ o # Len(w) + 1 /\ n.watched[o] = w[o]
    BY <2>1, MoreWatchers
  <2>. QED BY <2>2, <2>3
<1>4. k \in Nat /\ k # 0 /\ k \notin DOMAIN w /\ DOMAIN n.watched = DOMAIN w \cup {k}
  BY <1>3
<1>5. ~NewObject(s).graphical
  BY DEF NewObject
<1>. HIDE DEF k
<1>6. \A t \in Seats : n.systemSeats[t] = IF t = s THEN k ELSE d.systemSeats[t]
  BY <1>1, <1>2
<1>7. y.out = SentFor(v.out, Watchers(d, s), s, k)
  <2>. DEFINE p == v.out
              W == Watchers(d, s)
              q == SentFor(p, W, s, k)
  <2>1. p \in Seq(Messages) /\ k \in Nat /\ y.out = p \o Subscribes(W, s) \o <<Asks(s, k)>>
    BY <1>1, <1>2, <1>4
  <2>. HIDE DEF p, W
  <2>2. q = p \o Subscribes(W, s) \o <<Asks(s, k)>>
    BY <2>1, SentForIs
  <2>. QED BY <2>1, <2>2 DEF p, W
<1>8. AddedTo(v, s, k, y)
  BY <1>2, <1>3, <1>4, <1>5, <1>6, <1>7 DEF AddedTo, w, d, n
<1>. QED BY <1>8 DEF y, k, w

-----------------------------------------------------------------------------
(* What is true of v, what the daemon comes to once its queue is handled,   *)
(* given logind's seats w.                                                  *)

\* Where a Seat runs and logind's seat is not graphical, or the other way
\* round, the answer to a question on its way will tell.
Mended(v, w, c, s) ==
  w[s].present /\ v.d.systemSeats[s] # 0 /\ ~(v.d.up[s] <=> w[s].graphical) =>
    \E o \in Watchers(v.d, s) : Asked(v.out, c, o) /\ ~(v.d.watched[o].graphical <=> w[s].graphical)

\* While the rule of a seat is out of effect, or about to be, one of its objects
\* takes it for what runs.
Witnessed(v, R, s) ==
  v.d.systemSeats[s] # 0 /\ (s \notin R \/ Holds(v.out, Rule("RemoveMatch", s))) =>
    \E o \in Watchers(v.d, s) : v.d.watched[o].graphical <=> v.d.up[s]

\* Nothing runs of a seat that is not tracked or not there.
Untracked(v, w, s) ==
  /\ v.d.systemSeats[s] = 0 => ~v.d.up[s]
  /\ v.d.systemSeats[s] = 0 /\ Watchers(v.d, s) # {} => ~w[s].present
  /\ ~w[s].present => ~v.d.up[s]

\* Every object of a seat will be told of its changes.
Telling(v, R, s) == \A o \in Watchers(v.d, s) : Subscribed(v.out, R, s, o)

\* A seat that runs is graphical, unless a change was missed.
NotLate(v, w, missed, s) == v.d.up[s] /\ ~Lost(v, s) /\ s \notin missed => w[s].graphical

\* A view fits what logind's seat s is.
SeatFits(v, w, R, c, missed, s) ==
  Mended(v, w, c, s) /\ Witnessed(v, R, s) /\ Untracked(v, w, s) /\ Telling(v, R, s) /\ NotLate(v, w, missed, s)

\* Before the bus knows the manager's rule no more than the list was asked for.
Early(v, R, c) ==
  Manager \notin R =>
    /\ R = {} /\ First(v.out) /\ \A m : Holds(c, m) => m.type = "ListSeats"
    /\ \A o \in DOMAIN v.d.watched : ~v.d.watched[o].graphical
    /\ \A s \in Seats : ~v.d.up[s] /\ (v.d.systemSeats[s] = 0 => Watchers(v.d, s) = {})

\* A view fits logind's seats w.
Fits(v, w, R, c, missed) ==
  /\ AskedOnce(v.out, c) /\ Early(v, R, c)
  /\ \A s \in Seats : SeatFits(v, w, R, c, missed, s)

\* Two views are alike for a seat that no step is about.
Alike(v, y, t) ==
  /\ y.d.systemSeats[t] = v.d.systemSeats[t] /\ y.d.up[t] = v.d.up[t]
  /\ Watchers(y.d, t) = Watchers(v.d, t)
  /\ \A o \in Watchers(v.d, t) : y.d.watched[o].graphical = v.d.watched[o].graphical

\* A seat that a step is not about fits on.
LEMMA SeatAside ==
  ASSUME NEW v, NEW y, NEW w, NEW u, NEW R, NEW N, NEW c, NEW k, NEW missed, NEW more, NEW t,
         SeatFits(v, w, R, c, missed, t), Alike(v, y, t), u[t] = w[t], t \in missed => t \in more,
         t \notin N \/ Holds(y.out, Rule("RemoveMatch", t)) => t \notin R \/ Holds(v.out, Rule("RemoveMatch", t)),
         \A o \in Watchers(v.d, t) : Asked(v.out, c, o) => Asked(y.out, k, o),
         \A o \in Watchers(v.d, t) : Subscribed(v.out, R, t, o) => Subscribed(y.out, N, t, o)
  PROVE  SeatFits(y, u, N, k, more, t)
<1>1. Mended(y, u, k, t)
  BY DEF SeatFits, Mended, Alike
<1>2. Witnessed(y, N, t)
  BY DEF SeatFits, Witnessed, Alike
<1>3. Untracked(y, u, t)
  BY DEF SeatFits, Untracked, Alike
<1>4. Telling(y, N, t)
  BY DEF SeatFits, Telling, Alike
<1>5. NotLate(y, u, more, t)
  BY DEF SeatFits, NotLate, Alike, Lost
<1>. QED BY <1>1, <1>2, <1>3, <1>4, <1>5 DEF SeatFits

\* A new object of a seat that is there: should it run already, it fits already.
LEMMA AddedFits ==
  ASSUME NEW v, Tracks(v), NEW s \in Seats, NEW k, NEW y, AddedTo(v, s, k, y),
         NEW w, NEW R, NEW c, NEW missed, w[s].present, Telling(v, R, s),
         v.d.up[s] => SeatFits(v, w, R, c, missed, s)
  PROVE  /\ SeatFits(y, w, R, c, missed, s)
         /\ \A t \in Seats : t # s /\ SeatFits(v, w, R, c, missed, t) => SeatFits(y, w, R, c, missed, t)
<1>. DEFINE W == Watchers(v.d, s)
            end == Rule("RemoveMatch", s)
<1>1. /\ v \in Views /\ v.out \in Seq(Messages) /\ v.d.up \in [Seats -> BOOLEAN]
      /\ \A t : Watchers(v.d, t) \subseteq DOMAIN v.d.watched
  BY DEF Tracks, Views, Watchers
<1>2. /\ k \in Nat /\ k # 0 /\ k \notin DOMAIN v.d.watched
      /\ \A o \in DOMAIN v.d.watched : y.d.watched[o] = v.d.watched[o]
      /\ ~y.d.watched[k].graphical
      /\ \A t \in Seats : y.d.systemSeats[t] = IF t = s THEN k ELSE v.d.systemSeats[t]
      /\ y.d.up = v.d.up
      /\ \A t : Watchers(y.d, t) = IF t = s THEN Watchers(v.d, t) \cup {k} ELSE Watchers(v.d, t)
      /\ y.out = SentFor(v.out, W, s, k)
  BY DEF AddedTo
<1>3. /\ \A m : Holds(v.out, m) => Holds(y.out, m)
      /\ Holds(y.out, Asks(s, k))
      /\ \A m : Holds(y.out, m) => Holds(v.out, m) \/ m = Asks(s, k) \/ m = Rule("AddMatch", s)
      /\ \A t, o : Subscribed(v.out, R, t, o) => Subscribed(y.out, R, t, o)
      /\ \A o : W = {} \/ Subscribed(v.out, R, s, o) => Subscribed(y.out, R, s, k)
  <2>. DEFINE p == v.out
              q == y.out
  <2>1. p \in Seq(Messages) /\ q = SentFor(p, W, s, k)
    BY <1>1, <1>2
  <2>. HIDE DEF p, q, W
  <2>2. (\A m : Holds(p, m) => Holds(q, m)) /\ Holds(q, Asks(s, k))
    BY <1>2, <2>1, SentForIs
  <2>4. ASSUME NEW m, Holds(q, m) PROVE Holds(p, m) \/ m = Asks(s, k) \/ m = Rule("AddMatch", s)
    <3>1. k \in Nat
      BY <1>2
    <3>. QED BY <2>1, <2>4, <3>1, SentForIs
  <2>3. /\ \A t, o : Subscribed(p, R, t, o) => Subscribed(q, R, t, o)
        /\ \A o : W = {} \/ Subscribed(p, R, s, o) => Subscribed(q, R, s, k)
    BY <1>2, <2>1, SentForIs
  <2>. QED BY <2>2, <2>3, <2>4 DEF p, q
<1>4. /\ \A o : Asked(v.out, c, o) => Asked(y.out, c, o)
      /\ Asked(y.out, c, k)
      /\ \A t : Holds(y.out, Rule("RemoveMatch", t)) => Holds(v.out, Rule("RemoveMatch", t))
  <2>1. IsGet(Asks(s, k), k)
    BY DEF Asks, IsGet
  <2>2. \A t : Rule("RemoveMatch", t) # Asks(s, k) /\ Rule("RemoveMatch", t) # Rule("AddMatch", s)
    BY DEF Asks, Rule
  <2>. QED BY <1>3, <2>1, <2>2 DEF Asked
<1>5. W \subseteq Watchers(y.d, s) /\ k \in Watchers(y.d, s) /\ k \notin W
      /\ \A o \in W : y.d.watched[o] = v.d.watched[o] /\ o # k
  BY <1>1, <1>2
<1>6. ASSUME v.d.up[s] PROVE SeatFits(v, w, R, c, missed, s) /\ v.d.systemSeats[s] # 0
  BY <1>6 DEF SeatFits, Untracked
<1>. HIDE DEF W
<1>7. Mended(y, w, c, s)
  <2>. SUFFICES ASSUME ~(v.d.up[s] <=> w[s].graphical)
                PROVE  \E o \in Watchers(y.d, s) : Asked(y.out, c, o) /\ ~(y.d.watched[o].graphical <=> w[s].graphical)
    BY <1>2 DEF Mended
  <2>1. CASE v.d.up[s]
    <3>1. PICK o \in W : Asked(v.out, c, o) /\ ~(v.d.watched[o].graphical <=> w[s].graphical)
      BY <1>6, <2>1 DEF SeatFits, Mended, W
    <3>. QED BY <1>4, <1>5, <3>1
  <2>2. CASE ~v.d.up[s]
    BY <1>2, <1>4, <1>5, <2>2
  <2>. QED BY <2>1, <2>2
<1>8. Witnessed(y, R, s)
  <2>. SUFFICES ASSUME s \notin R \/ Holds(y.out, end)
                PROVE  \E o \in Watchers(y.d, s) : y.d.watched[o].graphical <=> v.d.up[s]
    BY <1>2 DEF Witnessed
  <2>1. CASE v.d.up[s]
    <3>1. PICK o \in W : v.d.watched[o].graphical <=> v.d.up[s]
      BY <1>4, <1>6, <2>1 DEF SeatFits, Witnessed, W
    <3>. QED BY <1>5, <3>1
  <2>2. CASE ~v.d.up[s]
    BY <1>2, <1>5, <2>2
  <2>. QED BY <2>1, <2>2
<1>9. Untracked(y, w, s)
  BY <1>2 DEF Untracked
<1>10. Telling(y, R, s)
  <2>. SUFFICES ASSUME NEW o \in Watchers(y.d, s) PROVE Subscribed(y.out, R, s, o)
    BY DEF Telling
  <2>1. CASE o \in W
    BY <1>3, <2>1 DEF Telling, W
  <2>2. CASE o = k
    <3>1. \A i \in W : Subscribed(v.out, R, s, i)
      BY DEF Telling, W
    <3>. QED BY <1>3, <2>2, <3>1
  <2>. QED BY <1>2, <2>1, <2>2 DEF W
<1>11. NotLate(y, w, missed, s)
  <2>. SUFFICES ASSUME v.d.up[s], ~Lost(y, s), s \notin missed PROVE w[s].graphical
    BY <1>2 DEF NotLate
  <2>1. Lost(v, s) => Lost(y, s)
    BY <1>2, <1>5 DEF Lost, W
  <2>. QED BY <1>6, <2>1 DEF SeatFits, NotLate
<1>12. SeatFits(y, w, R, c, missed, s)
  BY <1>7, <1>8, <1>9, <1>10, <1>11 DEF SeatFits
<1>13. ASSUME NEW t \in Seats, t # s, SeatFits(v, w, R, c, missed, t) PROVE SeatFits(y, w, R, c, missed, t)
  <2>1. Alike(v, y, t)
    BY <1>1, <1>2, <1>13 DEF Alike
  <2>. QED BY <1>3, <1>4, <1>13, <2>1, SeatAside
<1>. QED BY <1>12, <1>13

\* The rest of what a new object leaves: no question twice, and all is early yet.
LEMMA AddedRest ==
  ASSUME NEW v, Tracks(v), Knows(v), NEW s \in Seats, NEW k, NEW y, AddedTo(v, s, k, y),
         NEW R, NEW c, \A m : Holds(c, m) => Known(v.d.watched, m)
  PROVE  /\ AskedOnce(v.out, c) => AskedOnce(y.out, c)
         /\ Early(v, R, c) => Early(y, R, c)
         /\ \A o \in DOMAIN v.d.watched : Asked(y.out, c, o) => Asked(v.out, c, o)
<1>. DEFINE W == Watchers(v.d, s)
            p == v.out
            q == y.out
            x == Asks(s, k)
            add == Rule("AddMatch", s)
<1>1. v.out \in Seq(Messages)
  BY DEF Tracks, Views
<1>2. /\ k \in Nat /\ k # 0 /\ k \notin DOMAIN v.d.watched
      /\ DOMAIN y.d.watched = DOMAIN v.d.watched \cup {k}
      /\ \A o \in DOMAIN v.d.watched : y.d.watched[o] = v.d.watched[o]
      /\ ~y.d.watched[k].graphical
      /\ \A t \in Seats : y.d.systemSeats[t] = IF t = s THEN k ELSE v.d.systemSeats[t]
      /\ y.d.up = v.d.up
      /\ \A t : Watchers(y.d, t) = IF t = s THEN Watchers(v.d, t) \cup {k} ELSE Watchers(v.d, t)
      /\ y.out = SentFor(v.out, W, s, k)
  BY DEF AddedTo
<1>3. x.type = "Get" /\ x.of = k /\ add.type = "AddMatch"
  BY DEF Asks, Rule
<1>4. p \in Seq(Messages) /\ q = SentFor(p, W, s, k) /\ k \in Nat
  BY <1>1, <1>2
<1>5. \A m : Holds(p, m) /\ m.type = "Get" => m.of # k
  BY <1>2 DEF Knows, Known
<1>6. \A m : Holds(c, m) /\ m.type = "Get" => m.of # k
  BY <1>2 DEF Known
<1>. HIDE DEF p, q, W
<1>7. ASSUME NEW m, Holds(q, m) PROVE Holds(p, m) \/ m = x \/ m = add
  BY <1>4, <1>7, SentForIs
<1>8. Once(p) => Once(q)
  BY <1>4, <1>5, SentForIs
<1>9. First(p) => First(q)
  BY <1>4, SentForIs
<1>. HIDE DEF x, add
<1>10. AskedOnce(p, c) => AskedOnce(q, c)
  BY <1>3, <1>6, <1>7, <1>8 DEF AskedOnce, Apart
<1>11. ASSUME NEW o \in DOMAIN v.d.watched, Asked(q, c, o) PROVE Asked(p, c, o)
  <2>1. o # k
    BY <1>2
  <2>. QED BY <1>3, <1>7, <1>11, <2>1 DEF Asked, IsGet
<1>12. Early(v, R, c) => Early(y, R, c)
  <2>. SUFFICES ASSUME Early(v, R, c), Manager \notin R PROVE Early(y, R, c)
    BY DEF Early
  <2>1. First(y.out)
    BY <1>9 DEF Early, p, q
  <2>2. \A o \in DOMAIN y.d.watched : ~y.d.watched[o].graphical
    BY <1>2 DEF Early
  <2>3. \A t \in Seats : ~y.d.up[t] /\ (y.d.systemSeats[t] = 0 => Watchers(y.d, t) = {})
    BY <1>2 DEF Early
  <2>. QED BY <2>1, <2>2, <2>3 DEF Early
<1>. QED BY <1>10, <1>11, <1>12 DEF p, q

\* What is known of a view along with that.
Basis(v, c) == Tracks(v) /\ Knows(v) /\ InStep(v) /\ \A m : Holds(c, m) => Known(v.d.watched, m)

\* It stays so while objects come and states change.
LEMMA BasisGrows ==
  ASSUME NEW v, NEW y, NEW c, Basis(v, c), Grows(v, y)
  PROVE  Basis(y, c)
BY KnownOfMore DEF Basis, Grows

\* The seats of a list, all there, once more.
LEMMA ListFits ==
  ASSUME NEW v, NEW c, Basis(v, c), NEW w, NEW R, NEW missed, Fits(v, w, R, c, missed),
         NEW l \in Seq({s \in Seats : w[s].present})
  PROVE  Fits(SeatsAdded(v, l), w, R, c, missed)
<1>. DEFINE S == {y \in Views : Basis(y, c) /\ Fits(y, w, R, c, missed)}
            T == {s \in Seats : w[s].present}
<1>1. v \in S
  BY DEF Basis, Tracks
<1>2. AddsWithin(S, T)
  <2>. SUFFICES ASSUME NEW x \in S, NEW s \in T PROVE LogindSeatAdded(x, s) \in S
    BY DEF AddsWithin
  <2>. DEFINE y == LogindSeatAdded(x, s)
              k == Len(x.d.watched) + 1
  <2>1. x \in Views /\ Basis(x, c) /\ Fits(x, w, R, c, missed) /\ s \in Seats /\ w[s].present
    OBVIOUS
  <2>2. AddedTo(x, s, k, y)
    BY <2>1, AddedToIt
  <2>3. Grows(x, y)
    BY <2>1, AddedGrows DEF Basis
  <2>. HIDE DEF y, k, S, T
  <2>4. Basis(y, c) /\ y \in Views
    BY <2>1, <2>3, BasisGrows DEF Basis, Tracks
  <2>5. SeatFits(x, w, R, c, missed, s)
    BY <2>1 DEF Fits
  <2>6. Telling(x, R, s) /\ Tracks(x) /\ Knows(x) /\ \A m : Holds(c, m) => Known(x.d.watched, m)
    BY <2>1, <2>5 DEF SeatFits, Basis
  <2>7. /\ SeatFits(y, w, R, c, missed, s)
        /\ \A t \in Seats : t # s /\ SeatFits(x, w, R, c, missed, t) => SeatFits(y, w, R, c, missed, t)
    BY <2>1, <2>2, <2>5, <2>6, AddedFits
  <2>8. AskedOnce(y.out, c) /\ Early(y, R, c)
    BY <2>1, <2>2, <2>6, AddedRest DEF Fits
  <2>9. Fits(y, w, R, c, missed)
    BY <2>1, <2>7, <2>8 DEF Fits
  <2>. QED BY <2>4, <2>9 DEF S, y
<1>. HIDE DEF S
<1>3. SeatsAdded(v, l) \in S
  BY <1>1, <1>2, AddingStays
<1>. QED BY <1>3 DEF S

\* A view as it is, with other rules, questions or seats of logind that are no
\* different for it.
LEMMA FitsAsWell ==
  ASSUME NEW v, NEW w, NEW R, NEW c, NEW k, NEW missed, Fits(v, w, R, c, missed),
         \A o : Asked(v.out, c, o) => Asked(v.out, k, o),
         AskedOnce(v.out, k), \A m : Holds(k, m) => Holds(c, m)
  PROVE  Fits(v, w, R, k, missed)
<1>1. \A t \in Seats : Alike(v, v, t)
  BY DEF Alike
<1>2. \A t \in Seats : SeatFits(v, w, R, k, missed, t)
  BY <1>1, SeatAside DEF Fits
<1>3. Early(v, R, k)
  BY DEF Fits, Early
<1>. QED BY <1>2, <1>3 DEF Fits

\* A question that is answered is not asked any more; the others are.
LEMMA OneAnswered ==
  ASSUME NEW p, NEW c \in Seq(Requests), c # <<>>, AskedOnce(p, c)
  PROVE  /\ AskedOnce(p, Tail(c))
         /\ \A m : Holds(Tail(c), m) => Holds(c, m)
         /\ \A o : Asked(p, c, o) /\ ~IsGet(Head(c), o) => Asked(p, Tail(c), o)
         /\ \A o : IsGet(Head(c), o) => ~Asked(p, Tail(c), o)
<1>. DEFINE m == Head(c)
            k == Tail(c)
<1>1. \A x : Holds(c, x) <=> x = m \/ Holds(k, x)
  BY HoldsTail
<1>2. /\ Once(p) /\ Once(k) /\ Apart(p, c)
      /\ \A x : Holds(k, x) /\ x.type = "Get" /\ m.type = "Get" => x.of # m.of
  BY OnceLess DEF AskedOnce
<1>. HIDE DEF m, k
<1>3. AskedOnce(p, k)
  BY <1>1, <1>2 DEF AskedOnce, Apart
<1>4. \A o : Asked(p, c, o) /\ ~IsGet(m, o) => Asked(p, k, o)
  BY <1>1 DEF Asked
<1>5. \A o : IsGet(m, o) => ~Asked(p, k, o)
  BY <1>1, <1>2 DEF Asked, IsGet, Apart
<1>. QED BY <1>1, <1>3, <1>4, <1>5 DEF m, k

\* The message that a seat's removal sends.
SentForLoss(p, o, W, s) == IF o # 0 /\ W = {} THEN Append(p, Rule("RemoveMatch", s)) ELSE p

\* It ends the telling of no other seat.
LEMMA SentForLossIs ==
  ASSUME NEW p \in Seq(Messages), NEW o, NEW W, NEW s \in Seats, NEW q, q = SentForLoss(p, o, W, s)
  PROVE  /\ q = p \o Unsubscribes(o, W, s)
         /\ W # {} => q = p
         /\ \A m : Holds(p, m) => Holds(q, m)
         /\ \A m : Holds(q, m) => Holds(p, m) \/ m = Rule("RemoveMatch", s)
         /\ \A R, t, i : t # s /\ Subscribed(p, R, t, i) => Subscribed(q, R, t, i)
         /\ Once(p) => Once(q)
<1>. DEFINE end == Rule("RemoveMatch", s)
            b == Append(p, end)
<1>1. end \in Messages /\ end.type = "RemoveMatch" /\ \A t : t # s => end # Rule("RemoveMatch", t)
  BY DEF Rule, Messages
<1>2. Unsubscribes(o, W, s) = IF o # 0 /\ W = {} THEN <<end>> ELSE <<>>
  BY DEF Unsubscribes, Rule
<1>3. q = IF o # 0 /\ W = {} THEN b ELSE p
  BY DEF SentForLoss
<1>. HIDE DEF end
<1>4. p \o <<end>> = b /\ p \o <<>> = p
  BY <1>1
<1>5. \A m : Holds(b, m) <=> Holds(p, m) \/ m = end
  BY AppendIs
<1>6. \A R, t, i : t # s /\ Subscribed(p, R, t, i) => Subscribed(b, R, t, i)
  BY <1>1, SubscribedStays
<1>7. Once(p) => Once(b)
  BY <1>1, OnceMore
<1>. HIDE DEF b
<1>8. q = p \o Unsubscribes(o, W, s)
  BY <1>2, <1>3, <1>4
<1>. QED BY <1>3, <1>5, <1>6, <1>7, <1>8 DEF end

\* A seat that goes, and the daemon is told.
LEMMA GoneFits ==
  ASSUME NEW v, Tracks(v), NEW s \in Seats, NEW w, NEW u, NEW R, NEW c, NEW missed, Fits(v, w, R, c, missed),
         Manager \in R, ~u[s].present, \A t \in Seats : t # s => u[t] = w[t]
  PROVE  Fits(Gone(v, s), u, R, c, missed)
<1>. DEFINE y == Gone(v, s)
            p == v.out
            q == y.out
            W == Watchers(y.d, s)
            i == v.d.systemSeats[s]
<1>1. p \in Seq(Messages) /\ v.d.systemSeats \in [Seats -> Nat]
  BY DEF Tracks, Views
<1>2. /\ y.out = v.out \o Unsubscribes(v.d.systemSeats[s], Watchers(y.d, s), s)
      /\ \A t \in Seats : y.d.systemSeats[t] = IF t = s THEN 0 ELSE v.d.systemSeats[t]
  <2>1. y.out = v.out \o Unsubscribes(v.d.systemSeats[s], Watchers(y.d, s), s)
    BY ViewGone
  <2>2. \A t \in Seats : y.d.systemSeats[t] = IF t = s THEN 0 ELSE v.d.systemSeats[t]
    BY ViewGone
  <2>. QED BY <2>1, <2>2
<1>14. /\ DOMAIN y.d.watched = DOMAIN v.d.watched
       /\ \A o \in DOMAIN v.d.watched : /\ y.d.watched[o].seat = v.d.watched[o].seat
                                         /\ y.d.watched[o].graphical = v.d.watched[o].graphical
  BY ViewGone
<1>3. /\ \A t \in Seats : y.d.up[t] = IF t = s THEN FALSE ELSE v.d.up[t]
      /\ \A t : Watchers(y.d, t) = IF t = s THEN Watchers(v.d, t) \ {v.d.systemSeats[s]}
                                            ELSE Watchers(v.d, t)
  BY ViewGone
<1>. HIDE DEF y
<1>4. q = p \o Unsubscribes(i, W, s)
  BY <1>2
<1>. HIDE DEF p, q, W, i
<1>5. q = SentForLoss(p, i, W, s)
  BY <1>1, <1>4, SentForLossIs
<1>6. (W # {} => q = p) /\ \A m : Holds(p, m) => Holds(q, m)
  BY <1>1, <1>5, SentForLossIs
<1>7. ASSUME NEW m, Holds(q, m) PROVE Holds(p, m) \/ m = Rule("RemoveMatch", s)
  BY <1>1, <1>5, <1>7, SentForLossIs
<1>8. \A t, o : t # s /\ Subscribed(p, R, t, o) => Subscribed(q, R, t, o)
  BY <1>1, <1>5, SentForLossIs
<1>9. Once(p) => Once(q)
  BY <1>1, <1>5, SentForLossIs
<1>10. AskedOnce(q, c)
  <2>1. AskedOnce(p, c)
    BY DEF Fits, p
  <2>2. Rule("RemoveMatch", s).type # "Get"
    BY DEF Rule
  <2>. QED BY <1>7, <1>9, <2>1, <2>2 DEF AskedOnce, Apart
<1>11. SeatFits(y, u, R, c, missed, s)
  <2>1. SeatFits(v, w, R, c, missed, s)
    BY DEF Fits
  <2>2. Mended(y, u, c, s) /\ Witnessed(y, R, s) /\ Untracked(y, u, s) /\ NotLate(y, u, missed, s)
    BY <1>2, <1>3 DEF Mended, Witnessed, Untracked, NotLate
  <2>3. Telling(y, R, s)
    <3>. SUFFICES ASSUME NEW o \in W PROVE Subscribed(q, R, s, o)
      BY DEF Telling, W, q
    <3>1. q = p /\ o \in Watchers(v.d, s)
      BY <1>3, <1>6 DEF W
    <3>. QED BY <2>1, <3>1 DEF SeatFits, Telling, p
  <2>. QED BY <2>2, <2>3 DEF SeatFits
<1>12. ASSUME NEW t \in Seats, t # s PROVE SeatFits(y, u, R, c, missed, t)
  <2>1. SeatFits(v, w, R, c, missed, t)
    BY DEF Fits
  <2>2. Alike(v, y, t)
    <3>1. Watchers(v.d, t) \subseteq DOMAIN v.d.watched
      BY DEF Watchers
    <3>. QED BY <1>2, <1>3, <1>12, <1>14, <3>1 DEF Alike
  <2>3. \A o : Asked(v.out, c, o) => Asked(y.out, c, o)
    BY <1>6 DEF Asked, p, q
  <2>4. Holds(y.out, Rule("RemoveMatch", t)) => Holds(v.out, Rule("RemoveMatch", t))
    <3>1. Rule("RemoveMatch", t) # Rule("RemoveMatch", s)
      BY <1>12 DEF Rule
    <3>. QED BY <1>7, <3>1 DEF p, q
  <2>5. \A o : Subscribed(v.out, R, t, o) => Subscribed(y.out, R, t, o)
    BY <1>8, <1>12 DEF p, q
  <2>. QED BY <1>12, <2>1, <2>2, <2>3, <2>4, <2>5, SeatAside
<1>13. Early(y, R, c)
  BY DEF Early
<1>15. Fits(y, u, R, c, missed)
  BY <1>10, <1>11, <1>12, <1>13 DEF Fits, q
<1>. QED BY <1>15 DEF y

\* A seat whose state changes, and the daemon is told.
LEMMA ChangedFits ==
  ASSUME NEW v, Tracks(v), NEW s \in Seats, NEW g \in BOOLEAN, NEW w, NEW u, NEW R, NEW c, NEW missed,
         Fits(v, w, R, c, missed), s \in R, w[s].present,
         u[s].present, u[s].graphical <=> g, \A t \in Seats : t # s => u[t] = w[t]
  PROVE  Fits(Changed(v, s, g), u, R, c, missed)
<1>. DEFINE y == Changed(v, s, g)
            W == Watchers(v.d, s)
<1>1. ChangedTo(v, s, g, y)
  BY ViewChanged DEF Tracks
<1>. HIDE DEF y
<1>2. /\ y.d.systemSeats = v.d.systemSeats /\ y.out = v.out
      /\ DOMAIN y.d.watched = DOMAIN v.d.watched
      /\ \A t : Watchers(y.d, t) = Watchers(v.d, t)
  BY <1>1 DEF ChangedTo
<1>3. \A i \in DOMAIN v.d.watched :
        y.d.watched[i].graphical = IF i \in W THEN g ELSE v.d.watched[i].graphical
  BY <1>1 DEF ChangedTo
<1>4. \A t \in Seats : y.d.up[t] = IF t = s /\ W # {} THEN g ELSE v.d.up[t]
  BY <1>1 DEF ChangedTo
<1>5. /\ \A t \in Seats : v.d.systemSeats[t] = 0 \/ v.d.systemSeats[t] \in Watchers(v.d, t)
      /\ \A t : Watchers(v.d, t) \subseteq DOMAIN v.d.watched
  BY DEF Tracks, Watchers
<1>6. SeatFits(v, w, R, c, missed, s)
  BY DEF Fits
<1>7. v.d.systemSeats[s] = 0 => W = {} /\ ~v.d.up[s]
  BY <1>6 DEF SeatFits, Untracked
<1>8. v.d.systemSeats[s] # 0 => v.d.systemSeats[s] \in W /\ W # {}
  BY <1>5
<1>9. SeatFits(y, u, R, c, missed, s)
  <2>1. Mended(y, u, c, s)
    BY <1>2, <1>4, <1>8 DEF Mended
  <2>2. Witnessed(y, R, s)
    <3>1. v.d.systemSeats[s] # 0 => \E o \in Watchers(y.d, s) : y.d.watched[o].graphical = g /\ y.d.up[s] = g
      BY <1>2, <1>3, <1>4, <1>5, <1>8
    <3>. QED BY <1>2, <3>1 DEF Witnessed
  <2>3. Untracked(y, u, s)
    BY <1>2, <1>4, <1>7 DEF Untracked
  <2>4. Telling(y, R, s)
    BY <1>2, <1>6 DEF Telling, SeatFits
  <2>5. NotLate(y, u, missed, s)
    BY <1>4, <1>7, <1>8 DEF NotLate
  <2>. QED BY <2>1, <2>2, <2>3, <2>4, <2>5 DEF SeatFits
<1>10. ASSUME NEW t \in Seats, t # s PROVE SeatFits(y, u, R, c, missed, t)
  <2>1. SeatFits(v, w, R, c, missed, t)
    BY DEF Fits
  <2>2. \A o \in Watchers(v.d, t) : o \notin W
    BY <1>10 DEF Watchers
  <2>3. Alike(v, y, t)
    BY <1>2, <1>3, <1>4, <1>5, <1>10, <2>2 DEF Alike
  <2>. QED BY <1>2, <1>10, <2>1, <2>3, SeatAside
<1>11. Early(y, R, c)
  <2>1. Manager \notin R => R = {}
    BY DEF Fits, Early
  <2>. QED BY <2>1 DEF Early
<1>12. Fits(y, u, R, c, missed)
  BY <1>2, <1>9, <1>10, <1>11 DEF Fits
<1>. QED BY <1>12 DEF y

\* A seat that comes, and the daemon is told.
LEMMA NewFits ==
  ASSUME NEW v, NEW c, Basis(v, c), NEW s \in Seats, NEW w, NEW u, NEW R, NEW missed,
         Fits(v, w, R, c, missed), Manager \in R, ~w[s].present, u[s].present,
         \A t \in Seats : t # s => u[t] = w[t]
  PROVE  Fits(LogindSeatAdded(v, s), u, R, c, missed)
<1>. DEFINE y == LogindSeatAdded(v, s)
            k == Len(v.d.watched) + 1
<1>1. AddedTo(v, s, k, y)
  BY AddedToIt DEF Basis, Tracks
<1>. HIDE DEF y, k
<1>2. Tracks(v) /\ Knows(v) /\ \A m : Holds(c, m) => Known(v.d.watched, m)
  BY DEF Basis
<1>3. SeatFits(v, w, R, c, missed, s)
  BY DEF Fits
<1>4. ~v.d.up[s] /\ Telling(v, R, s)
  BY <1>3 DEF SeatFits, Untracked
<1>5. /\ SeatFits(y, u, R, c, missed, s)
      /\ \A t \in Seats : t # s /\ SeatFits(v, u, R, c, missed, t) => SeatFits(y, u, R, c, missed, t)
  BY <1>1, <1>2, <1>4, AddedFits
<1>6. ASSUME NEW t \in Seats, t # s PROVE SeatFits(v, u, R, c, missed, t)
  <2>1. SeatFits(v, w, R, c, missed, t) /\ Alike(v, v, t)
    BY DEF Fits, Alike
  <2>. QED BY <1>6, <2>1, SeatAside
<1>7. AskedOnce(y.out, c)
  BY <1>1, <1>2, AddedRest DEF Fits
<1>8. Early(y, R, c)
  BY DEF Early
<1>9. Fits(y, u, R, c, missed)
  BY <1>5, <1>6, <1>7, <1>8 DEF Fits
<1>. QED BY <1>9 DEF y

\* An answer to a question, whether it is news or not.
LEMMA AnswerFits ==
  ASSUME NEW v, NEW c \in Seq(Requests), c # <<>>, Basis(v, c), Head(c).type = "Get",
         NEW w, NEW R, NEW missed, Fits(v, w, R, c, missed),
         NEW e, e.type = "Value", e.of = Head(c).of, e.valid <=> w[Head(c).seat].present,
         e.value \in BOOLEAN, e.value <=> w[Head(c).seat].graphical
  PROVE  Fits(Handled(v, e), w, R, Tail(c), missed)
<1>. DEFINE o == e.of
            s == Head(c).seat
            k == Tail(c)
            y == Handled(v, e)
<1>1. Head(c) \in Requests /\ Holds(c, Head(c))
  BY HoldsTail
<1>2. o \in DOMAIN v.d.watched /\ v.d.watched[o].seat = s
  BY <1>1 DEF Basis, Known
<1>3. s \in Seats
  BY <1>1 DEF Requests
<1>4. /\ AskedOnce(v.out, k)
      /\ \A m : Holds(k, m) => Holds(c, m)
      /\ \A i : Asked(v.out, c, i) /\ i # o => Asked(v.out, k, i)
  BY OneAnswered DEF Fits, IsGet
<1>5. /\ v \in Views /\ v.d.up \in [Seats -> BOOLEAN] /\ v.d.watched[o].graphical \in BOOLEAN
      /\ \A t \in Seats : v.d.systemSeats[t] = 0 \/ v.d.systemSeats[t] \in Watchers(v.d, t)
      /\ \A t : Watchers(v.d, t) \subseteq DOMAIN v.d.watched
  <2>1. v \in Views /\ v.d.up \in [Seats -> BOOLEAN] /\ v.d.watched \in Seq(Objects)
    BY DEF Basis, Tracks, Views
  <2>2. v.d.watched[o] \in Objects
    BY <1>2, <2>1, ElementOfSeq
  <2>. QED BY <2>1, <2>2 DEF Basis, Tracks, Watchers, Objects
<1>6. Manager \in R
  <2>1. Head(c).type # "ListSeats"
    OBVIOUS
  <2>. QED BY <1>1, <2>1 DEF Fits, Early
<1>7. SeatFits(v, w, R, c, missed, s)
  BY <1>3 DEF Fits
<1>8. y = IF News(v, e) THEN Answered(v, o, e.value) ELSE v
  BY DEF Handled
<1>9. \A t : (o \in Watchers(v.d, t)) <=> (t = s /\ v.d.watched[o].alive)
  BY <1>2 DEF Watchers
<1>10. (e.valid <=> w[s].present) /\ (e.value <=> w[s].graphical)
  OBVIOUS
<1>. HIDE DEF k, y, s
<1>11. CASE ~News(v, e)
  <2>1. ASSUME NEW t \in Seats, w[t].present, v.d.systemSeats[t] # 0, ~(v.d.up[t] <=> w[t].graphical)
        PROVE  \E i \in Watchers(v.d, t) : Asked(v.out, k, i) /\ ~(v.d.watched[i].graphical <=> w[t].graphical)
    <3>1. PICK i \in Watchers(v.d, t) : Asked(v.out, c, i) /\ ~(v.d.watched[i].graphical <=> w[t].graphical)
      BY <2>1 DEF Fits, SeatFits, Mended
    <3>2. i # o
      <4>. SUFFICES ASSUME i = o PROVE FALSE
        OBVIOUS
      <4>1. t = s /\ v.d.watched[o].alive
        BY <1>9
      <4>. QED BY <1>5, <1>10, <1>11, <2>1, <3>1, <4>1 DEF News
    <3>. QED BY <1>4, <3>1, <3>2
  <2>2. \A t \in Seats : SeatFits(v, w, R, k, missed, t)
    BY <2>1 DEF Fits, SeatFits, Mended
  <2>3. Early(v, R, k)
    BY <1>6 DEF Early
  <2>4. Fits(v, w, R, k, missed)
    BY <1>4, <2>2, <2>3 DEF Fits
  <2>. QED BY <1>8, <1>11, <2>4 DEF y, k
<1>12. CASE News(v, e)
  <2>. DEFINE value == e.value
  <2>0. y = Answered(v, o, value) /\ value \in BOOLEAN
    BY <1>8, <1>12
  <2>. HIDE DEF o, value
  <2>1. AnsweredTo(v, o, value, y)
    BY <1>2, <1>5, <2>0, ViewAnswered
  <2>2. /\ y.d.systemSeats = v.d.systemSeats /\ y.out = v.out
        /\ \A i \in DOMAIN v.d.watched : y.d.watched[i].graphical = IF i = o THEN value ELSE v.d.watched[i].graphical
    BY <2>1 DEF AnsweredTo
  <2>3. /\ \A t \in Seats : y.d.up[t] = IF t = s THEN value ELSE v.d.up[t]
        /\ \A t : Watchers(y.d, t) = Watchers(v.d, t)
    BY <1>2, <2>1 DEF AnsweredTo
  <2>4. w[s].present /\ (w[s].graphical <=> value) /\ o \in Watchers(v.d, s)
    BY <1>9, <1>10, <1>12 DEF News, o, value
  <2>5. SeatFits(y, w, R, k, missed, s)
    <3>1. Mended(y, w, k, s) /\ NotLate(y, w, missed, s)
      BY <1>3, <2>3, <2>4 DEF Mended, NotLate
    <3>2. Witnessed(y, R, s)
      <4>1. y.d.watched[o].graphical = value /\ y.d.up[s] = value /\ o \in Watchers(y.d, s)
        BY <1>2, <1>3, <2>2, <2>3, <2>4
      <4>. QED BY <4>1 DEF Witnessed
    <3>3. Untracked(y, w, s)
      BY <1>7, <2>2, <2>4 DEF Untracked, SeatFits
    <3>4. Telling(y, R, s)
      BY <1>7, <2>2, <2>3 DEF Telling, SeatFits
    <3>. QED BY <3>1, <3>2, <3>3, <3>4 DEF SeatFits
  <2>6. ASSUME NEW t \in Seats, t # s PROVE SeatFits(y, w, R, k, missed, t)
    <3>1. SeatFits(v, w, R, c, missed, t)
      BY DEF Fits
    <3>2. \A i \in Watchers(v.d, t) : i # o
      BY <1>9, <2>6
    <3>3. Alike(v, y, t)
      BY <1>5, <2>2, <2>3, <2>6, <3>2 DEF Alike
    <3>4. \A i \in Watchers(v.d, t) : Asked(v.out, c, i) => Asked(y.out, k, i)
      BY <1>4, <2>2, <3>2
    <3>. QED BY <2>2, <3>1, <3>3, <3>4, SeatAside
  <2>7. Early(y, R, k)
    BY <1>6 DEF Early
  <2>8. Fits(y, w, R, k, missed)
    BY <1>4, <2>2, <2>5, <2>6, <2>7 DEF Fits
  <2>. QED BY <2>8 DEF y, k
<1>. QED BY <1>11, <1>12

\* A seat comes or goes and the daemon is not told: it has not sent for the list yet.
LEMMA UntoldComing ==
  ASSUME NEW v, Tracks(v), NEW s \in Seats, NEW w, NEW u, NEW R, NEW c, NEW missed,
         Fits(v, w, R, c, missed), Manager \notin R, \A t \in Seats : t # s => u[t] = w[t]
  PROVE  Fits(v, u, R, c, missed)
<1>1. R = {} /\ \A o \in DOMAIN v.d.watched : ~v.d.watched[o].graphical
  BY DEF Fits, Early
<1>2. ~v.d.up[s] /\ (v.d.systemSeats[s] = 0 => Watchers(v.d, s) = {})
  BY DEF Fits, Early
<1>3. SeatFits(v, w, R, c, missed, s)
  BY DEF Fits
<1>4. SeatFits(v, u, R, c, missed, s)
  <2>1. Mended(v, u, c, s)
    <3>. SUFFICES ASSUME v.d.systemSeats[s] # 0, ~(v.d.up[s] <=> u[s].graphical)
                  PROVE  \E o \in Watchers(v.d, s) : Asked(v.out, c, o) /\ ~(v.d.watched[o].graphical <=> u[s].graphical)
      BY DEF Mended
    <3>. DEFINE o == v.d.systemSeats[s]
    <3>1. o \in Watchers(v.d, s) /\ o \in DOMAIN v.d.watched
      BY DEF Tracks, Watchers
    <3>2. Subscribed(v.out, R, s, o)
      BY <1>3, <3>1 DEF SeatFits, Telling
    <3>3. Asked(v.out, c, o)
      BY <1>1, <3>2, NotYetRead
    <3>. QED BY <1>1, <1>2, <3>1, <3>3
  <2>. QED BY <1>2, <1>3, <2>1 DEF SeatFits, Untracked, NotLate
<1>5. ASSUME NEW t \in Seats, t # s PROVE SeatFits(v, u, R, c, missed, t)
  <2>1. SeatFits(v, w, R, c, missed, t) /\ Alike(v, v, t)
    BY DEF Fits, Alike
  <2>. QED BY <1>5, <2>1, SeatAside
<1>. QED BY <1>4, <1>5 DEF Fits

\* A seat's state changes and the daemon is not told: an answer will, or it is noted.
LEMMA UntoldChange ==
  ASSUME NEW v, Tracks(v), NEW s \in Seats, NEW w, NEW u, NEW R, NEW c, NEW missed, NEW more,
         Fits(v, w, R, c, missed), s \notin R, \A t \in Seats : t # s => u[t] = w[t],
         w[s].present, u[s].present, u[s].graphical <=> ~w[s].graphical, missed \subseteq more,
         v.d.up[s] /\ ~Lost(v, s) /\ w[s].graphical => s \in more
  PROVE  Fits(v, u, R, c, more)
<1>1. SeatFits(v, w, R, c, missed, s)
  BY DEF Fits
<1>2. SeatFits(v, u, R, c, more, s)
  <2>1. Mended(v, u, c, s)
    <3>. SUFFICES ASSUME v.d.systemSeats[s] # 0, ~(v.d.up[s] <=> u[s].graphical)
                  PROVE  \E o \in Watchers(v.d, s) : Asked(v.out, c, o) /\ ~(v.d.watched[o].graphical <=> u[s].graphical)
      BY DEF Mended
    <3>1. PICK o \in Watchers(v.d, s) : v.d.watched[o].graphical <=> v.d.up[s]
      BY <1>1 DEF SeatFits, Witnessed
    <3>2. Subscribed(v.out, R, s, o)
      BY <1>1, <3>1 DEF SeatFits, Telling
    <3>3. Asked(v.out, c, o)
      BY <3>2, NotYetRead
    <3>. QED BY <3>1, <3>3
  <2>2. NotLate(v, u, more, s)
    BY DEF NotLate
  <2>. QED BY <1>1, <2>1, <2>2 DEF SeatFits, Untracked
<1>3. ASSUME NEW t \in Seats, t # s PROVE SeatFits(v, u, R, c, more, t)
  <2>1. SeatFits(v, w, R, c, missed, t) /\ Alike(v, v, t)
    BY DEF Fits, Alike
  <2>. QED BY <1>3, <2>1, SeatAside
<1>. QED BY <1>2, <1>3 DEF Fits

\* What the bus leaves of a view, and of the questions, when it reads a message.
Read(v) == [d |-> v.d, out |-> Tail(v.out)]

CallsAfter(c, m) == IF m.type \in {"AddMatch", "RemoveMatch"} THEN c ELSE Append(c, m)

\* The bus reads a message.
LEMMA ReadFits ==
  ASSUME NEW v, Tracks(v), v.out # <<>>, NEW c \in Seq(Requests), NEW w, NEW R, NEW missed,
         Fits(v, w, R, c, missed)
  PROVE  Fits(Read(v), w, RulesAfter(R, Head(v.out)), CallsAfter(c, Head(v.out)), missed)
<1>. DEFINE p == v.out
            m == Head(p)
            t == Tail(p)
            N == RulesAfter(R, m)
            k == CallsAfter(c, m)
            y == Read(v)
<1>1. p \in Seq(Messages)
  BY DEF Tracks, Views
<1>2. m \in Messages /\ t \in Seq(Messages) /\ \A x : Holds(p, x) <=> x = m \/ Holds(t, x)
  BY <1>1, HoldsTail
<1>3. y.d = v.d /\ y.out = t
  BY DEF Read
<1>4. \A s, o : Subscribed(p, R, s, o) => Subscribed(t, N, s, o)
  BY <1>1, SubscribedRead
<1>5. First(p) => m = Rule("AddMatch", Manager) \/ (m.type = "ListSeats" /\ First(t))
  BY <1>1, FirstRead
<1>6. Once(p) => Once(t) /\ \A x : Holds(t, x) /\ x.type = "Get" /\ m.type = "Get" => x.of # m.of
  BY <1>1, OnceLess
<1>. HIDE DEF m, t, p, N, k, y
<1>7. /\ m.type \in {"AddMatch", "RemoveMatch"} => k = c
      /\ m.type \notin {"AddMatch", "RemoveMatch"} => k = Append(c, m)
  BY DEF k, CallsAfter
<1>8. \A x : Holds(Append(c, m), x) <=> Holds(c, x) \/ x = m
  BY AppendIs
<1>9. \A o : Asked(p, c, o) => Asked(t, k, o)
  BY <1>2, <1>7, <1>8 DEF Asked, IsGet
<1>10. ASSUME NEW s, s \in R, s \notin N PROVE m = Rule("RemoveMatch", s)
  <2>1. m.type = "RemoveMatch" /\ m.of = s
    BY <1>10 DEF N, RulesAfter
  <2>2. m = Rule("RemoveMatch", m.of)
    BY <1>2, <2>1 DEF Messages, Rule
  <2>. QED BY <2>1, <2>2
<1>11. AskedOnce(t, k)
  <2>1. Once(p) /\ Once(c) /\ Apart(p, c)
    BY DEF Fits, AskedOnce, p
  <2>2. Once(Append(c, m))
    <3>1. \A x : Holds(c, x) /\ x.type = "Get" /\ m.type = "Get" => x.of # m.of
      BY <1>2, <2>1 DEF Apart
    <3>. QED BY <2>1, <3>1, OnceMore
  <2>3. Once(t) /\ Once(k)
    BY <1>6, <1>7, <2>1, <2>2
  <2>4. Apart(t, k)
    BY <1>2, <1>6, <1>7, <1>8, <2>1 DEF Apart
  <2>. QED BY <2>3, <2>4 DEF AskedOnce
<1>12. ASSUME NEW s \in Seats PROVE SeatFits(y, w, N, k, missed, s)
  <2>1. SeatFits(v, w, R, c, missed, s)
    BY DEF Fits
  <2>2. Alike(v, y, s)
    BY <1>3 DEF Alike, Watchers
  <2>3. s \notin N \/ Holds(y.out, Rule("RemoveMatch", s)) => s \notin R \/ Holds(v.out, Rule("RemoveMatch", s))
    BY <1>2, <1>3, <1>10 DEF p
  <2>4. \A o \in Watchers(v.d, s) : Asked(v.out, c, o) => Asked(y.out, k, o)
    BY <1>3, <1>9 DEF p
  <2>5. \A o \in Watchers(v.d, s) : Subscribed(v.out, R, s, o) => Subscribed(y.out, N, s, o)
    BY <1>3, <1>4 DEF p
  <2>. QED BY <2>1, <2>2, <2>3, <2>4, <2>5, SeatAside
<1>13. Early(y, N, k)
  <2>. SUFFICES ASSUME Manager \notin N PROVE Early(y, N, k)
    BY DEF Early
  <2>1. Manager \notin R
    <3>. SUFFICES ASSUME Manager \in R PROVE FALSE
      OBVIOUS
    <3>1. m = Rule("RemoveMatch", Manager)
      BY <1>10
    <3>. QED BY <1>2, <3>1, SeatManagerAssumption DEF Messages, Rule, SeatManagerAssumption
  <2>2. /\ R = {} /\ First(p) /\ \A x : Holds(c, x) => x.type = "ListSeats"
        /\ \A o \in DOMAIN v.d.watched : ~v.d.watched[o].graphical
        /\ \A s \in Seats : ~v.d.up[s] /\ (v.d.systemSeats[s] = 0 => Watchers(v.d, s) = {})
    BY <2>1 DEF Fits, Early, p
  <2>3. m # Rule("AddMatch", Manager)
    BY DEF N, RulesAfter, Rule
  <2>4. m.type = "ListSeats" /\ First(t)
    BY <1>5, <2>2, <2>3
  <2>5. N = {} /\ \A x : Holds(k, x) => x.type = "ListSeats"
    <3>1. N = R
      BY <2>4 DEF N, RulesAfter
    <3>. QED BY <1>7, <1>8, <2>2, <2>4, <3>1
  <2>. QED BY <1>3, <2>2, <2>4, <2>5 DEF Early, Watchers
<1>14. Fits(y, w, N, k, missed)
  BY <1>3, <1>11, <1>12, <1>13 DEF Fits
<1>. QED BY <1>14 DEF y, N, k, m, p

\* A daemon that has just asked for the seats.
LEMMA FirstFits ==
  ASSUME NEW v, v.d.watched = <<>>, \A s \in Seats : v.d.systemSeats[s] = 0 /\ ~v.d.up[s],
         v.out = FetchSeats, NEW w, NEW missed
  PROVE  Fits(v, w, {}, <<>>, missed)
<1>. DEFINE p == v.out
<1>1. /\ DOMAIN p = 1 .. 2 /\ p[1].type = "ListSeats" /\ p[2] = Rule("AddMatch", Manager)
      /\ p[2].type = "AddMatch"
  BY DEF FetchSeats, Rule
<1>2. \A s : Watchers(v.d, s) = {}
  BY DEF Watchers
<1>3. \A m : ~Holds(<<>>, m)
  BY DEF Holds
<1>. HIDE DEF p
<1>4. First(p)
  BY <1>1 DEF First
<1>5. Once(p) /\ Once(<<>>) /\ Apart(p, <<>>)
  <2>1. \A i \in DOMAIN p : p[i].type # "Get"
    BY <1>1
  <2>. QED BY <1>3, <2>1 DEF Once, Apart
<1>6. Early(v, {}, <<>>)
  BY <1>2, <1>3, <1>4 DEF Early, p
<1>7. \A s \in Seats : SeatFits(v, w, {}, <<>>, missed, s)
  BY <1>2 DEF SeatFits, Mended, Witnessed, Untracked, Telling, NotLate
<1>. QED BY <1>5, <1>6, <1>7 DEF Fits, AskedOnce, p

-----------------------------------------------------------------------------
(* What every event leaves *)

\* What lets a Seat of s run, in the end.
Causes(v, e, s) ==
  \/ e.type = "Changed" /\ e.of = s /\ e.value
  \/ e.type = "Value" /\ e.of \in Watchers(v.d, s)

\* A handler asks about none of the objects that are there, and a seat runs as it
\* did before, with its objects, or by the event.
Sequel(v, e, c, y) ==
  /\ \A o \in DOMAIN v.d.watched : Asked(y.out, c, o) => Asked(v.out, c, o)
  /\ \A s \in Seats : y.d.up[s] =>
       \/ v.d.up[s] /\ Watchers(v.d, s) \subseteq Watchers(y.d, s)
       \/ Causes(y, e, s)

\* The list of seats.
LEMMA ListSequel ==
  ASSUME NEW v, NEW c, Basis(v, c), NEW l \in Seq(Seats), NEW e
  PROVE  Sequel(v, e, c, SeatsAdded(v, l))
<1>. DEFINE S == {y \in Views : /\ Basis(y, c) /\ DOMAIN v.d.watched \subseteq DOMAIN y.d.watched
                                /\ \A o \in DOMAIN v.d.watched : Asked(y.out, c, o) => Asked(v.out, c, o)
                                /\ \A s \in Seats : Watchers(v.d, s) \subseteq Watchers(y.d, s)
                                /\ y.d.up = v.d.up}
<1>1. v \in S
  BY DEF Basis, Tracks
<1>2. AddsWithin(S, Seats)
  <2>. SUFFICES ASSUME NEW x \in S, NEW s \in Seats PROVE LogindSeatAdded(x, s) \in S
    BY DEF AddsWithin
  <2>. DEFINE y == LogindSeatAdded(x, s)
              k == Len(x.d.watched) + 1
  <2>1. /\ x \in Views /\ Basis(x, c) /\ DOMAIN v.d.watched \subseteq DOMAIN x.d.watched
        /\ \A o \in DOMAIN v.d.watched : Asked(x.out, c, o) => Asked(v.out, c, o)
        /\ \A t \in Seats : Watchers(v.d, t) \subseteq Watchers(x.d, t)
        /\ x.d.up = v.d.up
    OBVIOUS
  <2>2. AddedTo(x, s, k, y)
    BY <2>1, AddedToIt
  <2>3. Grows(x, y)
    BY <2>1, AddedGrows DEF Basis
  <2>. HIDE DEF y, k, S
  <2>4. Basis(y, c) /\ y \in Views
    BY <2>1, <2>3, BasisGrows DEF Basis, Tracks
  <2>5. Tracks(x) /\ Knows(x) /\ \A m : Holds(c, m) => Known(x.d.watched, m)
    BY <2>1 DEF Basis
  <2>6. \A o \in DOMAIN x.d.watched : Asked(y.out, c, o) => Asked(x.out, c, o)
    BY <2>2, <2>5, AddedRest
  <2>7. /\ DOMAIN x.d.watched \subseteq DOMAIN y.d.watched /\ y.d.up = x.d.up
        /\ \A t : Watchers(x.d, t) \subseteq Watchers(y.d, t)
    BY <2>2 DEF AddedTo
  <2>8. \A o \in DOMAIN v.d.watched : Asked(y.out, c, o) => Asked(v.out, c, o)
    BY <2>1, <2>6
  <2>9. \A t \in Seats : Watchers(v.d, t) \subseteq Watchers(y.d, t)
    BY <2>1, <2>7
  <2>. QED BY <2>1, <2>4, <2>7, <2>8, <2>9 DEF S, y
<1>. HIDE DEF S
<1>3. SeatsAdded(v, l) \in S
  BY <1>1, <1>2, AddingStays
<1>. DEFINE z == SeatsAdded(v, l)
<1>. HIDE DEF z
<1>4. z \in S
  BY <1>3 DEF z
<1>5. Sequel(v, e, c, z)
  BY <1>4 DEF S, Sequel
<1>. QED BY <1>5 DEF z

\* A seat more, or less.
LEMMA SeatSequel ==
  ASSUME NEW v, NEW c, Basis(v, c), NEW s \in Seats, NEW e
  PROVE  Sequel(v, e, c, LogindSeatAdded(v, s)) /\ Sequel(v, e, c, Gone(v, s))
<1>1. Tracks(v) /\ Knows(v) /\ v \in Views /\ \A m : Holds(c, m) => Known(v.d.watched, m)
  BY DEF Basis, Tracks
<1>2. Sequel(v, e, c, LogindSeatAdded(v, s))
  <2>. DEFINE y == LogindSeatAdded(v, s)
              k == Len(v.d.watched) + 1
  <2>1. AddedTo(v, s, k, y)
    BY <1>1, AddedToIt
  <2>. HIDE DEF y, k
  <2>2. \A o \in DOMAIN v.d.watched : Asked(y.out, c, o) => Asked(v.out, c, o)
    BY <1>1, <2>1, AddedRest
  <2>3. y.d.up = v.d.up /\ \A t : Watchers(v.d, t) \subseteq Watchers(y.d, t)
    BY <2>1 DEF AddedTo
  <2>4. Sequel(v, e, c, y)
    BY <2>2, <2>3 DEF Sequel
  <2>. QED BY <2>4 DEF y
<1>3. Sequel(v, e, c, Gone(v, s))
  <2>. DEFINE y == Gone(v, s)
              p == v.out
              q == y.out
              W == Watchers(y.d, s)
              i == v.d.systemSeats[s]
  <2>1. q = p \o Unsubscribes(i, W, s)
    BY <1>1, ViewGone
  <2>2. /\ \A t \in Seats : y.d.up[t] = IF t = s THEN FALSE ELSE v.d.up[t]
        /\ \A t : Watchers(y.d, t) = IF t = s THEN Watchers(v.d, t) \ {v.d.systemSeats[s]}
                                              ELSE Watchers(v.d, t)
    BY <1>1, ViewGone
  <2>. HIDE DEF y
  <2>3. p \in Seq(Messages)
    BY <1>1 DEF Views
  <2>. HIDE DEF p, q, W, i
  <2>4. q = SentForLoss(p, i, W, s)
    BY <2>1, <2>3, SentForLossIs
  <2>5. ASSUME NEW m, Holds(q, m) PROVE Holds(p, m) \/ m = Rule("RemoveMatch", s)
    BY <2>3, <2>4, <2>5, SentForLossIs
  <2>6. \A o : Asked(q, c, o) => Asked(p, c, o)
    BY <2>5 DEF Asked, IsGet, Rule
  <2>7. Sequel(v, e, c, y)
    BY <2>2, <2>6 DEF Sequel, p, q
  <2>. QED BY <2>7 DEF y
<1>. QED BY <1>2, <1>3

\* Every event.
LEMMA HandledSequel ==
  ASSUME NEW v, NEW c, Basis(v, c), NEW e, Fine(v, e)
  PROVE  Sequel(v, e, c, Handled(v, e))
<1>0. Sequel(v, e, c, v) /\ v \in Views
  BY DEF Sequel, Basis, Tracks
<1>1. e.type \in {"Seats", "SeatNew", "SeatRemoved", "Changed", "Value", "Delete"}
  BY DEF Fine, Events, Deletes
<1>2. CASE e.type = "Seats"
  <2>1. e.seats \in Seq(Seats)
    BY <1>2 DEF Fine, Events, Deletes
  <2>. QED BY <1>2, <2>1, ListSequel DEF Handled
<1>3. CASE e.type = "SeatNew"
  <2>1. e.of \in Seats
    BY <1>3 DEF Fine, Events, Deletes
  <2>. QED BY <1>3, <2>1, SeatSequel DEF Handled
<1>4. CASE e.type = "SeatRemoved"
  <2>1. e.of \in Seats
    BY <1>4 DEF Fine, Events, Deletes
  <2>. QED BY <1>4, <2>1, SeatSequel DEF Handled
<1>5. CASE e.type = "Changed"
  <2>. DEFINE s == e.of
              g == e.value
              y == Changed(v, s, g)
  <2>1. s \in Seats /\ g \in BOOLEAN
    BY <1>5 DEF Fine, Events, Deletes
  <2>2. Handled(v, e) = y
    BY <1>5 DEF Handled
  <2>. HIDE DEF s, g
  <2>3. ChangedTo(v, s, g, y)
    BY <1>0, <2>1, ViewChanged
  <2>. HIDE DEF y
  <2>4. /\ y.out = v.out /\ \A t : Watchers(y.d, t) = Watchers(v.d, t)
        /\ \A t \in Seats : y.d.up[t] = IF t = s /\ Watchers(v.d, s) # {} THEN g ELSE v.d.up[t]
    BY <2>3 DEF ChangedTo
  <2>5. Sequel(v, e, c, y)
    BY <1>5, <2>4 DEF Sequel, Causes, s, g
  <2>. QED BY <2>2, <2>5
<1>6. CASE e.type = "Value"
  <2>. DEFINE o == e.of
              g == e.value
              y == Answered(v, o, g)
  <2>1. o \in DOMAIN v.d.watched /\ g \in BOOLEAN
    BY <1>6 DEF Fine, Events, Deletes
  <2>2. Handled(v, e) = IF News(v, e) THEN y ELSE v
    BY <1>6 DEF Handled
  <2>3. News(v, e) => v.d.watched[o].alive
    BY DEF News
  <2>. HIDE DEF o, g
  <2>4. AnsweredTo(v, o, g, y)
    BY <1>0, <2>1, ViewAnswered
  <2>. HIDE DEF y
  <2>5. /\ y.out = v.out /\ \A t : Watchers(y.d, t) = Watchers(v.d, t)
        /\ \A t \in Seats : y.d.up[t] = IF t = v.d.watched[o].seat THEN g ELSE v.d.up[t]
    BY <2>4 DEF AnsweredTo
  <2>6. ASSUME News(v, e) PROVE Sequel(v, e, c, y)
    <3>1. \A t : t = v.d.watched[o].seat => o \in Watchers(v.d, t)
      BY <2>1, <2>3, <2>6 DEF Watchers
    <3>2. ASSUME NEW t \in Seats, y.d.up[t]
          PROVE  (v.d.up[t] /\ Watchers(v.d, t) \subseteq Watchers(y.d, t)) \/ Causes(y, e, t)
      BY <1>6, <2>5, <3>1, <3>2 DEF Causes, o
    <3>. QED BY <2>5, <3>2 DEF Sequel
  <2>. QED BY <1>0, <2>2, <2>6
<1>7. CASE e.type = "Delete"
  BY <1>0, <1>7 DEF Handled
<1>. QED BY <1>1, <1>2, <1>3, <1>4, <1>5, <1>6, <1>7

-----------------------------------------------------------------------------
(* The bus reads what was sent; what the daemon comes to is sent no less *)

\* What is sent joins the end: q is p, and t its tail, with something more.
Joins(p, q, t) == q # <<>> /\ Head(q) = Head(p) /\ Tail(q) = t

\* So it is with what is sent for an object and for its loss.
LEMMA SentLater ==
  ASSUME NEW p \in Seq(Messages), p # <<>>, NEW t, t = Tail(p), NEW W, NEW s \in Seats, NEW o \in Nat
  PROVE  /\ Joins(p, SentFor(p, W, s, o), SentFor(t, W, s, o))
         /\ Joins(p, SentForLoss(p, o, W, s), SentForLoss(t, o, W, s))
<1>. DEFINE x == Asks(s, o)
            add == Rule("AddMatch", s)
            end == Rule("RemoveMatch", s)
<1>1. x \in Messages /\ add \in Messages /\ end \in Messages
  BY DEF Asks, Rule, Messages
<1>. HIDE DEF x, add, end
<1>2. ASSUME NEW q \in Seq(Messages), q # <<>>, NEW m \in Messages
      PROVE  /\ Append(q, m) \in Seq(Messages) /\ Append(q, m) # <<>>
             /\ Head(Append(q, m)) = Head(q) /\ Tail(Append(q, m)) = Append(Tail(q), m)
  <2>1. Append(q, m) \in Seq(Messages) /\ Append(q, m) # <<>>
    BY AppendProperties
  <2>. QED BY <1>2, <2>1, HeadTailAppend
<1>3. /\ Append(p, x) # <<>> /\ Head(Append(p, x)) = Head(p) /\ Tail(Append(p, x)) = Append(Tail(p), x)
      /\ Append(p, end) # <<>> /\ Head(Append(p, end)) = Head(p) /\ Tail(Append(p, end)) = Append(Tail(p), end)
      /\ Append(p, add) # <<>> /\ Head(Append(p, add)) = Head(p) /\ Tail(Append(p, add)) = Append(Tail(p), add)
      /\ Append(p, add) \in Seq(Messages)
  BY <1>1, <1>2
<1>4. /\ Append(Append(p, add), x) # <<>> /\ Head(Append(Append(p, add), x)) = Head(p)
      /\ Tail(Append(Append(p, add), x)) = Append(Append(Tail(p), add), x)
  BY <1>1, <1>2, <1>3
<1>5. /\ \A q : SentFor(q, W, s, o) = IF W = {} THEN Append(Append(q, add), x) ELSE Append(q, x)
      /\ \A q : SentForLoss(q, o, W, s) = IF o # 0 /\ W = {} THEN Append(q, end) ELSE q
  BY DEF SentFor, SentForLoss, x, add, end
<1>. QED BY <1>3, <1>4, <1>5 DEF Joins

\* A view with a message to read.
Unread(v, m) == v \in Views /\ v.out # <<>> /\ Head(v.out) = m

\* Reading leaves the rest.
LEMMA ReadIs ==
  ASSUME NEW v, NEW m, Unread(v, m)
  PROVE  /\ v \in Views /\ Read(v) \in Views /\ Read(v).d = v.d /\ Read(v).out = Tail(v.out)
         /\ Tail(v.out) \in Seq(Messages) /\ v.out \in Seq(Messages)
<1>1. v \in Views /\ v.out \in Seq(Messages) /\ v.out # <<>>
  BY DEF Unread, Views
<1>2. Tail(v.out) \in Seq(Messages)
  BY <1>1
<1>. DEFINE t == Tail(v.out)
<1>. HIDE DEF t
<1>3. [d |-> v.d, out |-> t] \in Views
  BY <1>1, <1>2 DEF Views, t
<1>. QED BY <1>1, <1>2, <1>3 DEF Read, t

\* A seat more.
LEMMA ReadAdded ==
  ASSUME NEW v, NEW m, Unread(v, m), NEW s \in Seats
  PROVE  /\ Unread(LogindSeatAdded(v, s), m)
         /\ LogindSeatAdded(Read(v), s) = Read(LogindSeatAdded(v, s))
<1>. DEFINE y == LogindSeatAdded(v, s)
            r == Read(v)
            z == LogindSeatAdded(r, s)
            k == Len(v.d.watched) + 1
            W == Watchers(v.d, s)
            p == v.out
<1>1. /\ v \in Views /\ r \in Views /\ r.d = v.d /\ r.out = Tail(p)
      /\ Tail(p) \in Seq(Messages) /\ p \in Seq(Messages) /\ p # <<>> /\ Head(p) = m
  BY ReadIs DEF Unread
<1>2. k \in Nat
  <2>1. v.d.watched \in Seq(Objects)
    BY <1>1 DEF Views
  <2>2. Len(v.d.watched) \in Nat
    BY <2>1, LenProperties
  <2>. QED BY <2>2
<1>. HIDE DEF r
<1>3. /\ y \in Views /\ y.d.up = v.d.up /\ y.d.watched = Append(v.d.watched, NewObject(s))
      /\ y.d.systemSeats = [v.d.systemSeats EXCEPT ![s] = k]
  BY <1>1, ViewAdded
<1>4. /\ z \in Views /\ z.d.up = v.d.up /\ z.d.watched = Append(v.d.watched, NewObject(s))
      /\ z.d.systemSeats = [v.d.systemSeats EXCEPT ![s] = k]
  <2>1. r \in Views
    BY <1>1
  <2>2. /\ z \in Views /\ z.d.up = r.d.up /\ z.d.watched = Append(r.d.watched, NewObject(s))
        /\ z.d.systemSeats = [r.d.systemSeats EXCEPT ![s] = Len(r.d.watched) + 1]
    BY <2>1, ViewAdded
  <2>. HIDE DEF z
  <2>. QED BY <1>1, <2>2
<1>5. y.out = SentFor(p, W, s, k)
  BY <1>1, AddedToIt DEF AddedTo
<1>6. z.out = SentFor(r.out, W, s, k)
  BY <1>1, AddedToIt DEF AddedTo
<1>. HIDE DEF y, z, k, W, p
<1>7. y.out # <<>> /\ Head(y.out) = m /\ Tail(y.out) = z.out
  <2>1. Joins(p, y.out, z.out)
    BY <1>1, <1>2, <1>5, <1>6, SentLater
  <2>. QED BY <1>1, <2>1 DEF Joins
<1>8. Unread(y, m)
  BY <1>3, <1>7 DEF Unread
<1>9. Read(y) \in Views /\ Read(y).d = y.d /\ Read(y).out = z.out
  BY <1>7, <1>8, ReadIs
<1>10. z = Read(y)
  BY <1>3, <1>4, <1>9, SameView
<1>. QED BY <1>8, <1>10 DEF y, z, r

\* A list of seats.
LEMMA ReadListed ==
  ASSUME NEW v, NEW m, Unread(v, m), NEW l \in Seq(Seats)
  PROVE  /\ Unread(SeatsAdded(v, l), m)
         /\ SeatsAdded(Read(v), l) = Read(SeatsAdded(v, l))
<1>. DEFINE r == Read(v)
<1>1. v \in Views /\ r \in Views
  BY ReadIs
<1>2. AddsWithin(Views, Seats)
  BY ViewAdded DEF AddsWithin
<1>3. PICK f \in [0 .. Len(l) -> Views] :
        /\ f[0] = v /\ f[Len(l)] = SeatsAdded(v, l)
        /\ \A i \in 1 .. Len(l) : f[i] = LogindSeatAdded(f[i - 1], l[i])
  BY <1>1, <1>2, AddingGoesOn
<1>. HIDE DEF r
<1>4. PICK g \in [0 .. Len(l) -> Views] :
        /\ g[0] = r /\ g[Len(l)] = SeatsAdded(r, l)
        /\ \A i \in 1 .. Len(l) : g[i] = LogindSeatAdded(g[i - 1], l[i])
  BY <1>1, <1>2, AddingGoesOn
<1>5. Len(l) \in Nat /\ \A i \in 1 .. Len(l) : l[i] \in Seats
  BY LenProperties, ElementOfSeq
<1>6. \A i \in 0 .. Len(l) : Unread(f[i], m) /\ g[i] = Read(f[i])
  <2>. DEFINE B == {i \in 0 .. Len(l) : Unread(f[i], m) /\ g[i] = Read(f[i])}
  <2>1. 0 \in B
    BY <1>3, <1>4, <1>5 DEF r
  <2>2. \A i \in 1 .. Len(l) : i - 1 \in B => i \in B
    <3>. SUFFICES ASSUME NEW i \in 1 .. Len(l), Unread(f[i - 1], m), g[i - 1] = Read(f[i - 1])
                  PROVE  i \in 0 .. Len(l) /\ Unread(f[i], m) /\ g[i] = Read(f[i])
      BY DEF B
    <3>1. i \in 0 .. Len(l) /\ i - 1 \in 0 .. Len(l) /\ l[i] \in Seats
      BY <1>5
    <3>2. f[i] = LogindSeatAdded(f[i - 1], l[i]) /\ g[i] = LogindSeatAdded(g[i - 1], l[i])
      BY <1>3, <1>4
    <3>. DEFINE x == f[i - 1]
                s == l[i]
    <3>3. Unread(x, m) /\ s \in Seats /\ g[i - 1] = Read(x)
      BY <3>1
    <3>. HIDE DEF x, s
    <3>4. Unread(LogindSeatAdded(x, s), m) /\ LogindSeatAdded(Read(x), s) = Read(LogindSeatAdded(x, s))
      BY <3>3, ReadAdded
    <3>5. f[i] = LogindSeatAdded(x, s) /\ g[i] = LogindSeatAdded(Read(x), s)
      BY <3>2, <3>3 DEF x, s
    <3>. QED BY <3>1, <3>4, <3>5
  <2>. HIDE DEF B
  <2>3. \A i \in 0 .. Len(l) : i \in B
    BY <1>5, <2>1, <2>2, Counting
  <2>. QED BY <2>3 DEF B
<1>7. Len(l) \in 0 .. Len(l)
  BY <1>5
<1>8. Unread(SeatsAdded(v, l), m) /\ SeatsAdded(r, l) = Read(SeatsAdded(v, l))
  BY <1>3, <1>4, <1>6, <1>7
<1>. QED BY <1>8 DEF r

\* What the removal of a seat makes of a view, and sends.
GoneTo(v, s, y) ==
  /\ y \in Views /\ y.d.watched = WithoutObject(v.d, s)
  /\ y.d.systemSeats = [v.d.systemSeats EXCEPT ![s] = 0]
  /\ \A t \in Seats : y.d.up[t] = IF t = s THEN FALSE ELSE v.d.up[t]
  /\ y.out = SentForLoss(v.out, v.d.systemSeats[s], Watchers(v.d, s) \ {v.d.systemSeats[s]}, s)

\* Gone is that.
LEMMA GoneIs ==
  ASSUME NEW v, Tracks(v), NEW s \in Seats
  PROVE  GoneTo(v, s, Gone(v, s))
<1>. DEFINE y == Gone(v, s)
            p == v.out
            W == Watchers(y.d, s)
            i == v.d.systemSeats[s]
<1>1. y.out = p \o Unsubscribes(i, W, s)
  BY ViewGone
<1>2. y \in Views /\ y.d.watched = WithoutObject(v.d, s) /\ y.d.systemSeats = [v.d.systemSeats EXCEPT ![s] = 0]
  BY ViewGone
<1>3. \A t \in Seats : y.d.up[t] = IF t = s THEN FALSE ELSE v.d.up[t]
  BY ViewGone
<1>4. W = Watchers(v.d, s) \ {i}
  BY ViewGone
<1>5. p \in Seq(Messages)
  BY DEF Tracks, Views
<1>. HIDE DEF y, p, W, i
<1>6. y.out = SentForLoss(p, i, W, s)
  BY <1>1, <1>5, SentForLossIs
<1>. QED BY <1>2, <1>3, <1>4, <1>6 DEF GoneTo, y, p, i

\* A seat less.
LEMMA ReadGone ==
  ASSUME NEW v, NEW m, Unread(v, m), Tracks(v), NEW s \in Seats
  PROVE  Unread(Gone(v, s), m) /\ Gone(Read(v), s) = Read(Gone(v, s))
<1>. DEFINE y == Gone(v, s)
            r == Read(v)
            z == Gone(r, s)
            p == v.out
            i == v.d.systemSeats[s]
            W == Watchers(v.d, s) \ {i}
<1>1. /\ v \in Views /\ r \in Views /\ r.d = v.d /\ r.out = Tail(p)
      /\ p \in Seq(Messages) /\ p # <<>> /\ Head(p) = m
  BY ReadIs DEF Unread
<1>. HIDE DEF r
<1>2. Tracks(r) /\ i \in Nat
  BY <1>1 DEF Tracks, Views
<1>3. GoneTo(v, s, y) /\ GoneTo(r, s, z)
  BY <1>2, GoneIs
<1>. HIDE DEF y, z
<1>4. y.out = SentForLoss(p, i, W, s) /\ z.out = SentForLoss(r.out, i, W, s)
  BY <1>1, <1>3 DEF GoneTo
<1>5. y \in Views /\ z \in Views
  BY <1>3 DEF GoneTo
<1>6. /\ z.d.watched = y.d.watched /\ z.d.systemSeats = y.d.systemSeats
      /\ \A t \in Seats : z.d.up[t] = y.d.up[t]
  <2>1. /\ y.d.watched = WithoutObject(v.d, s) /\ y.d.systemSeats = [v.d.systemSeats EXCEPT ![s] = 0]
        /\ \A t \in Seats : y.d.up[t] = IF t = s THEN FALSE ELSE v.d.up[t]
    BY <1>3 DEF GoneTo
  <2>2. /\ z.d.watched = WithoutObject(r.d, s) /\ z.d.systemSeats = [r.d.systemSeats EXCEPT ![s] = 0]
        /\ \A t \in Seats : z.d.up[t] = IF t = s THEN FALSE ELSE r.d.up[t]
    BY <1>3 DEF GoneTo
  <2>3. r.d = v.d
    BY <1>1
  <2>. QED BY <2>1, <2>2, <2>3
<1>. HIDE DEF p, W, i
<1>7. Joins(p, y.out, z.out)
  BY <1>1, <1>2, <1>4, SentLater
<1>8. Unread(y, m) /\ Tail(y.out) = z.out
  BY <1>1, <1>5, <1>7 DEF Joins, Unread
<1>9. Read(y) \in Views /\ Read(y).d = y.d /\ Read(y).out = z.out
  BY <1>8, ReadIs
<1>10. z = Read(y)
  BY <1>5, <1>6, <1>9, SameView
<1>. QED BY <1>8, <1>10 DEF y, z, r

\* Every event.
LEMMA ReadHandled ==
  ASSUME NEW v, NEW m, Unread(v, m), Tracks(v), NEW e, Fine(v, e)
  PROVE  Unread(Handled(v, e), m) /\ Handled(Read(v), e) = Read(Handled(v, e))
<1>. DEFINE r == Read(v)
<1>0. v \in Views /\ r \in Views /\ r.d = v.d /\ r.out = Tail(v.out)
  BY ReadIs
<1>1. e.type \in {"Seats", "SeatNew", "SeatRemoved", "Changed", "Value", "Delete"}
  BY DEF Fine, Events, Deletes
<1>2. CASE e.type = "Seats"
  <2>1. e.seats \in Seq(Seats)
    BY <1>2 DEF Fine, Events, Deletes
  <2>. QED BY <1>2, <2>1, ReadListed DEF Handled
<1>3. CASE e.type = "SeatNew"
  <2>1. e.of \in Seats
    BY <1>3 DEF Fine, Events, Deletes
  <2>. QED BY <1>3, <2>1, ReadAdded DEF Handled
<1>4. CASE e.type = "SeatRemoved"
  <2>1. e.of \in Seats
    BY <1>4 DEF Fine, Events, Deletes
  <2>. QED BY <1>4, <2>1, ReadGone DEF Handled
<1>5. CASE e.type = "Changed"
  <2>. DEFINE s == e.of
              g == e.value
              y == Changed(v, s, g)
              z == Changed(r, s, g)
  <2>1. s \in Seats /\ g \in BOOLEAN
    BY <1>5 DEF Fine, Events, Deletes
  <2>2. Handled(v, e) = y /\ Handled(r, e) = z
    BY <1>5 DEF Handled
  <2>. HIDE DEF s, g, r
  <2>3. y \in Views /\ z \in Views /\ y.out = v.out /\ z.out = r.out
    BY <1>0, <2>1, ViewChanged DEF ChangedTo
  <2>4. z.d = y.d
    BY <1>0 DEF Changed
  <2>. HIDE DEF y, z
  <2>5. Unread(y, m)
    BY <2>3 DEF Unread
  <2>6. Read(y) \in Views /\ Read(y).d = y.d /\ Read(y).out = Tail(v.out)
    BY <2>3, <2>5, ReadIs
  <2>7. z = Read(y)
    BY <1>0, <2>3, <2>4, <2>6, SameView
  <2>. QED BY <2>2, <2>5, <2>7 DEF r
<1>6. CASE e.type = "Value"
  <2>. DEFINE o == e.of
              g == e.value
              y == Answered(v, o, g)
              z == Answered(r, o, g)
  <2>1. o \in DOMAIN v.d.watched /\ g \in BOOLEAN
    BY <1>6 DEF Fine, Events, Deletes
  <2>. HIDE DEF r
  <2>2. Handled(v, e) = (IF News(v, e) THEN y ELSE v) /\ Handled(r, e) = (IF News(r, e) THEN z ELSE r)
    BY <1>6 DEF Handled
  <2>3. News(r, e) <=> News(v, e)
    BY <1>0 DEF News
  <2>. HIDE DEF o, g
  <2>4. y \in Views /\ z \in Views /\ y.out = v.out /\ z.out = r.out
    BY <1>0, <2>1, ViewAnswered DEF AnsweredTo
  <2>5. z.d = y.d
    BY <1>0 DEF Answered
  <2>. HIDE DEF y, z
  <2>6. Unread(y, m)
    BY <2>4 DEF Unread
  <2>7. Read(y) \in Views /\ Read(y).d = y.d /\ Read(y).out = Tail(v.out)
    BY <2>4, <2>6, ReadIs
  <2>8. z = Read(y)
    BY <1>0, <2>4, <2>5, <2>7, SameView
  <2>. QED BY <2>2, <2>3, <2>6, <2>8 DEF r
<1>7. CASE e.type = "Delete"
  BY <1>0, <1>7 DEF Handled
<1>. QED BY <1>1, <1>2, <1>3, <1>4, <1>5, <1>6, <1>7

-----------------------------------------------------------------------------
(* What a queue leads to, event by event *)

\* The views from v on while the events of q are handled.
Course(f, v, q) ==
  /\ f \in [0 .. Len(q) -> Views] /\ f[0] = v
  /\ \A i \in 1 .. Len(q) : f[i] = Handled(f[i - 1], q[i])

\* Events of a queue are about objects that are there.
AllFine(v, q) == q \in Seq(Events) /\ \A e : Holds(q, e) => Fine(v, e)

\* What holds of v holds on the way: objects stay, and what is lost stays lost.
LEMMA CourseGrows ==
  ASSUME NEW v, Tracks(v), NEW q, AllFine(v, q), NEW f, Course(f, v, q)
  PROVE  /\ \A i \in 0 .. Len(q) : Grows(v, f[i])
         /\ \A i \in 1 .. Len(q) : Fine(f[i - 1], q[i])
         /\ Len(q) \in Nat /\ Grows(v, f[Len(q)]) /\ f[Len(q)] \in Views
<1>1. Len(q) \in Nat /\ DOMAIN q = 1 .. Len(q)
  BY LenProperties DEF AllFine
<1>2. ASSUME NEW x, Grows(v, x), NEW i \in 1 .. Len(q) PROVE Fine(x, q[i]) /\ Grows(v, Handled(x, q[i]))
  <2>. DEFINE e == q[i]
  <2>1. Fine(v, e)
    BY <1>1 DEF AllFine, Holds
  <2>. HIDE DEF e
  <2>2. Fine(x, e) /\ Tracks(x)
    BY <1>2, <2>1 DEF Fine, Grows, Grown
  <2>3. Grows(x, Handled(x, e))
    BY <2>2, HandledGrows
  <2>4. Grows(v, Handled(x, e))
    BY <1>2, <2>3, GrowsOn
  <2>. QED BY <2>2, <2>4 DEF e
<1>3. Grows(v, v)
  BY DEF Grows, Grown
<1>4. \A i \in 0 .. Len(q) : Grows(v, f[i])
  <2>. DEFINE B == {i \in 0 .. Len(q) : Grows(v, f[i])}
  <2>1. 0 \in B
    BY <1>1, <1>3 DEF Course
  <2>2. \A i \in 1 .. Len(q) : i - 1 \in B => i \in B
    <3>. SUFFICES ASSUME NEW i \in 1 .. Len(q), Grows(v, f[i - 1]) PROVE i \in 0 .. Len(q) /\ Grows(v, f[i])
      BY DEF B
    <3>1. f[i] = Handled(f[i - 1], q[i]) /\ i \in 0 .. Len(q)
      BY <1>1 DEF Course
    <3>2. Grows(v, Handled(f[i - 1], q[i]))
      BY <1>2
    <3>. QED BY <3>1, <3>2
  <2>. HIDE DEF B
  <2>3. \A i \in 0 .. Len(q) : i \in B
    BY <1>1, <2>1, <2>2, Counting
  <2>. QED BY <2>3 DEF B
<1>5. \A i \in 1 .. Len(q) : Fine(f[i - 1], q[i])
  <2>. SUFFICES ASSUME NEW i \in 1 .. Len(q) PROVE Fine(f[i - 1], q[i])
    OBVIOUS
  <2>1. i - 1 \in 0 .. Len(q)
    BY <1>1
  <2>. QED BY <1>2, <1>4, <2>1
<1>6. Len(q) \in 0 .. Len(q)
  BY <1>1
<1>7. f[Len(q)] \in Views
  BY <1>6 DEF Course
<1>. QED BY <1>1, <1>4, <1>5, <1>6, <1>7

\* A Seat that runs in the end runs on the way, or is yet to be told of.
Caused(f, q) ==
  \A s \in Seats : f[Len(q)].d.up[s] =>
    \A i \in 0 .. Len(q) : f[i].d.up[s] \/ \E j \in i + 1 .. Len(q) : Causes(f[Len(q)], q[j], s)

\* Where a second Seat will be made is noted.
Noted(f, q, missed) == \A i \in 1 .. Len(q), s \in Seats : Doubles(f[i - 1], q[i], s) => s \in missed

\* An answer on its way is not asked for again.
Settled(v, q, c) == \A e : Holds(q, e) /\ e.type = "Value" => ~Asked(v.out, c, e.of)

\* The way from v by q to z.
Leads(f, v, q, c, missed, z) ==
  Course(f, v, q) /\ Caused(f, q) /\ Noted(f, q, missed) /\ Settled(z, q, c) /\ z = f[Len(q)]

\* At first there is no way to go.
LEMMA LeadsFirst ==
  ASSUME NEW v \in Views, NEW c, NEW missed
  PROVE  \E f : Leads(f, v, <<>>, c, missed, v)
<1>. DEFINE f == [i \in 0 .. 0 |-> v]
            q == <<>>
<1>1. Len(q) = 0 /\ DOMAIN q = {} /\ 1 .. 0 = {} /\ f[0] = v /\ f \in [0 .. 0 -> Views]
  OBVIOUS
<1>. HIDE DEF f, q
<1>2. Course(f, v, q) /\ Noted(f, q, missed) /\ Settled(v, q, c)
  BY <1>1 DEF Course, Noted, Settled, Holds
<1>3. Caused(f, q)
  BY <1>1 DEF Caused
<1>4. Leads(f, v, q, c, missed, v)
  BY <1>1, <1>2, <1>3 DEF Leads
<1>. QED BY <1>4 DEF q

\* The first event is handled; what it posts are deletions, which end the way.
LEMMA LeadsOn ==
  ASSUME NEW v, Tracks(v), NEW q, AllFine(v, q), q # <<>>, NEW c, NEW missed, NEW z, NEW f,
         Leads(f, v, q, c, missed, z), NEW post \in Seq(Deletes)
  PROVE  \E g : Leads(g, Handled(v, Head(q)), Tail(q) \o post, c, missed, z)
<1>. DEFINE n == Len(q)
            p == Tail(q) \o post
            m == Len(p)
            g == [i \in 0 .. m |-> IF i < n THEN f[i + 1] ELSE z]
<1>1. q \in Seq(Events) /\ post \in Seq(Events)
  <2>1. post \in Seq(Events)
    BY DEF Events
  <2>. QED BY <2>1 DEF AllFine
<1>2. /\ n \in Nat /\ n # 0 /\ DOMAIN q = 1 .. n /\ p \in Seq(Events) /\ m \in Nat /\ n - 1 <= m
      /\ DOMAIN p = 1 .. m /\ Head(q) = q[1]
      /\ \A i \in 1 .. m : IF i < n THEN p[i] = q[i + 1] ELSE p[i].type = "Delete"
  <2>1. n \in Nat /\ n # 0 /\ DOMAIN q = 1 .. n /\ Head(q) = q[1]
    BY <1>1
  <2>2. Tail(q) \in Seq(Events) /\ Len(Tail(q)) = n - 1 /\ \A i \in 1 .. n - 1 : Tail(q)[i] = q[i + 1]
    BY <1>1
  <2>. DEFINE t == Tail(q)
  <2>. HIDE DEF t
  <2>3. t \in Seq(Events) /\ Len(t) = n - 1 /\ \A i \in 1 .. n - 1 : t[i] = q[i + 1]
    BY <2>2 DEF t
  <2>4. /\ t \o post \in Seq(Events) /\ Len(t \o post) = Len(t) + Len(post)
        /\ \A i \in 1 .. Len(t) + Len(post) : (t \o post)[i] = IF i <= Len(t) THEN t[i] ELSE post[i - Len(t)]
    BY <1>1, <2>3, ConcatProperties
  <2>5. Len(post) \in Nat /\ \A i \in 1 .. Len(post) : post[i].type = "Delete"
    <3>1. Len(post) \in Nat /\ \A i \in 1 .. Len(post) : post[i] \in Deletes
      BY LenProperties, ElementOfSeq
    <3>. QED BY <3>1 DEF Deletes
  <2>6. p = t \o post
    BY DEF t
  <2>. HIDE DEF p, n
  <2>7. m = n - 1 + Len(post) /\ m \in Nat /\ n - 1 <= m /\ DOMAIN p = 1 .. m /\ p \in Seq(Events)
    BY <2>1, <2>3, <2>4, <2>5, <2>6
  <2>8. \A i \in 1 .. m : IF i < n THEN p[i] = q[i + 1] ELSE p[i].type = "Delete"
    <3>. SUFFICES ASSUME NEW i \in 1 .. m PROVE IF i < n THEN p[i] = q[i + 1] ELSE p[i].type = "Delete"
      OBVIOUS
    <3>1. p[i] = IF i <= n - 1 THEN t[i] ELSE post[i - (n - 1)]
      BY <2>1, <2>3, <2>4, <2>6, <2>7
    <3>2. CASE i < n
      BY <2>1, <2>3, <2>7, <3>1, <3>2
    <3>3. CASE ~(i < n)
      <4>1. i - (n - 1) \in 1 .. Len(post) /\ p[i] = post[i - (n - 1)]
        BY <2>1, <2>5, <2>7, <3>1, <3>3
      <4>. QED BY <2>5, <3>3, <4>1
    <3>. QED BY <3>2, <3>3
  <2>. QED BY <2>1, <2>7, <2>8
<1>3. /\ f \in [0 .. n -> Views] /\ f[0] = v /\ \A i \in 1 .. n : f[i] = Handled(f[i - 1], q[i])
      /\ z = f[n] /\ Caused(f, q) /\ Noted(f, q, missed) /\ Settled(z, q, c)
  BY DEF Leads, Course
<1>. HIDE DEF n, p, m
<1>4. /\ \A i \in 0 .. m : g[i] = IF i < n THEN f[i + 1] ELSE z
      /\ g \in [0 .. m -> Views]
  BY <1>2, <1>3
<1>. HIDE DEF g
<1>5. g[0] = Handled(v, Head(q)) /\ g[m] = z
  BY <1>2, <1>3, <1>4
<1>6. \A i \in 1 .. m : IF i < n THEN g[i - 1] = f[i] /\ g[i] = f[i + 1] ELSE g[i - 1] = z /\ g[i] = z
  BY <1>2, <1>3, <1>4
<1>7. \A i \in 1 .. m : g[i] = Handled(g[i - 1], p[i])
  <2>. SUFFICES ASSUME NEW i \in 1 .. m PROVE g[i] = Handled(g[i - 1], p[i])
    OBVIOUS
  <2>1. CASE i < n
    <3>1. i + 1 \in 1 .. n /\ (i + 1) - 1 = i
      BY <1>2, <2>1
    <3>. QED BY <1>2, <1>3, <1>6, <2>1, <3>1
  <2>2. CASE ~(i < n)
    <3>1. g[i] = z /\ g[i - 1] = z /\ p[i].type = "Delete"
      BY <1>2, <1>6, <2>2
    <3>. QED BY <3>1 DEF Handled
  <2>. QED BY <2>1, <2>2
<1>8. Course(g, Handled(v, Head(q)), p)
  BY <1>4, <1>5, <1>7 DEF Course, m
<1>9. Noted(g, p, missed)
  <2>. SUFFICES ASSUME NEW i \in 1 .. m, NEW s \in Seats, Doubles(g[i - 1], p[i], s) PROVE s \in missed
    BY DEF Noted, m
  <2>1. CASE i < n
    <3>1. i + 1 \in 1 .. n /\ (i + 1) - 1 = i
      BY <1>2, <2>1
    <3>2. Doubles(f[i], q[i + 1], s)
      BY <1>2, <1>6, <2>1
    <3>. QED BY <1>3, <3>1, <3>2 DEF Noted, n
  <2>2. CASE ~(i < n)
    <3>1. p[i].type = "Delete"
      BY <1>2, <2>2
    <3>. QED BY <3>1 DEF Doubles
  <2>. QED BY <2>1, <2>2
<1>10. Settled(z, p, c)
  <2>. SUFFICES ASSUME NEW e, Holds(p, e), e.type = "Value" PROVE ~Asked(z.out, c, e.of)
    BY DEF Settled
  <2>1. PICK i \in 1 .. m : p[i] = e
    BY <1>2 DEF Holds
  <2>2. i < n
    BY <1>2, <2>1
  <2>3. i + 1 \in DOMAIN q /\ q[i + 1] = e
    BY <1>2, <2>1, <2>2
  <2>. QED BY <1>3, <2>3 DEF Settled, Holds
<1>11. Caused(g, p)
  <2>. SUFFICES ASSUME NEW s \in Seats, z.d.up[s], NEW i \in 0 .. m
                PROVE  g[i].d.up[s] \/ \E j \in i + 1 .. m : Causes(z, p[j], s)
    BY <1>5 DEF Caused, m
  <2>1. CASE i < n
    <3>1. i + 1 \in 0 .. n /\ g[i] = f[i + 1]
      BY <1>2, <1>4, <2>1
    <3>2. f[i + 1].d.up[s] \/ \E j \in (i + 1) + 1 .. n : Causes(z, q[j], s)
      BY <1>3, <3>1 DEF Caused, n
    <3>3. ASSUME NEW j \in (i + 1) + 1 .. n, Causes(z, q[j], s) PROVE \E k \in i + 1 .. m : Causes(z, p[k], s)
      <4>1. j - 1 \in i + 1 .. m /\ j - 1 \in 1 .. m /\ j - 1 < n /\ (j - 1) + 1 = j
        BY <1>2, <2>1
      <4>2. p[j - 1] = q[j]
        BY <1>2, <4>1
      <4>. QED BY <3>3, <4>1, <4>2
    <3>. QED BY <3>1, <3>2, <3>3
  <2>2. CASE ~(i < n)
    BY <1>4, <2>2
  <2>. QED BY <2>1, <2>2
<1>12. Leads(g, Handled(v, Head(q)), p, c, missed, z)
  BY <1>5, <1>8, <1>9, <1>10, <1>11 DEF Leads, m
<1>. QED BY <1>12 DEF p

\* Another event: k is what is asked once it was put there, and more what is noted.
LEMMA LeadsMore ==
  ASSUME NEW v, Tracks(v), NEW q, AllFine(v, q), NEW c, NEW missed, NEW z, NEW f, Leads(f, v, q, c, missed, z),
         NEW e, Fine(z, e), NEW k, Basis(z, k), NEW more, missed \subseteq more,
         \A s \in Seats : Doubles(z, e, s) => s \in more,
         \A o : Asked(z.out, k, o) => Asked(z.out, c, o),
         e.type = "Value" => ~Asked(z.out, k, e.of)
  PROVE  \E g : Leads(g, v, Append(q, e), k, more, Handled(z, e))
<1>. DEFINE n == Len(q)
            p == Append(q, e)
            y == Handled(z, e)
            g == [i \in 0 .. n + 1 |-> IF i <= n THEN f[i] ELSE y]
<1>1. e \in Events /\ q \in Seq(Events)
  BY DEF Fine, AllFine
<1>2. /\ DOMAIN q = 1 .. n /\ DOMAIN p = 1 .. n + 1 /\ p \in Seq(Events) /\ Len(p) = n + 1
      /\ p[n + 1] = e /\ \A i \in 1 .. n : p[i] = q[i]
  BY <1>1, AppendProperties, LenProperties
<1>3. /\ f \in [0 .. n -> Views] /\ f[0] = v /\ \A i \in 1 .. n : f[i] = Handled(f[i - 1], q[i])
      /\ z = f[n] /\ Caused(f, q) /\ Noted(f, q, missed) /\ Settled(z, q, c)
  BY DEF Leads, Course
<1>4. n \in Nat /\ Grows(v, z) /\ z \in Views
  BY <1>3, CourseGrows DEF Leads
<1>5. Sequel(z, e, k, y)
  BY HandledSequel
<1>6. y \in Views
  BY HandledGrows DEF Basis, Grows, Tracks
<1>. HIDE DEF n, p, y
<1>7. /\ \A i \in 0 .. n + 1 : g[i] = IF i <= n THEN f[i] ELSE y
      /\ g \in [0 .. n + 1 -> Views]
  BY <1>3, <1>4, <1>6
<1>. HIDE DEF g
<1>8. g[0] = v /\ g[n + 1] = y /\ g[n] = z /\ \A i \in 0 .. n : g[i] = f[i]
  <2>1. \A i \in 0 .. n : g[i] = f[i]
    BY <1>4, <1>7
  <2>2. 0 \in 0 .. n /\ n \in 0 .. n /\ n + 1 \in 0 .. n + 1 /\ ~(n + 1 <= n)
    BY <1>4
  <2>3. g[n + 1] = y
    BY <1>7, <2>2
  <2>. QED BY <1>3, <2>1, <2>2, <2>3
<1>9. \A i \in 1 .. n + 1 : i = n + 1 \/ (i \in 1 .. n /\ g[i] = f[i] /\ g[i - 1] = f[i - 1] /\ p[i] = q[i])
  BY <1>2, <1>4, <1>8
<1>10. (n + 1) - 1 = n
  BY <1>4
<1>11. Course(g, v, p)
  <2>1. \A i \in 1 .. n + 1 : g[i] = Handled(g[i - 1], p[i])
    BY <1>2, <1>3, <1>8, <1>9, <1>10 DEF y
  <2>. QED BY <1>2, <1>7, <1>8, <2>1 DEF Course
<1>12. Noted(g, p, more)
  <2>. SUFFICES ASSUME NEW i \in 1 .. n + 1, NEW s \in Seats, Doubles(g[i - 1], p[i], s) PROVE s \in more
    BY <1>2 DEF Noted
  <2>1. CASE i = n + 1
    BY <1>2, <1>8, <1>10, <2>1
  <2>2. CASE i \in 1 .. n /\ g[i - 1] = f[i - 1] /\ p[i] = q[i]
    BY <1>3, <2>2 DEF Noted, n
  <2>. QED BY <1>9, <2>1, <2>2
<1>13. Settled(y, p, k)
  <2>. SUFFICES ASSUME NEW x, Holds(p, x), x.type = "Value", Asked(y.out, k, x.of) PROVE FALSE
    BY DEF Settled
  <2>1. PICK i \in 1 .. n + 1 : p[i] = x
    BY <1>2 DEF Holds
  <2>2. CASE i = n + 1
    <3>1. x = e /\ e.of \in DOMAIN z.d.watched
      BY <1>2, <2>1, <2>2 DEF Fine
    <3>. QED BY <1>5, <3>1 DEF Sequel
  <2>3. CASE i \in 1 .. n /\ p[i] = q[i]
    <3>1. Holds(q, x)
      BY <1>2, <2>1, <2>3 DEF Holds
    <3>2. x.of \in DOMAIN z.d.watched
      BY <1>4, <3>1 DEF AllFine, Fine, Grows, Grown
    <3>3. Asked(z.out, c, x.of)
      BY <1>5, <3>2 DEF Sequel
    <3>. QED BY <1>3, <3>1, <3>3 DEF Settled
  <2>. QED BY <1>9, <2>2, <2>3
<1>14. Caused(g, p)
  <2>. SUFFICES ASSUME NEW s \in Seats, y.d.up[s], NEW i \in 0 .. n + 1
                PROVE  g[i].d.up[s] \/ \E j \in i + 1 .. n + 1 : Causes(y, p[j], s)
    BY <1>2, <1>8 DEF Caused
  <2>1. CASE i = n + 1
    BY <1>8, <2>1
  <2>2. CASE i # n + 1
    <3>1. i \in 0 .. n /\ g[i] = f[i] /\ n + 1 \in i + 1 .. n + 1
      BY <1>4, <1>8, <2>2
    <3>2. CASE Causes(y, e, s)
      BY <1>2, <3>1, <3>2
    <3>3. CASE z.d.up[s] /\ Watchers(z.d, s) \subseteq Watchers(y.d, s)
      <4>1. f[i].d.up[s] \/ \E j \in i + 1 .. n : Causes(z, q[j], s)
        BY <1>3, <3>1, <3>3 DEF Caused, n
      <4>2. ASSUME NEW j \in i + 1 .. n, Causes(z, q[j], s) PROVE \E l \in i + 1 .. n + 1 : Causes(y, p[l], s)
        <5>1. j \in i + 1 .. n + 1 /\ j \in 1 .. n
          BY <1>4, <3>1
        <5>2. p[j] = q[j]
          BY <1>2, <5>1
        <5>3. Causes(y, q[j], s)
          BY <3>3, <4>2 DEF Causes
        <5>. QED BY <5>1, <5>2, <5>3
      <4>. QED BY <3>1, <4>1, <4>2
    <3>. QED BY <1>5, <3>2, <3>3 DEF Sequel
  <2>. QED BY <2>1, <2>2
<1>15. Leads(g, v, p, k, more, y)
  BY <1>2, <1>8, <1>11, <1>12, <1>13, <1>14 DEF Leads
<1>. QED BY <1>15 DEF p, y

\* The bus reads a message, whatever is on its way to the daemon.
LEMMA LeadsRead ==
  ASSUME NEW v, Tracks(v), NEW q, AllFine(v, q), NEW c \in Seq(Requests), NEW missed, NEW z, NEW f,
         Leads(f, v, q, c, missed, z), NEW m, Unread(v, m)
  PROVE  Unread(z, m) /\ \E g : Leads(g, Read(v), q, CallsAfter(c, m), missed, Read(z))
<1>. DEFINE n == Len(q)
            g == [i \in 0 .. n |-> Read(f[i])]
<1>1. /\ f \in [0 .. n -> Views] /\ f[0] = v /\ \A i \in 1 .. n : f[i] = Handled(f[i - 1], q[i])
      /\ z = f[n] /\ Caused(f, q) /\ Noted(f, q, missed) /\ Settled(z, q, c)
  BY DEF Leads, Course
<1>2. /\ n \in Nat /\ \A i \in 0 .. n : Tracks(f[i])
      /\ \A i \in 1 .. n : Fine(f[i - 1], q[i])
  BY CourseGrows DEF Leads, Grows
<1>. HIDE DEF n
<1>3. \A i \in 0 .. n : Unread(f[i], m)
  <2>. DEFINE B == {i \in 0 .. n : Unread(f[i], m)}
  <2>1. 0 \in B
    BY <1>1, <1>2
  <2>2. \A i \in 1 .. n : i - 1 \in B => i \in B
    <3>. SUFFICES ASSUME NEW i \in 1 .. n, Unread(f[i - 1], m) PROVE i \in 0 .. n /\ Unread(f[i], m)
      BY DEF B
    <3>1. i \in 0 .. n /\ i - 1 \in 0 .. n
      BY <1>2
    <3>2. Tracks(f[i - 1]) /\ Fine(f[i - 1], q[i]) /\ f[i] = Handled(f[i - 1], q[i])
      BY <1>1, <1>2, <3>1
    <3>. QED BY <3>1, <3>2, ReadHandled
  <2>. HIDE DEF B
  <2>3. \A i \in 0 .. n : i \in B
    BY <1>2, <2>1, <2>2, Counting
  <2>. QED BY <2>3 DEF B
<1>4. /\ \A i \in 0 .. n : g[i] = Read(f[i]) /\ g[i].d = f[i].d
      /\ g \in [0 .. n -> Views]
  <2>1. \A i \in 0 .. n : Read(f[i]) \in Views /\ Read(f[i]).d = f[i].d
    BY <1>3, ReadIs
  <2>. QED BY <2>1
<1>. HIDE DEF g
<1>5. n \in 0 .. n /\ 0 \in 0 .. n
  BY <1>2
<1>6. Unread(z, m) /\ g[n] = Read(z) /\ g[0] = Read(v) /\ Read(z).d = z.d
  BY <1>1, <1>3, <1>4, <1>5
<1>7. \A i \in 1 .. n : i - 1 \in 0 .. n /\ i \in 0 .. n
  BY <1>2
<1>8. Course(g, Read(v), q)
  <2>1. ASSUME NEW i \in 1 .. n PROVE g[i] = Handled(g[i - 1], q[i])
    <3>. DEFINE x == f[i - 1]
                e == q[i]
    <3>1. Tracks(x) /\ Fine(x, e) /\ Unread(x, m) /\ f[i] = Handled(x, e)
      BY <1>1, <1>2, <1>3, <1>7
    <3>2. g[i] = Read(f[i]) /\ g[i - 1] = Read(x)
      BY <1>4, <1>7
    <3>. HIDE DEF x, e
    <3>3. Handled(Read(x), e) = Read(Handled(x, e))
      BY <3>1, ReadHandled
    <3>4. g[i] = Handled(g[i - 1], e)
      BY <3>1, <3>2, <3>3
    <3>. QED BY <3>4 DEF e
  <2>. QED BY <1>4, <1>6, <2>1 DEF Course, n
<1>9. Noted(g, q, missed)
  <2>. SUFFICES ASSUME NEW i \in 1 .. n, NEW s \in Seats, Doubles(g[i - 1], q[i], s) PROVE s \in missed
    BY DEF Noted, n
  <2>1. g[i - 1].d = f[i - 1].d
    BY <1>4, <1>7
  <2>2. Doubles(f[i - 1], q[i], s)
    BY <2>1 DEF Doubles, Lost, News
  <2>. QED BY <1>1, <2>2 DEF Noted, n
<1>10. Caused(g, q)
  <2>1. \A e, s : Causes(Read(z), e, s) <=> Causes(z, e, s)
    BY <1>6 DEF Causes
  <2>. SUFFICES ASSUME NEW s \in Seats, z.d.up[s], NEW i \in 0 .. n
                PROVE  g[i].d.up[s] \/ \E j \in i + 1 .. n : Causes(Read(z), q[j], s)
    BY <1>6 DEF Caused, n
  <2>2. f[i].d.up[s] \/ \E j \in i + 1 .. n : Causes(z, q[j], s)
    BY <1>1 DEF Caused, n
  <2>. QED BY <1>4, <2>1, <2>2
<1>11. Settled(Read(z), q, CallsAfter(c, m))
  <2>1. z.out \in Seq(Messages) /\ z.out # <<>> /\ Head(z.out) = m /\ Read(z).out = Tail(z.out)
    BY <1>6, ReadIs DEF Unread
  <2>2. \A x : Holds(z.out, x) <=> x = m \/ Holds(Tail(z.out), x)
    BY <2>1, HoldsTail
  <2>3. \A x : Holds(CallsAfter(c, m), x) => Holds(c, x) \/ x = m
    BY AppendIs DEF CallsAfter
  <2>4. \A o : Asked(Read(z).out, CallsAfter(c, m), o) => Asked(z.out, c, o)
    BY <2>1, <2>2, <2>3 DEF Asked
  <2>. QED BY <1>1, <2>4 DEF Settled
<1>12. Leads(g, Read(v), q, CallsAfter(c, m), missed, Read(z))
  BY <1>6, <1>8, <1>9, <1>10, <1>11 DEF Leads, n
<1>. QED BY <1>6, <1>12

-----------------------------------------------------------------------------
(* What the daemon comes to fits logind, at every step *)

\* What is known of a view with its queue and the questions to logind.
Ground(v, q, c) ==
  /\ Tracks(v) /\ Knows(v) /\ AllFine(v, q) /\ c \in Seq(Requests)
  /\ \A m : Holds(c, m) => Known(v.d.watched, m)

\* Once its queue is handled, the daemon fits the seats and what is noted of them (y).
OnCourse(v, q, c, y, R) ==
  /\ InStep(v)
  /\ \E f, z : Leads(f, v, q, c, y.missed, z) /\ Fits(z, y.seats, R, c, y.missed)

\* Where a way leads more objects are known and the rest is as it was.
LEMMA WayLeads ==
  ASSUME NEW v, NEW q, NEW c, Ground(v, q, c), InStep(v), NEW f, NEW missed, NEW z, Leads(f, v, q, c, missed, z)
  PROVE  /\ Basis(z, c) /\ Grows(v, z) /\ z \in Views /\ Tracks(z)
         /\ Tracks(v) /\ AllFine(v, q) /\ Settled(z, q, c)
<1>1. Tracks(v) /\ AllFine(v, q) /\ Basis(v, c)
  BY DEF Ground, Basis
<1>2. Course(f, v, q) /\ z = f[Len(q)] /\ Settled(z, q, c)
  BY DEF Leads
<1>3. Grows(v, z)
  BY <1>1, <1>2, CourseGrows
<1>4. Basis(z, c)
  BY <1>1, <1>3, BasisGrows
<1>. QED BY <1>1, <1>2, <1>3, <1>4 DEF Basis, Tracks

\* The daemon handles an event.
LEMMA CourseHandled ==
  ASSUME NEW v, NEW q, NEW c, Ground(v, q, c), NEW y, NEW R, OnCourse(v, q, c, y, R), q # <<>>,
         NEW post \in Seq(Deletes)
  PROVE  OnCourse(Handled(v, Head(q)), Tail(q) \o post, c, y, R)
<1>. DEFINE x == Handled(v, Head(q))
            p == Tail(q) \o post
<1>1. PICK f, z : Leads(f, v, q, c, y.missed, z) /\ Fits(z, y.seats, R, c, y.missed)
  BY DEF OnCourse
<1>2. Tracks(v) /\ AllFine(v, q) /\ InStep(v)
  BY DEF Ground, OnCourse
<1>3. \E g : Leads(g, x, p, c, y.missed, z)
  BY <1>1, <1>2, LeadsOn
<1>4. Grows(v, x)
  <2>1. q \in Seq(Events)
    BY <1>2 DEF AllFine
  <2>2. Holds(q, Head(q))
    BY <2>1, HoldsTail
  <2>3. Fine(v, Head(q))
    BY <1>2, <2>2 DEF AllFine
  <2>. QED BY <1>2, <2>3, HandledGrows
<1>. HIDE DEF x, p
<1>5. OnCourse(x, p, c, y, R)
  BY <1>1, <1>2, <1>3, <1>4 DEF OnCourse, Grows
<1>. QED BY <1>5 DEF x, p

\* The bus reads a message.
LEMMA CourseRead ==
  ASSUME NEW v, NEW q, NEW c, Ground(v, q, c), NEW y, NEW R, OnCourse(v, q, c, y, R), NEW m, Unread(v, m)
  PROVE  OnCourse(Read(v), q, CallsAfter(c, m), y, RulesAfter(R, m))
<1>. DEFINE x == Read(v)
            k == CallsAfter(c, m)
            N == RulesAfter(R, m)
<1>1. PICK f, z : Leads(f, v, q, c, y.missed, z) /\ Fits(z, y.seats, R, c, y.missed)
  BY DEF OnCourse
<1>2. InStep(v) /\ c \in Seq(Requests)
  BY DEF Ground, OnCourse
<1>3. Tracks(v) /\ AllFine(v, q) /\ Tracks(z)
  BY <1>1, <1>2, WayLeads
<1>4. Unread(z, m) /\ \E g : Leads(g, x, q, k, y.missed, Read(z))
  BY <1>1, <1>2, <1>3, LeadsRead
<1>5. z.out # <<>> /\ Head(z.out) = m
  BY <1>4 DEF Unread
<1>6. Fits(Read(z), y.seats, N, k, y.missed)
  BY <1>1, <1>2, <1>3, <1>5, ReadFits
<1>7. InStep(x)
  BY <1>2 DEF InStep, Lost, Read
<1>. HIDE DEF x, k, N
<1>8. OnCourse(x, q, k, y, N)
  BY <1>4, <1>6, <1>7 DEF OnCourse
<1>. QED BY <1>8 DEF x, k, N

\* What an answer says of a seat that runs already is no news.
LEMMA NoDouble ==
  ASSUME NEW z, InStep(z), NEW e, e.type = "Value", NEW s \in Seats, Doubles(z, e, s), e.of \in DOMAIN z.d.watched,
         e.value \in BOOLEAN
  PROVE  FALSE
<1>1. /\ z.d.up[s] /\ ~Lost(z, s) /\ e.value
      /\ z.d.watched[e.of].alive /\ z.d.watched[e.of].graphical # e.value /\ z.d.watched[e.of].seat = s
  BY DEF Doubles, News
<1>2. e.of \in Watchers(z.d, s)
  BY <1>1 DEF Watchers
<1>3. z.d.systemSeats[s] = e.of
  BY <1>1, <1>2 DEF Lost
<1>4. z.d.watched[e.of].graphical
  BY <1>1, <1>3 DEF InStep
<1>. QED BY <1>1, <1>4

\* Logind answers a question.
LEMMA CourseAnswered ==
  ASSUME NEW v, NEW q, NEW c, Ground(v, q, c), NEW y, NEW R, OnCourse(v, q, c, y, R), c # <<>>,
         Head(c).type = "Get", NEW e \in Events, e.type = "Value", e.of = Head(c).of,
         e.valid <=> y.seats[Head(c).seat].present, e.value <=> y.seats[Head(c).seat].graphical
  PROVE  OnCourse(v, Append(q, e), Tail(c), y, R)
<1>1. PICK f, z : Leads(f, v, q, c, y.missed, z) /\ Fits(z, y.seats, R, c, y.missed)
  BY DEF OnCourse
<1>2. InStep(v) /\ c \in Seq(Requests)
  BY DEF Ground, OnCourse
<1>3. Tracks(v) /\ AllFine(v, q) /\ Basis(z, c)
  BY <1>1, <1>2, WayLeads
<1>. DEFINE k == Tail(c)
            m == Head(c)
            x == Handled(z, e)
            p == Append(q, e)
            o == e.of
<1>4. e.value \in BOOLEAN
  BY DEF Events, Deletes
<1>5. /\ \A i : Holds(k, i) => Holds(c, i)
      /\ \A i : IsGet(m, i) => ~Asked(z.out, k, i)
      /\ Holds(c, m)
  <2>1. AskedOnce(z.out, c)
    BY <1>1 DEF Fits
  <2>2. Holds(c, m)
    BY <1>2, HoldsTail
  <2>. QED BY <1>2, <2>1, <2>2, OneAnswered
<1>6. Fits(x, y.seats, R, k, y.missed)
  BY <1>1, <1>2, <1>3, <1>4, AnswerFits
<1>. HIDE DEF k, m
<1>7. Basis(z, k) /\ \A i : Asked(z.out, k, i) => Asked(z.out, c, i)
  BY <1>3, <1>5 DEF Basis, Asked
<1>8. Fine(z, e) /\ o \in DOMAIN z.d.watched
  BY <1>3, <1>5 DEF Basis, Known, Fine, m
<1>9. InStep(z)
  BY <1>3 DEF Basis
<1>10. \A s \in Seats : Doubles(z, e, s) => s \in y.missed
  BY <1>4, <1>8, <1>9, NoDouble
<1>11. ~Asked(z.out, k, o)
  BY <1>5 DEF IsGet, m
<1>. HIDE DEF o
<1>. DEFINE missed == y.missed
<1>12. missed \subseteq missed /\ Leads(f, v, q, c, missed, z)
  BY <1>1
<1>. HIDE DEF missed
<1>13. \A s \in Seats : Doubles(z, e, s) => s \in missed
  BY <1>10 DEF missed
<1>14. \E g : Leads(g, v, p, k, missed, x)
  BY <1>3, <1>7, <1>8, <1>11, <1>12, <1>13, LeadsMore DEF o
<1>. HIDE DEF x, p
<1>15. OnCourse(v, p, k, y, R)
  BY <1>2, <1>6, <1>14 DEF OnCourse, missed
<1>. QED BY <1>15 DEF k, p

\* Logind answers with the seats that are there.
LEMMA CourseListed ==
  ASSUME NEW v, NEW q, NEW c, Ground(v, q, c), NEW y, NEW R, OnCourse(v, q, c, y, R), c # <<>>,
         Head(c).type = "ListSeats", NEW e \in Events, e.type = "Seats",
         e.seats \in Seq({s \in Seats : y.seats[s].present})
  PROVE  OnCourse(v, Append(q, e), Tail(c), y, R)
<1>1. PICK f, z : Leads(f, v, q, c, y.missed, z) /\ Fits(z, y.seats, R, c, y.missed)
  BY DEF OnCourse
<1>2. InStep(v) /\ c \in Seq(Requests)
  BY DEF Ground, OnCourse
<1>3. Tracks(v) /\ AllFine(v, q) /\ Basis(z, c)
  BY <1>1, <1>2, WayLeads
<1>. DEFINE k == Tail(c)
            m == Head(c)
            x == Handled(z, e)
            p == Append(q, e)
            missed == y.missed
            l == e.seats
<1>4. /\ \A i : Holds(k, i) => Holds(c, i)
      /\ \A i : Asked(z.out, c, i) /\ ~IsGet(m, i) => Asked(z.out, k, i)
      /\ AskedOnce(z.out, k)
  <2>1. AskedOnce(z.out, c)
    BY <1>1 DEF Fits
  <2>. QED BY <1>2, <2>1, OneAnswered
<1>. HIDE DEF k
<1>5. \A i : Asked(z.out, c, i) => Asked(z.out, k, i)
  BY <1>4 DEF IsGet
<1>6. Fits(z, y.seats, R, k, missed)
  BY <1>1, <1>4, <1>5, FitsAsWell
<1>7. Basis(z, k) /\ \A i : Asked(z.out, k, i) => Asked(z.out, c, i)
  BY <1>3, <1>4 DEF Basis, Asked
<1>. HIDE DEF missed, l
<1>8. l \in Seq({s \in Seats : y.seats[s].present})
  BY DEF l
<1>9. Fits(SeatsAdded(z, l), y.seats, R, k, missed)
  BY <1>6, <1>7, <1>8, ListFits
<1>10. x = SeatsAdded(z, l)
  BY DEF Handled, l
<1>. HIDE DEF x, p
<1>11. /\ Fine(z, e) /\ missed \subseteq missed /\ Leads(f, v, q, c, missed, z)
       /\ e.type # "Value" /\ \A s \in Seats : Doubles(z, e, s) => s \in missed
  BY <1>1 DEF Fine, Doubles, missed
<1>12. \E g : Leads(g, v, p, k, missed, x)
  BY <1>3, <1>7, <1>11, LeadsMore DEF x, p
<1>13. Fits(x, y.seats, R, k, missed)
  BY <1>9, <1>10
<1>14. OnCourse(v, p, k, y, R)
  BY <1>2, <1>12, <1>13 DEF OnCourse, missed
<1>. QED BY <1>14 DEF k, p

\* Logind's seat s changes to what u says, of which e is told under a rule in effect.
Tells(w, u, s, e, R) ==
  \/ e.type = "SeatNew" /\ Manager \in R /\ ~w[s].present /\ u[s].present
  \/ e.type = "SeatRemoved" /\ Manager \in R /\ ~u[s].present
  \/ /\ e.type = "Changed" /\ s \in R /\ w[s].present /\ u[s].present
     /\ (u[s].graphical <=> e.value) /\ (u[s].graphical <=> ~w[s].graphical)

\* A change the daemon is told of.
LEMMA CourseTold ==
  ASSUME NEW v, NEW q, NEW c, Ground(v, q, c), NEW y, NEW R, OnCourse(v, q, c, y, R), NEW s \in Seats,
         NEW n, n.missed = y.missed, \A t \in Seats : t # s => n.seats[t] = y.seats[t],
         NEW e \in Events, e.of = s, Tells(y.seats, n.seats, s, e, R)
  PROVE  OnCourse(v, Append(q, e), c, n, R)
<1>1. PICK f, z : Leads(f, v, q, c, y.missed, z) /\ Fits(z, y.seats, R, c, y.missed)
  BY DEF OnCourse
<1>2. InStep(v)
  BY DEF OnCourse
<1>3. Tracks(v) /\ AllFine(v, q) /\ Basis(z, c) /\ Tracks(z)
  BY <1>1, <1>2, WayLeads
<1>. DEFINE x == Handled(z, e)
            p == Append(q, e)
            w == y.seats
            u == n.seats
            missed == y.missed
<1>4. \A t \in Seats : t # s => u[t] = w[t]
  OBVIOUS
<1>5. Tells(w, u, s, e, R) /\ Fits(z, w, R, c, missed)
  BY <1>1
<1>6. e.type = "Changed" => e.value \in BOOLEAN
  BY DEF Events, Deletes
<1>. HIDE DEF w, u, missed
<1>7. Fits(x, u, R, c, missed)
  <2>1. CASE e.type = "SeatNew" /\ Manager \in R /\ ~w[s].present /\ u[s].present
    <3>1. Fits(LogindSeatAdded(z, s), u, R, c, missed)
      BY <1>3, <1>4, <1>5, <2>1, NewFits
    <3>. QED BY <2>1, <3>1 DEF Handled
  <2>2. CASE e.type = "SeatRemoved" /\ Manager \in R /\ ~u[s].present
    <3>1. Fits(Gone(z, s), u, R, c, missed)
      BY <1>3, <1>4, <1>5, <2>2, GoneFits
    <3>. QED BY <2>2, <3>1 DEF Handled
  <2>3. CASE e.type = "Changed" /\ s \in R /\ w[s].present /\ u[s].present /\ (u[s].graphical <=> e.value)
    <3>. DEFINE g == e.value
    <3>1. g \in BOOLEAN /\ (u[s].graphical <=> g)
      BY <1>6, <2>3
    <3>. HIDE DEF g
    <3>2. Fits(Changed(z, s, g), u, R, c, missed)
      BY <1>3, <1>4, <1>5, <2>3, <3>1, ChangedFits
    <3>3. x = Changed(z, s, g)
      BY <2>3 DEF Handled, g
    <3>. QED BY <3>2, <3>3
  <2>. QED BY <1>5, <2>1, <2>2, <2>3 DEF Tells
<1>8. \A t \in Seats : Doubles(z, e, t) => t \in missed
  <2>. SUFFICES ASSUME NEW t \in Seats, Doubles(z, e, t) PROVE t \in missed
    OBVIOUS
  <2>1. e.type = "Changed" /\ t = s /\ z.d.up[s] /\ ~Lost(z, s) /\ e.value
    BY <1>5 DEF Doubles, Tells
  <2>2. ~w[s].graphical
    BY <1>5, <2>1 DEF Tells
  <2>3. NotLate(z, w, missed, s)
    BY <1>5 DEF Fits, SeatFits
  <2>. QED BY <2>1, <2>2, <2>3 DEF NotLate
<1>9. /\ Fine(z, e) /\ missed \subseteq missed /\ Leads(f, v, q, c, missed, z) /\ e.type # "Value"
      /\ \A o : Asked(z.out, c, o) => Asked(z.out, c, o)
  BY <1>1, <1>5 DEF Fine, Tells, missed
<1>. HIDE DEF x, p
<1>10. \E g : Leads(g, v, p, c, missed, x)
  BY <1>3, <1>8, <1>9, LeadsMore DEF x, p
<1>11. OnCourse(v, p, c, n, R)
  BY <1>2, <1>7, <1>10 DEF OnCourse, missed, u
<1>. QED BY <1>11 DEF p

\* What the daemon holds, or will, of a seat's being graphical.
KnownIn(v, q, s) ==
  \/ v.d.systemSeats[s] # 0 /\ v.d.watched[v.d.systemSeats[s]].graphical
  \/ Holds(q, [type |-> "Changed", of |-> s, value |-> TRUE])

\* Who will run, and whose rule is out of effect, is known already.
LEMMA KnownBefore ==
  ASSUME NEW v, NEW q, NEW c, Ground(v, q, c), InStep(v), NEW f, NEW missed, NEW z, Leads(f, v, q, c, missed, z),
         NEW s \in Seats, NEW R, Telling(z, R, s), s \notin R, z.d.up[s], ~Lost(z, s)
  PROVE  KnownIn(v, q, s)
<1>1. Grows(v, z) /\ Settled(z, q, c) /\ AllFine(v, q)
  BY WayLeads
<1>2. z = f[Len(q)] /\ f[0] = v /\ Caused(f, q)
  BY DEF Leads, Course
<1>3. Len(q) \in Nat /\ q \in Seq(Events) /\ DOMAIN q = 1 .. Len(q)
  BY <1>1, LenProperties DEF AllFine
<1>4. ~Lost(v, s)
  BY <1>1 DEF Grows
<1>5. v.d.up[s] \/ \E j \in 0 + 1 .. Len(q) : Causes(z, q[j], s)
  <2>1. 0 \in 0 .. Len(q)
    BY <1>3
  <2>. QED BY <1>2, <2>1 DEF Caused
<1>6. CASE v.d.up[s]
  BY <1>4, <1>6 DEF InStep, KnownIn
<1>7. ASSUME NEW j \in 0 + 1 .. Len(q), Causes(z, q[j], s) PROVE KnownIn(v, q, s)
  <2>. DEFINE e == q[j]
  <2>1. j \in DOMAIN q /\ e \in Events /\ Holds(q, e)
    BY <1>3 DEF Holds
  <2>2. Causes(z, e, s)
    BY <1>7
  <2>. HIDE DEF e
  <2>3. CASE e.type = "Changed" /\ e.of = s /\ e.value
    <3>1. e = [type |-> "Changed", of |-> s, value |-> TRUE]
      BY <2>1, <2>3 DEF Events, Deletes
    <3>. QED BY <2>1, <3>1 DEF KnownIn
  <2>4. CASE e.type = "Value" /\ e.of \in Watchers(z.d, s)
    <3>. DEFINE o == e.of
    <3>1. Subscribed(z.out, R, s, o)
      BY <2>4 DEF Telling
    <3>2. Asked(z.out, c, o)
      BY <3>1, NotYetRead
    <3>. QED BY <1>1, <2>1, <2>4, <3>2 DEF Settled
  <2>. QED BY <2>2, <2>3, <2>4 DEF Causes
<1>. QED BY <1>5, <1>6, <1>7

\* A change the daemon is not told of.
LEMMA CourseUntold ==
  ASSUME NEW v, NEW q, NEW c, Ground(v, q, c), NEW y, NEW R, OnCourse(v, q, c, y, R), NEW s \in Seats,
         NEW n, \A t \in Seats : t # s => n.seats[t] = y.seats[t],
         \/ Manager \notin R /\ n.missed = y.missed
         \/ /\ s \notin R /\ y.seats[s].present /\ n.seats[s].present
            /\ (n.seats[s].graphical <=> ~y.seats[s].graphical)
            /\ y.missed \subseteq n.missed /\ (y.seats[s].graphical /\ KnownIn(v, q, s) => s \in n.missed)
  PROVE  OnCourse(v, q, c, n, R)
<1>1. PICK f, z : Leads(f, v, q, c, y.missed, z) /\ Fits(z, y.seats, R, c, y.missed)
  BY DEF OnCourse
<1>2. InStep(v)
  BY DEF OnCourse
<1>3. Tracks(z)
  BY <1>1, <1>2, WayLeads
<1>. DEFINE w == y.seats
            u == n.seats
            missed == y.missed
            more == n.missed
<1>4. /\ \A t \in Seats : t # s => u[t] = w[t]
      /\ Leads(f, v, q, c, missed, z) /\ Fits(z, w, R, c, missed)
      /\ \/ Manager \notin R /\ more = missed
         \/ /\ s \notin R /\ w[s].present /\ u[s].present /\ (u[s].graphical <=> ~w[s].graphical)
            /\ missed \subseteq more /\ (w[s].graphical /\ KnownIn(v, q, s) => s \in more)
  BY <1>1
<1>. HIDE DEF w, u, missed, more
<1>5. Fits(z, u, R, c, more)
  <2>1. CASE Manager \notin R /\ more = missed
    BY <1>3, <1>4, <2>1, UntoldComing
  <2>2. CASE /\ s \notin R /\ w[s].present /\ u[s].present /\ (u[s].graphical <=> ~w[s].graphical)
             /\ missed \subseteq more /\ (w[s].graphical /\ KnownIn(v, q, s) => s \in more)
    <3>1. Telling(z, R, s)
      BY <1>4 DEF Fits, SeatFits
    <3>2. z.d.up[s] /\ ~Lost(z, s) /\ w[s].graphical => s \in more
      BY <1>2, <1>4, <2>2, <3>1, KnownBefore
    <3>. QED BY <1>3, <1>4, <2>2, <3>2, UntoldChange
  <2>. QED BY <1>4, <2>1, <2>2
<1>6. Leads(f, v, q, c, more, z)
  BY <1>4 DEF Leads, Noted
<1>. QED BY <1>2, <1>5, <1>6 DEF OnCourse, u, more

\* A second Seat that the first event will make is noted.
LEMMA FirstNoted ==
  ASSUME NEW v, NEW q \in Seq(Events), q # <<>>, NEW c, NEW y, NEW R, OnCourse(v, q, c, y, R),
         NEW s \in Seats, Doubles(v, Head(q), s)
  PROVE  s \in y.missed
<1>1. PICK f, z : Leads(f, v, q, c, y.missed, z)
  BY DEF OnCourse
<1>. DEFINE e == Head(q)
            missed == y.missed
            n == Len(q)
<1>2. e = q[1] /\ n \in Nat /\ n # 0
  OBVIOUS
<1>3. f[0] = v /\ \A i \in 1 .. n, t \in Seats : Doubles(f[i - 1], q[i], t) => t \in missed
  BY <1>1 DEF Leads, Course, Noted
<1>4. Doubles(v, e, s)
  OBVIOUS
<1>. HIDE DEF e, missed, n
<1>5. 1 \in 1 .. n /\ 1 - 1 = 0
  BY <1>2
<1>6. s \in missed
  BY <1>2, <1>3, <1>4, <1>5
<1>. QED BY <1>6 DEF missed

-----------------------------------------------------------------------------
(* The invariant *)

\* A daemon that follows a seat service, and one that has nothing to do with it.
Working == Running /\ ~system.testing /\ HasSeatService(system.service)
Idle == out = <<>> /\ rules = {} /\ calls = <<>> /\ events = <<>>

\* A name has one Seat, unless an object was lost or a change was missed.
Named(d, q, sent, missed) == \A s \in Seats : Lost(View(d, sent), s) \/ s \in missed \/ SeatKept(d, q, s)

\* The inductive invariant: the daemon and its queue are sane, and what handling
\* the queue leads to fits what logind's seats are.
Sound ==
  /\ Kept
  /\ Working \/ Idle
  /\ Working => OnCourse(View(daemon, out), events, calls, system, rules)
  /\ daemon.pc = "starting" => daemon = NewDaemon
  /\ \A s \in Seats : ~system.seats[s].present => ~system.seats[s].graphical
  /\ Named(daemon, events, out, system.missed)

\* What Kept says of a view, its queue and the questions.
LEMMA Grounded ==
  ASSUME Kept
  PROVE  /\ Ground(View(daemon, out), events, calls)
         /\ daemon \in Daemons /\ out \in Seq(Messages) /\ events \in Seq(Events) /\ calls \in Seq(Requests)
<1>. DEFINE v == View(daemon, out)
<1>1. daemon \in Daemons /\ out \in Seq(Messages) /\ events \in Seq(Events) /\ calls \in Seq(Requests)
  BY DEF Kept, Sane, DaemonOK, QueueOK
<1>2. Tracks(v) /\ v.d.watched = daemon.watched
  BY <1>1, ViewTracks, ViewIs DEF Kept
<1>3. Knows(v)
  BY DEF Kept
<1>. HIDE DEF v
<1>4. \A e : Holds(events, e) => e \in Events
  BY <1>1 DEF Holds
<1>5. AllFine(v, events)
  BY <1>1, <1>2, <1>4 DEF AllFine, Fine, Kept
<1>6. Ground(v, events, calls)
  BY <1>1, <1>2, <1>3, <1>5 DEF Ground, Kept
<1>. QED BY <1>1, <1>6 DEF v

\* At the start.
LEMMA SoundFirst ==
  ASSUME Init
  PROVE  Sound
<1>1. Kept
  BY KeptFirst
<1>2. daemon = NewDaemon /\ daemon.pc = "starting" /\ Idle
  BY DEF Init, NewDaemon, Idle
<1>3. ~Working
  BY <1>2 DEF Working, Running
<1>4. \A s \in Seats : ~system.seats[s].present => ~system.seats[s].graphical
  <2>. DEFINE plugs == {Unplugged, [present |-> TRUE, graphical |-> FALSE], [present |-> TRUE, graphical |-> TRUE]}
  <2>1. \A p \in plugs : ~p.present => ~p.graphical
    BY DEF Unplugged
  <2>2. system.seats \in [Seats -> plugs]
    BY DEF Init
  <2>. HIDE DEF plugs
  <2>. QED BY <2>1, <2>2
<1>5. Named(daemon, events, out, system.missed)
  <2>1. daemon = [NewDaemon EXCEPT !.pc = "starting"]
    BY <1>2 DEF NewDaemon
  <2>2. \A s \in Seats : SeatKept(daemon, events, s)
    BY <1>2, <2>1, NothingMade DEF Idle
  <2>. QED BY <2>2 DEF Named
<1>. QED BY <1>1, <1>2, <1>3, <1>4, <1>5 DEF Sound

\* The daemon handles an event.
LEMMA SoundHandling ==
  ASSUME Sound, Handling
  PROVE  Sound'
<1>. DEFINE e == Head(events)
            r == Outcome(daemon, out, e)
            v == View(daemon, out)
            y == View(daemon', out')
            t == Tail(events)
<1>1. /\ daemon' = r.d /\ out' = r.out /\ events' = t \o r.post /\ events # <<>>
      /\ UNCHANGED <<system, rules, calls>> /\ Kept
  BY DEF Handling, Sound
<1>2. Kept' /\ Follows(daemon, events, out, r) /\ Grows(v, y)
  BY <1>1, HandlingKeeps
<1>3. /\ r.post \in Seq(Deletes) /\ r.d.pc = daemon.pc /\ View(r.d, r.out) = Handled(v, e)
      /\ \A s \in Seats : SeatKept(daemon, events, s) /\ ~Lost(v, s) /\ ~Doubles(v, e, s) =>
                            SeatKept(r.d, t \o r.post, s)
  BY <1>2 DEF Follows
<1>4. y = Handled(v, e) /\ daemon'.pc = daemon.pc
  BY <1>1, <1>3
<1>5. Working
  BY <1>1 DEF Sound, Idle
<1>6. Ground(v, events, calls) /\ events \in Seq(Events) /\ OnCourse(v, events, calls, system, rules)
  BY <1>1, <1>5, Grounded DEF Sound
<1>7. OnCourse(Handled(v, e), t \o r.post, calls, system, rules)
  BY <1>1, <1>3, <1>6, CourseHandled
<1>8. \A s \in Seats : Doubles(v, e, s) => s \in system.missed
  BY <1>1, <1>6, FirstNoted
<1>9. Named(daemon', events', out', system'.missed)
  <2>. SUFFICES ASSUME NEW s \in Seats PROVE Lost(y, s) \/ s \in system'.missed \/ SeatKept(daemon', events', s)
    BY DEF Named
  <2>1. Lost(v, s) \/ s \in system.missed \/ SeatKept(daemon, events, s)
    BY DEF Sound, Named
  <2>2. Lost(v, s) => Lost(y, s)
    BY <1>2 DEF Grows
  <2>. HIDE DEF r, v, y, e, t
  <2>. QED BY <1>1, <1>3, <1>8, <2>1, <2>2
<1>. HIDE DEF r, v, e, t
<1>10. OnCourse(y, events', calls', system', rules')
  BY <1>1, <1>4, <1>7
<1>11. Working' /\ daemon'.pc # "starting"
  BY <1>1, <1>4, <1>5 DEF Working, Running
<1>12. \A s \in Seats : ~system'.seats[s].present => ~system'.seats[s].graphical
  BY <1>1 DEF Sound
<1>. QED BY <1>2, <1>9, <1>10, <1>11, <1>12 DEF Sound

\* The constructor of DaemonApp.
LEMMA SoundStart ==
  ASSUME Sound, Start
  PROVE  Sound'
<1>. DEFINE run == [NewDaemon EXCEPT !.pc = "running"]
<1>1. Kept' /\ daemon.pc = "starting" /\ UNCHANGED <<rules, calls, events>>
  BY StartKeeps DEF Start, Sound
<1>2. Idle
  BY <1>1 DEF Sound, Working, Running
<1>3. [daemon EXCEPT !.pc = "running"] = run
  BY <1>1 DEF Sound
<1>4. PICK service \in IF system.service = "activatable" THEN {"consoleKit", "none"} ELSE {system.service} :
        /\ system' = [system EXCEPT !.service = service]
        /\ IF system.testing \/ ~HasSeatService(service)
             THEN daemon' = CreateSeat(run, "seat0") /\ UNCHANGED out
             ELSE daemon' = run /\ out' = FetchSeats
  BY <1>3 DEF Start
<1>5. /\ Sane(run, <<>>) /\ \A s \in Seats : SeatKept(run, <<>>, s)
      /\ run.watched = <<>> /\ run.systemSeats = [s \in Seats |-> 0] /\ run.seats = [s \in Seats |-> 0]
      /\ run.pc = "running"
  BY NothingMade
<1>. HIDE DEF run
<1>6. /\ system'.service = service /\ system'.seats = system.seats /\ system'.missed = system.missed
      /\ system'.testing = system.testing
  <2>1. system \in Systems
    BY DEF Sound, Kept
  <2>. QED BY <1>4, <2>1 DEF Systems
<1>7. \A s \in Seats : ~system'.seats[s].present => ~system'.seats[s].graphical
  BY <1>6 DEF Sound
<1>8. CASE /\ system.testing \/ ~HasSeatService(service)
           /\ daemon' = CreateSeat(run, "seat0") /\ UNCHANGED out
  <2>1. "seat0" \in Seats
    BY SeatManagerAssumption DEF SeatManagerAssumption
  <2>2. run.seats["seat0"] = 0
    BY <1>5, <2>1
  <2>3. \A s \in Seats : SeatKept(daemon', <<>>, s)
    BY <1>5, <1>8, <2>1, <2>2, CreateSeatKeeps
  <2>4. events' = <<>> /\ Idle'
    BY <1>1, <1>2, <1>8 DEF Idle
  <2>5. Named(daemon', events', out', system'.missed)
    BY <2>3, <2>4 DEF Named
  <2>6. daemon'.pc = "running"
    <3>1. run \in Daemons
      BY <1>5 DEF Sane, DaemonOK
    <3>. QED BY <1>5, <1>8, <2>1, <3>1, CreateSeatIs
  <2>7. ~Working'
    BY <1>6, <1>8 DEF Working
  <2>8. daemon'.pc # "starting"
    BY <2>6
  <2>. QED BY <1>1, <1>7, <2>4, <2>5, <2>7, <2>8 DEF Sound
<1>9. CASE daemon' = run /\ out' = FetchSeats /\ ~system.testing /\ HasSeatService(service)
  <2>1. Working' /\ daemon'.pc # "starting" /\ events' = <<>> /\ calls' = <<>> /\ rules' = {}
    BY <1>1, <1>2, <1>5, <1>6, <1>9 DEF Working, Running, Idle
  <2>2. \A s \in Seats : SeatKept(daemon', events', s)
    BY <1>5, <1>9, <2>1
  <2>3. Named(daemon', events', out', system'.missed)
    BY <2>2 DEF Named
  <2>. DEFINE y == View(daemon', out')
  <2>4. /\ y \in Views /\ y.d.watched = <<>> /\ y.out = FetchSeats
        /\ \A s \in Seats : y.d.systemSeats[s] = 0 /\ ~y.d.up[s]
    <3>1. run \in Daemons
      BY <1>5 DEF Sane, DaemonOK
    <3>2. FetchSeats \in Seq(Messages)
      BY DEF FetchSeats, Messages
    <3>3. /\ View(run, FetchSeats) \in Views /\ View(run, FetchSeats).d.watched = run.watched
          /\ View(run, FetchSeats).d.systemSeats = run.systemSeats /\ View(run, FetchSeats).out = FetchSeats
          /\ \A s \in Seats : View(run, FetchSeats).d.up[s] = (run.seats[s] # 0)
      BY <3>1, <3>2, ViewIs
    <3>4. y = View(run, FetchSeats)
      BY <1>9
    <3>. HIDE DEF y
    <3>5. /\ y \in Views /\ y.d.watched = run.watched /\ y.d.systemSeats = run.systemSeats /\ y.out = FetchSeats
          /\ \A s \in Seats : y.d.up[s] = (run.seats[s] # 0)
      BY <3>3, <3>4
    <3>6. run.watched = <<>> /\ \A s \in Seats : run.systemSeats[s] = 0 /\ run.seats[s] = 0
      BY <1>5
    <3>. QED BY <3>5, <3>6
  <2>. HIDE DEF y
  <2>. DEFINE missed == system'.missed
              w == system'.seats
  <2>5. Fits(y, w, {}, <<>>, missed)
    BY <2>4, FirstFits
  <2>6. \E f : Leads(f, y, <<>>, <<>>, missed, y)
    BY <2>4, LeadsFirst
  <2>7. InStep(y)
    BY <2>4 DEF InStep
  <2>8. OnCourse(y, <<>>, <<>>, system', {})
    BY <2>5, <2>6, <2>7 DEF OnCourse
  <2>9. OnCourse(y, events', calls', system', rules')
    BY <2>1, <2>8
  <2>. QED BY <1>1, <1>7, <2>1, <2>3, <2>9 DEF Sound, y
<1>. QED BY <1>4, <1>8, <1>9

\* SwitchToGreeter.
LEMMA SoundSwitching ==
  ASSUME Sound, NEW s \in Seats, SwitchToGreeter(s)
  PROVE  Sound'
<1>1. /\ UNCHANGED <<system, out, rules, calls, events>> /\ Running /\ Kept
  BY DEF SwitchToGreeter, Sound
<1>2. /\ Kept' /\ View(daemon', out') = View(daemon, out) /\ daemon'.pc = daemon.pc
      /\ \A t \in Seats : SeatKept(daemon, events, t) => SeatKept(daemon', events', t)
  BY <1>1, SwitchingKeeps
<1>3. (Working' <=> Working) /\ (Idle' <=> Idle) /\ daemon'.pc # "starting"
  BY <1>1, <1>2 DEF Working, Idle, Running
<1>4. Working' => OnCourse(View(daemon', out'), events', calls', system', rules')
  BY <1>1, <1>2, <1>3 DEF Sound
<1>5. Named(daemon', events', out', system'.missed)
  BY <1>1, <1>2 DEF Sound, Named
<1>. QED BY <1>1, <1>2, <1>3, <1>4, <1>5 DEF Sound

\* HandleSignal.
LEMMA SoundSignal ==
  ASSUME Sound, NEW sig, HandleSignal(sig)
  PROVE  Sound'
<1>1. Kept'
  BY SignalKeeps DEF Sound
<1>2. Idle' /\ UNCHANGED system /\ daemon' = [NewDaemon EXCEPT !.pc = "stopped"] /\ events' = <<>>
  BY DEF HandleSignal, Idle
<1>3. daemon'.pc = "stopped" /\ \A s \in Seats : SeatKept(daemon', events', s)
  BY <1>2, NothingMade
<1>4. ~Working' /\ daemon'.pc # "starting"
  BY <1>3 DEF Working, Running
<1>5. Named(daemon', events', out', system'.missed)
  BY <1>3 DEF Named
<1>. QED BY <1>1, <1>2, <1>4, <1>5 DEF Sound

\* The bus reads a message.
LEMMA SoundBusReads ==
  ASSUME Sound, BusReads
  PROVE  Sound'
<1>. DEFINE m == Head(out)
            v == View(daemon, out)
            x == View(daemon', out')
<1>1. /\ out # <<>> /\ out' = Tail(out) /\ UNCHANGED <<system, daemon, events>> /\ Kept
      /\ rules' = RulesAfter(rules, m) /\ calls' = CallsAfter(calls, m)
  BY DEF BusReads, RulesAfter, CallsAfter, Sound
<1>2. Kept'
  BY <1>1, BusReadsKeeps
<1>3. Working
  BY <1>1 DEF Sound, Idle
<1>4. /\ Ground(v, events, calls) /\ OnCourse(v, events, calls, system, rules)
      /\ daemon \in Daemons /\ out \in Seq(Messages)
  BY <1>1, <1>3, Grounded DEF Sound
<1>5. v \in Views /\ v.out = out
  BY <1>4, ViewIs
<1>6. Unread(v, m)
  BY <1>1, <1>5 DEF Unread
<1>7. x = Read(v)
  BY <1>1 DEF View, Read
<1>8. OnCourse(Read(v), events, CallsAfter(calls, m), system, RulesAfter(rules, m))
  BY <1>4, <1>6, CourseRead
<1>9. \A s : Lost(x, s) <=> Lost(v, s)
  BY <1>7 DEF Lost, Read
<1>. HIDE DEF m, v, x
<1>10. OnCourse(x, events', calls', system', rules')
  BY <1>1, <1>7, <1>8
<1>11. Working' /\ daemon'.pc # "starting"
  BY <1>1, <1>3 DEF Working, Running
<1>12. Named(daemon', events', out', system'.missed)
  BY <1>1, <1>9 DEF Sound, Named, v, x
<1>. QED BY <1>1, <1>2, <1>10, <1>11, <1>12 DEF Sound, x

\* What joins the queue takes nothing away.
LEMMA NamedMore ==
  ASSUME NEW d, NEW q \in Seq(Events), NEW sent, NEW missed, Named(d, q, sent, missed), NEW e,
         NEW more, missed \subseteq more
  PROVE  Named(d, q, sent, more) /\ Named(d, Append(q, e), sent, more)
<1>1. \A x : Holds(q, x) => Holds(Append(q, e), x)
  BY AppendIs
<1>. DEFINE p == Append(q, e)
<1>. HIDE DEF p
<1>2. \A s : SeatKept(d, q, s) => SeatKept(d, p, s)
  BY <1>1 DEF SeatKept, p
<1>. QED BY <1>2 DEF Named, p

\* Logind answers.
LEMMA SoundAnswers ==
  ASSUME Sound, LogindAnswers
  PROVE  Sound'
<1>. DEFINE m == Head(calls)
            e == Answer(m)
            v == View(daemon, out)
<1>1. /\ calls # <<>> /\ calls' = Tail(calls) /\ UNCHANGED <<system, daemon, out, rules>>
      /\ events' = Append(events, e) /\ Kept
  BY DEF LogindAnswers, Answer, Sound
<1>2. Kept' /\ e \in Events /\ m \in Requests
  BY <1>1, AnswersKeep
<1>3. Working
  BY <1>1 DEF Sound, Idle
<1>4. /\ Ground(v, events, calls) /\ OnCourse(v, events, calls, system, rules)
      /\ events \in Seq(Events)
  BY <1>1, <1>3, Grounded DEF Sound
<1>5. OnCourse(v, Append(events, e), Tail(calls), system, rules)
  <2>1. CASE m.type = "ListSeats"
    <3>. DEFINE P == {s \in Seats : system.seats[s].present}
    <3>1. SetToSeq(P) \in Seq(P)
      BY Listed
    <3>2. e.type = "Seats" /\ e.seats \in Seq(P)
      <4>. DEFINE l == SetToSeq(P)
      <4>1. l \in Seq(P)
        BY <3>1
      <4>2. e = [type |-> "Seats", seats |-> l]
        BY <2>1 DEF Answer
      <4>. HIDE DEF e, l
      <4>. QED BY <4>1, <4>2
    <3>. HIDE DEF e, v
    <3>. QED BY <1>1, <1>2, <1>4, <2>1, <3>2, CourseListed
  <2>2. CASE m.type # "ListSeats"
    <3>1. m.type = "Get"
      BY <1>2, <2>2 DEF Requests
    <3>2. e = [type |-> "Value", of |-> m.of, valid |-> system.seats[m.seat].present,
               value |-> system.seats[m.seat].graphical]
      BY <2>2 DEF Answer
    <3>. HIDE DEF e, v
    <3>3. e.type = "Value" /\ e.of = m.of /\ e.valid = system.seats[m.seat].present
          /\ e.value = system.seats[m.seat].graphical
      BY <3>2
    <3>. QED BY <1>1, <1>2, <1>4, <3>1, <3>3, CourseAnswered
  <2>. QED BY <2>1, <2>2
<1>6. Named(daemon, Append(events, e), out, system.missed)
  BY <1>4, NamedMore DEF Sound
<1>. HIDE DEF e, m
<1>7. OnCourse(View(daemon', out'), events', calls', system', rules') /\ Named(daemon', events', out', system'.missed)
  BY <1>1, <1>5, <1>6
<1>8. Working' /\ daemon'.pc # "starting"
  BY <1>1, <1>3 DEF Working, Running
<1>. QED BY <1>1, <1>2, <1>7, <1>8 DEF Sound

\* A seat changes in logind.
LEMMA SoundChange ==
  ASSUME Sound, NEW s \in Seats, Plug(s) \/ Unplug(s) \/ Toggle(s)
  PROVE  Sound'
<1>1. Kept
  BY DEF Sound
<1>2. PICK to \in [present : BOOLEAN, graphical : BOOLEAN], e \in Events, rule \in Seats \cup {Manager} :
        /\ Happens(s, to, rule, e) /\ e.of = s
        /\ \/ e.type = "SeatNew" /\ rule = Manager /\ ~system.seats[s].present /\ to.present
           \/ e.type = "SeatRemoved" /\ rule = Manager /\ system.seats[s].present /\ to = Unplugged
           \/ /\ e.type = "Changed" /\ rule = s /\ system.seats[s].present /\ to.present
              /\ to.graphical = ~system.seats[s].graphical /\ e.value = to.graphical
  BY <1>1, Changes
<1>. DEFINE w == system.seats
            u == system'.seats
            missed == system.missed
            more == system'.missed
            v == View(daemon, out)
<1>3. Change(s, to) /\ events' = IF Running /\ rule \in rules THEN Append(events, e) ELSE events
  BY <1>2 DEF Happens
<1>4. /\ UNCHANGED <<daemon, out, rules, calls>>
      /\ system' \in Systems /\ system'.testing = system.testing /\ system'.service = system.service
      /\ u = [w EXCEPT ![s] = to]
      /\ more = IF w[s].graphical /\ to.present /\ KnownGraphical(s) /\ s \notin rules
                  THEN missed \cup {s} ELSE missed
  BY <1>1, <1>3, ChangeIs
<1>5. Kept'
  BY <1>1, <1>2, HappeningKeeps
<1>6. w \in [Seats -> [present : BOOLEAN, graphical : BOOLEAN]]
  BY <1>1 DEF Kept, Systems
<1>. HIDE DEF u, w, missed, more
<1>7. u[s] = to /\ \A t \in Seats : t # s => u[t] = w[t]
  BY <1>4, <1>6
<1>8. missed \subseteq more /\ (~w[s].present => ~w[s].graphical)
  BY <1>4 DEF Sound, w
<1>9. \A t \in Seats : ~u[t].present => ~u[t].graphical
  <2>1. ~to.present => ~to.graphical
    BY <1>2 DEF Unplugged
  <2>2. \A t \in Seats : ~w[t].present => ~w[t].graphical
    BY DEF Sound, w
  <2>. QED BY <1>7, <2>1, <2>2
<1>10. (Working' <=> Working) /\ daemon' = daemon
  BY <1>4 DEF Working, Running
<1>11. Named(daemon, events, out, more) /\ Named(daemon, Append(events, e), out, more)
  BY <1>1, <1>8, NamedMore, Grounded DEF Sound, missed
<1>12. Named(daemon', events', out', more)
  BY <1>3, <1>4, <1>11
<1>13. CASE ~Working
  <2>1. Idle
    BY <1>13 DEF Sound
  <2>2. Idle'
    BY <1>3, <1>4, <2>1 DEF Idle
  <2>. QED BY <1>5, <1>9, <1>10, <1>12, <1>13, <2>2 DEF Sound, u, more
<1>14. CASE Working
  <2>1. /\ Ground(v, events, calls) /\ OnCourse(v, events, calls, system, rules) /\ Running
        /\ daemon \in Daemons /\ out \in Seq(Messages)
    BY <1>1, <1>14, Grounded DEF Sound, Working
  <2>2. \/ e.type = "SeatNew" /\ rule = Manager /\ ~w[s].present /\ u[s].present
        \/ e.type = "SeatRemoved" /\ rule = Manager /\ ~u[s].present
        \/ /\ e.type = "Changed" /\ rule = s /\ w[s].present /\ u[s].present
           /\ (u[s].graphical <=> ~w[s].graphical) /\ (u[s].graphical <=> e.value)
    BY <1>2, <1>7 DEF Unplugged, w
  <2>3. e.type # "Changed" \/ s \in rules => more = missed
    <3>1. e.type # "Changed" => ~w[s].graphical \/ ~to.present
      BY <1>7, <1>8, <2>2
    <3>. QED BY <1>4, <3>1
  <2>. DEFINE y == system
              n == system'
  <2>4. /\ \A t \in Seats : t # s => n.seats[t] = y.seats[t]
        /\ y.seats = w /\ n.seats = u /\ y.missed = missed /\ n.missed = more
        /\ OnCourse(v, events, calls, y, rules)
    BY <1>7, <2>1 DEF w, u, missed, more
  <2>. HIDE DEF v, y, n
  <2>5. ASSUME rule \in rules PROVE OnCourse(v, events', calls', n, rules')
    <3>1. Tells(w, u, s, e, rules) /\ more = missed
      BY <2>2, <2>3, <2>5 DEF Tells
    <3>2. Tells(y.seats, n.seats, s, e, rules) /\ n.missed = y.missed
      BY <2>4, <3>1
    <3>3. OnCourse(v, Append(events, e), calls, n, rules)
      BY <1>2, <2>1, <2>4, <3>2, CourseTold
    <3>4. events' = Append(events, e) /\ calls' = calls /\ rules' = rules
      BY <1>3, <1>4, <2>1, <2>5
    <3>. QED BY <3>3, <3>4
  <2>6. ASSUME rule \notin rules PROVE OnCourse(v, events', calls', n, rules')
    <3>1. KnownIn(v, events, s) => KnownGraphical(s)
      <4>1. v.d.watched = daemon.watched /\ v.d.systemSeats = daemon.systemSeats
        BY <2>1, ViewIs DEF v
      <4>. QED BY <4>1 DEF KnownIn, KnownGraphical, Holds
    <3>2. \/ Manager \notin rules /\ more = missed
          \/ /\ s \notin rules /\ w[s].present /\ u[s].present
             /\ (u[s].graphical <=> ~w[s].graphical)
             /\ missed \subseteq more /\ (w[s].graphical /\ KnownIn(v, events, s) => s \in more)
      <4>1. CASE e.type # "Changed"
        BY <2>2, <2>3, <2>6, <4>1
      <4>2. CASE e.type = "Changed"
        <5>1. s \notin rules /\ w[s].present /\ to.present /\ u[s].present /\ (u[s].graphical <=> ~w[s].graphical)
          BY <1>7, <2>2, <2>6, <4>2
        <5>2. w[s].graphical /\ KnownIn(v, events, s) => s \in more
          BY <1>4, <3>1, <5>1
        <5>. QED BY <1>8, <5>1, <5>2
      <4>. QED BY <4>1, <4>2
    <3>3. \/ Manager \notin rules /\ n.missed = y.missed
          \/ /\ s \notin rules /\ y.seats[s].present /\ n.seats[s].present
             /\ (n.seats[s].graphical <=> ~y.seats[s].graphical)
             /\ y.missed \subseteq n.missed /\ (y.seats[s].graphical /\ KnownIn(v, events, s) => s \in n.missed)
      BY <2>4, <3>2
    <3>4. OnCourse(v, events, calls, n, rules)
      BY <2>1, <2>4, <3>3, CourseUntold
    <3>5. events' = events /\ calls' = calls /\ rules' = rules
      BY <1>3, <1>4, <2>6
    <3>. QED BY <3>4, <3>5
  <2>7. daemon'.pc # "starting"
    BY <1>10, <2>1 DEF Running
  <2>8. OnCourse(View(daemon', out'), events', calls', system', rules')
    BY <1>4, <2>5, <2>6 DEF v, n
  <2>. QED BY <1>5, <1>9, <1>10, <1>12, <1>14, <2>7, <2>8 DEF Sound, u, more
<1>. QED BY <1>13, <1>14

\* The invariant, of every behaviour.
THEOREM SoundAlways == Spec => []Sound
<1>1. Init => Sound
  BY SoundFirst
<1>2. ASSUME Sound, [Next]_vars PROVE Sound'
  <2>1. CASE UNCHANGED vars
    BY <1>2, <2>1 DEF vars, Sound, Kept, Working, Idle, Running
  <2>2. CASE Handlers
    <3>1. events \in Seq(Events)
      BY <1>2, Grounded DEF Sound
    <3>. QED BY <1>2, <2>2, <3>1, HandlersHandle, SoundHandling
  <2>3. CASE Start
    BY <1>2, <2>3, SoundStart
  <2>4. CASE BusReads
    BY <1>2, <2>4, SoundBusReads
  <2>5. CASE LogindAnswers
    BY <1>2, <2>5, SoundAnswers
  <2>6. ASSUME NEW s \in Seats, SwitchToGreeter(s) PROVE Sound'
    BY <1>2, <2>6, SoundSwitching
  <2>7. ASSUME NEW s \in Seats, Plug(s) \/ Unplug(s) \/ Toggle(s) PROVE Sound'
    BY <1>2, <2>7, SoundChange
  <2>8. ASSUME NEW sig, HandleSignal(sig) PROVE Sound'
    BY <1>2, <2>8, SoundSignal
  <2>9. ASSUME NEW sig, Signalled(sig) PROVE Sound'
    BY <1>2, <2>9 DEF Signalled, Sound, Kept, Working, Idle, Running
  <2>. QED BY <1>2, <2>1, <2>2, <2>3, <2>4, <2>5, <2>6, <2>7, <2>8, <2>9, Steps
<1>. QED BY <1>1, <1>2, PTL DEF Spec

\* At rest the daemon runs what logind calls graphical (RunsGraphicalSeats):
\* whatever order the answers to Get and the notices of changes came in, and
\* whatever the bus did not pass on (SeatManager.cpp: LogindSeat).
THEOREM GraphicalSeatsRun == Spec => []RunsGraphicalSeats
<1>1. Sound => RunsGraphicalSeats
  <2>. SUFFICES ASSUME Sound, AtRest, HasSeatService(system.service), ~system.testing, NEW s \in Seats
                PROVE  (daemon.seats[s] # 0) <=> (daemon.systemSeats[s] # 0 /\ system.seats[s].graphical)
    BY DEF RunsGraphicalSeats
  <2>. DEFINE v == View(daemon, out)
              w == system.seats
  <2>1. Running /\ out = <<>> /\ calls = <<>> /\ events = <<>>
    BY DEF AtRest
  <2>2. OnCourse(v, events, calls, system, rules)
    BY <2>1 DEF Sound, Working
  <2>3. daemon \in Daemons /\ out \in Seq(Messages)
    BY Grounded DEF Sound
  <2>4. v.d.systemSeats = daemon.systemSeats /\ (v.d.up[s] <=> daemon.seats[s] # 0) /\ v.out = out
    <3>. DEFINE d == daemon
                seats == d.seats
    <3>1. \A t \in Seats : v.d.up[t] = (seats[t] # 0)
      BY <2>3, ViewIs
    <3>2. v.d.systemSeats = daemon.systemSeats /\ v.out = out
      BY <2>3, ViewIs
    <3>. HIDE DEF v, seats
    <3>3. v.d.up[s] <=> seats[s] # 0
      BY <3>1
    <3>. QED BY <3>2, <3>3 DEF seats
  <2>. HIDE DEF v
  <2>5. PICK f, z : Leads(f, v, events, calls, system.missed, z) /\ Fits(z, w, rules, calls, system.missed)
    BY <2>2 DEF OnCourse
  <2>6. z = v
    BY <2>1, <2>5 DEF Leads, Course
  <2>7. Mended(v, w, calls, s) /\ Untracked(v, w, s)
    BY <2>5, <2>6 DEF Fits, SeatFits
  <2>8. \A o : ~Asked(v.out, calls, o)
    BY <2>1, <2>4 DEF Asked, Holds
  <2>9. ~w[s].present => ~w[s].graphical
    BY DEF Sound
  <2>10. w[s].present /\ v.d.systemSeats[s] # 0 => (v.d.up[s] <=> w[s].graphical)
    BY <2>7, <2>8 DEF Mended
  <2>. QED BY <2>4, <2>7, <2>9, <2>10 DEF Untracked
<1>. QED BY <1>1, SoundAlways, PTL

\* A name has one Seat (OneSeatPerName): createSeat, called again for a name by
\* a notice or an answer, leaves no Seat behind that nothing will delete, except
\* where an object was lost or the bus did not tell of a change.
THEOREM NamesHaveOneSeat == Spec => []OneSeatPerName
<1>1. Sound => OneSeatPerName
  <2>. SUFFICES ASSUME Sound, NEW id \in DOMAIN daemon.made, NEW s, s = daemon.made[id].seat
                PROVE  \/ Leaked(s) \/ s \in system.missed
                       \/ ~daemon.made[id].alive \/ daemon.seats[s] = id
                       \/ \E i \in DOMAIN events : events[i] = Delete("seat", id)
    BY DEF OneSeatPerName
  <2>1. daemon \in Daemons /\ out \in Seq(Messages)
    BY Grounded DEF Sound
  <2>2. s \in Seats
    <3>. DEFINE m == daemon.made
    <3>1. m \in Seq(SeatObjects) /\ id \in DOMAIN m /\ s = m[id].seat
      BY <2>1 DEF Daemons
    <3>. HIDE DEF m
    <3>2. m[id] \in SeatObjects
      BY <3>1
    <3>. QED BY <3>1, <3>2 DEF SeatObjects
  <2>. DEFINE v == View(daemon, out)
  <2>3. v.d.systemSeats = daemon.systemSeats /\ \A t : Watchers(v.d, t) = Watchers(daemon, t)
    BY <2>1, ViewIs
  <2>. HIDE DEF v
  <2>4. Lost(v, s) => Leaked(s)
    BY <2>3 DEF Lost, Leaked
  <2>5. Lost(v, s) \/ s \in system.missed \/ SeatKept(daemon, events, s)
    BY <2>2 DEF Sound, Named, v
  <2>. QED BY <2>4, <2>5 DEF SeatKept, Holds
<1>. QED BY <1>1, SoundAlways, PTL

\* No stale path (NoStalePath): at rest a path is answered by an object of the
\* list only, whatever was listed, announced, removed and deleted before, in
\* any order (DisplayManager::AddSeat, RemoveSeat and the deferred deletions).
THEOREM PathsAreNotStale == Spec => []NoStalePath
<1>1. Sound => NoStalePath
  <2>. SUFFICES ASSUME Sound, AtRest, NEW s \in Seats, daemon.paths[s] # 0
                PROVE  \E i \in DOMAIN daemon.list : daemon.list[i] = daemon.paths[s]
    BY DEF NoStalePath
  <2>1. PathsKept(daemon, <<>>)
    BY DEF Sound, Kept, AtRest, Sane
  <2>2. ~Holds(<<>>, Delete("path", daemon.paths[s]))
    BY DEF Holds
  <2>3. Holds(daemon.list, daemon.paths[s])
    BY <2>1, <2>2 DEF PathsKept
  <2>. QED BY <2>3 DEF Holds
<1>. QED BY <1>1, SoundAlways, PTL
=============================================================================
