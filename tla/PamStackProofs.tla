--------------------------- MODULE PamStackProofs ---------------------------
(***************************************************************************)
(* A stack the helper has written keeps its password fallback and the lines *)
(* that were installed, has the methods that were asked for and the order   *)
(* that is documented, for every number of helpers, every clock and every   *)
(* installed stack.                                                        *)
(***************************************************************************)
EXTENDS PamStack, WellFoundedInduction, SequenceTheorems, FiniteSetTheorems, TLAPS

\* FallbackKept speaks of the files only; what makes it inductive is that a
\* helper past its reading holds a text it has validated.
ValidatedBeforeWritten ==
  \A p \in Procs : proc[p].at \in {"backup", "copy", "replace"} => Valid(proc[p].text)

\* What is needed of the types.
Shapes == /\ file = [s \in Services |-> file[s]]
          /\ proc = [p \in Procs |-> proc[p]]

WrittenInv == Shapes /\ ValidatedBeforeWritten /\ FallbackKept

-----------------------------------------------------------------------------
\* A helper that turns to the next surface or ends is not about to write.
LEMMA OnwardDoesNotWrite ==
  ASSUME NEW p
  PROVE  Onward(p).at \in {"idle", "read"}
BY DEF Onward, Idle, Reading

\* Only ReplaceFile writes a file, and it writes what its helper holds.
LEMMA FallbackKeptStep ==
  ASSUME WrittenInv, [Next]_vars
  PROVE  FallbackKept'
<1>1. CASE UNCHANGED file
  BY <1>1 DEF WrittenInv, FallbackKept
<1>2. ASSUME NEW p \in Procs, ReplaceFile(p)
      PROVE  FallbackKept'
  <2>1. Valid(proc[p].text)
    BY <1>2 DEF WrittenInv, ValidatedBeforeWritten, ReplaceFile
  <2>2. \A s \in Services : file'[s] = proc[p].text \/ file'[s] = file[s]
    BY <1>2 DEF ReplaceFile, WrittenInv, Shapes
  <2> QED
    BY <2>1, <2>2 DEF WrittenInv, FallbackKept
<1>3. (\E p \in Procs : ReplaceFile(p)) \/ UNCHANGED file
  BY DEF Next, vars, StartCommand, ReadFile, ReadBackup, OpenBackup, CopyBackup, Killed
<1> QED
  BY <1>1, <1>2, <1>3

\* A helper comes to hold a text only by validating it.
LEMMA ValidatedBeforeWrittenStep ==
  ASSUME WrittenInv, [Next]_vars
  PROVE  ValidatedBeforeWritten'
<1>1. CASE UNCHANGED vars
  BY <1>1 DEF vars, WrittenInv, ValidatedBeforeWritten
<1>2. SUFFICES ASSUME NEW p \in Procs,
                      \/ StartCommand(p) \/ ReadFile(p) \/ ReadBackup(p)
                      \/ OpenBackup(p) \/ CopyBackup(p) \/ ReplaceFile(p) \/ Killed(p)
               PROVE  ValidatedBeforeWritten'
  BY <1>1 DEF Next
<1>3. proc = [q \in Procs |-> proc[q]]
  BY DEF WrittenInv, Shapes
<1>4. SUFFICES ASSUME NEW q \in Procs, proc'[q].at \in {"backup", "copy", "replace"},
                      proc' = [proc EXCEPT ![p] = proc'[p]]
               PROVE  Valid(proc'[q].text)
  BY <1>2, <1>3 DEF ValidatedBeforeWritten, StartCommand, ReadFile, ReadBackup, OpenBackup,
                    CopyBackup, ReplaceFile, Killed
<1>5. CASE q # p
  BY <1>3, <1>4, <1>5 DEF WrittenInv, ValidatedBeforeWritten
<1>6. CASE q = p
  <2>1. CASE StartCommand(p)
    BY <1>3, <1>4, <1>6, <2>1 DEF StartCommand, Reading, Idle
  <2>2. CASE ReadFile(p)
    BY <1>3, <1>4, <1>6, <2>2, OnwardDoesNotWrite DEF ReadFile, Idle
  <2>3. CASE ReadBackup(p)
    BY <1>3, <1>4, <1>6, <2>3 DEF ReadBackup, Idle
  <2>4. CASE OpenBackup(p)
    BY <1>3, <1>4, <1>6, <2>4 DEF OpenBackup, WrittenInv, ValidatedBeforeWritten
  <2>5. CASE CopyBackup(p)
    BY <1>3, <1>4, <1>6, <2>5 DEF CopyBackup, WrittenInv, ValidatedBeforeWritten
  <2>6. CASE ReplaceFile(p)
    BY <1>3, <1>4, <1>6, <2>6, OnwardDoesNotWrite DEF ReplaceFile
  <2>7. CASE Killed(p)
    BY <1>3, <1>4, <1>6, <2>7 DEF Killed, Idle
  <2> QED
    BY <1>2, <2>1, <2>2, <2>3, <2>4, <2>5, <2>6, <2>7
<1> QED
  BY <1>5, <1>6

LEMMA ShapesStep ==
  ASSUME WrittenInv, [Next]_vars
  PROVE  Shapes'
<1>1. file = [s \in Services |-> file[s]] /\ proc = [p \in Procs |-> proc[p]]
  BY DEF WrittenInv, Shapes
<1>2. CASE UNCHANGED vars
  BY <1>1, <1>2 DEF vars, Shapes
<1>3. ASSUME NEW p \in Procs,
             \/ StartCommand(p) \/ ReadFile(p) \/ ReadBackup(p)
             \/ OpenBackup(p) \/ CopyBackup(p) \/ ReplaceFile(p) \/ Killed(p)
      PROVE  Shapes'
  <2>1. file' = [s \in Services |-> file'[s]]
    BY <1>1, <1>3 DEF StartCommand, ReadFile, ReadBackup, OpenBackup, CopyBackup,
                      ReplaceFile, Killed
  <2>2. \E r : proc' = [proc EXCEPT ![p] = r]
    BY <1>3, Zenon DEF StartCommand, ReadFile, ReadBackup, OpenBackup, CopyBackup,
                ReplaceFile, Killed
  <2> QED
    BY <1>1, <2>1, <2>2 DEF Shapes
<1> QED
  BY <1>2, <1>3 DEF Next

-----------------------------------------------------------------------------
\* However helpers interleave and wherever they are killed, a file they have
\* written is a stack that validates: it reaches pam_unix.
THEOREM PasswordFallbackKept == Spec => []FallbackKept
<1>1. Init => WrittenInv
  BY StackAssumption DEF Init, WrittenInv, Shapes, ValidatedBeforeWritten, FallbackKept, Idle
<1>2. WrittenInv /\ [Next]_vars => WrittenInv'
  BY FallbackKeptStep, ValidatedBeforeWrittenStep, ShapesStep DEF WrittenInv
<1>3. WrittenInv => FallbackKept
  BY DEF WrittenInv
<1> QED
  BY <1>1, <1>2, <1>3, PTL DEF Spec

-----------------------------------------------------------------------------
(* What is kept of a text *)

\* A set of numbers that is not empty has a least one.
LEMMA LeastNumber ==
  ASSUME NEW I \in SUBSET Nat, I # {}
  PROVE  \E m \in I : \A n \in I : m <= n
<1> DEFINE R == {ss \in Nat \X Nat : ss[1] < ss[2]}
<1>1. IsWellFoundedOn(R, Nat)
  BY NatLessThanWellFounded, Zenon DEF OpToRel
<1>2. \A a, b \in Nat : a < b => <<a, b>> \in R
  OBVIOUS
<1> HIDE DEF R
<1>3. PICK m \in I : \A n \in I : ~(<<n, m>> \in R)
  BY <1>1, WFMin, Zenon
<1>4. m \in Nat /\ \A n \in I : n \in Nat /\ ~(n < m)
  BY <1>2, <1>3
<1>. QED BY <1>3, <1>4

\* f is what Keep goes through, line by line.
Kept(f, text, kept) ==
  /\ f[0] = <<>>
  /\ \A n \in 1 .. Len(text) :
       f[n] = IF text[n] \in kept THEN Append(f[n - 1], text[n]) ELSE f[n - 1]

\* The recursion of Keep defines something.
LEMMA KeepByLine ==
  ASSUME NEW S, NEW text \in Seq(S), NEW kept
  PROVE  \E f : Kept(f, text, kept) /\ Keep(text, kept) = f[Len(text)]
<1>. DEFINE Step(g, n) == IF n = 0 THEN <<>>
                          ELSE IF text[n] \in kept THEN Append(g[n - 1], text[n]) ELSE g[n - 1]
            Upto(N, g) == g = [n \in 0 .. N |-> Step(g, n)]
            Bad == {N \in Nat : \A g : ~Upto(N, g)}
<1>1. Bad = {}
  <2>. SUFFICES ASSUME Bad # {} PROVE FALSE
    OBVIOUS
  <2>1. PICK N \in Bad : \A M \in Bad : N <= M
    BY LeastNumber
  <2>2. CASE N = 0
    <3>. DEFINE g == [n \in 0 .. 0 |-> <<>>]
    <3>1. g = [n \in 0 .. 0 |-> Step(g, n)]
      OBVIOUS
    <3>. QED BY <2>1, <2>2, <3>1
  <2>3. CASE N # 0
    <3>1. N - 1 \in Nat /\ N - 1 \notin Bad
      <4>1. Bad \subseteq Nat
        OBVIOUS
      <4>. HIDE DEF Bad
      <4>. QED BY <2>1, <2>3, <4>1
    <3>2. PICK h : Upto(N - 1, h)
      BY <3>1
    <3>. DEFINE g == [n \in 0 .. N |-> IF n = N THEN Step(h, N) ELSE h[n]]
    <3>3. \A n \in 0 .. N : n - 1 \in 0 .. N => g[n - 1] = h[n - 1]
      BY <2>1
    <3>4. \A n \in 0 .. N : Step(g, n) = Step(h, n)
      BY <2>1, <3>3
    <3>5. \A n \in 0 .. N - 1 : h[n] = Step(h, n)
      BY <3>2
    <3>6. \A n \in 0 .. N : g[n] = Step(g, n)
      BY <2>1, <3>4, <3>5
    <3>7. g = [n \in 0 .. N |-> g[n]]
      OBVIOUS
    <3>8. Upto(N, g)
      <4>. HIDE DEF g, Step
      <4>. QED BY <3>6, <3>7
    <3>. QED BY <2>1, <3>8
  <2>. QED BY <2>2, <2>3
<1>2. Len(text) \in Nat
  BY LenProperties
<1>3. \E g : Upto(Len(text), g)
  BY <1>1, <1>2
<1>. DEFINE f == CHOOSE g : Upto(Len(text), g)
<1>4. Upto(Len(text), f)
  BY <1>3
<1>5. Keep(text, kept) = f[Len(text)]
  BY DEF Keep
<1>. HIDE DEF f
<1>6. \A n \in 0 .. Len(text) : f[n] = Step(f, n)
  BY <1>4
<1>7. Kept(f, text, kept)
  BY <1>2, <1>6 DEF Kept
<1>. QED BY <1>5, <1>7

\* As far as two texts agree, so does what is kept of them.
LEMMA KeptAgree ==
  ASSUME NEW s, NEW t, NEW kept, NEW f, NEW g, Kept(f, s, kept), Kept(g, t, kept),
         Len(s) \in Nat, Len(t) \in Nat, NEW m \in Nat, m <= Len(s), m <= Len(t),
         \A i \in 1 .. m : s[i] = t[i]
  PROVE  f[m] = g[m]
<1>. DEFINE Bad == {n \in 0 .. m : f[n] # g[n]}
<1>1. Bad = {}
  <2>. SUFFICES ASSUME Bad # {} PROVE FALSE
    OBVIOUS
  <2>1. PICK n \in Bad : \A k \in Bad : n <= k
    <3>1. Bad \in SUBSET Nat
      OBVIOUS
    <3>. HIDE DEF Bad
    <3>. QED BY <3>1, LeastNumber
  <2>2. n # 0
    BY <2>1 DEF Kept
  <2>3. n - 1 \in 0 .. m /\ n - 1 \notin Bad
    BY <2>1, <2>2
  <2>4. f[n - 1] = g[n - 1] /\ s[n] = t[n] /\ n \in 1 .. Len(s) /\ n \in 1 .. Len(t)
    BY <2>2, <2>3
  <2>5. f[n] = g[n]
    BY <2>4 DEF Kept
  <2>. QED BY <2>1, <2>5
<1>. QED BY <1>1

\* Nothing of no lines; of a text with one line more, that one or not.
LEMMA KeepEmpty ==
  ASSUME NEW kept
  PROVE  Keep(<<>>, kept) = <<>>
<1>1. <<>> \in Seq({}) /\ Len(<<>>) = 0
  BY EmptySeq
<1>2. PICK f : Kept(f, <<>>, kept) /\ Keep(<<>>, kept) = f[Len(<<>>)]
  BY <1>1, KeepByLine
<1>. QED BY <1>1, <1>2 DEF Kept

LEMMA KeepAppend ==
  ASSUME NEW S, NEW text \in Seq(S), NEW e \in S, NEW kept
  PROVE  Keep(Append(text, e), kept)
           = IF e \in kept THEN Append(Keep(text, kept), e) ELSE Keep(text, kept)
<1>. DEFINE t == Append(text, e)
<1>1. /\ t \in Seq(S) /\ Len(t) = Len(text) + 1 /\ Len(text) \in Nat
      /\ t[Len(t)] = e /\ \A i \in 1 .. Len(text) : t[i] = text[i]
  BY AppendProperties, LenProperties
<1>. HIDE DEF t
<1>2. PICK f : Kept(f, text, kept) /\ Keep(text, kept) = f[Len(text)]
  BY KeepByLine
<1>3. PICK g : Kept(g, t, kept) /\ Keep(t, kept) = g[Len(t)]
  BY <1>1, KeepByLine
<1>4. f[Len(text)] = g[Len(text)]
  BY <1>1, <1>2, <1>3, KeptAgree
<1>5. Len(t) \in 1 .. Len(t) /\ Len(t) - 1 = Len(text)
  BY <1>1
<1>6. g[Len(t)] = IF e \in kept THEN Append(g[Len(text)], e) ELSE g[Len(text)]
  BY <1>1, <1>3, <1>5 DEF Kept
<1>. QED BY <1>2, <1>3, <1>4, <1>6 DEF t

-----------------------------------------------------------------------------
\* A text that is not empty is one with one line less, and that line.
LEMMA LastLine ==
  ASSUME NEW S, NEW text \in Seq(S), Len(text) # 0
  PROVE  \E t \in Seq(S), e \in S : text = Append(t, e) /\ Len(t) = Len(text) - 1
<1>1. text # <<>>
  BY EmptySeq
<1>2. PICK t \in Seq(S), e \in S : text = Append(t, e)
  BY <1>1, SequenceEmptyOrAppend
<1>3. Len(Append(t, e)) = Len(t) + 1 /\ Len(t) \in Nat
  BY AppendProperties, LenProperties
<1>. QED BY <1>2, <1>3

\* Induction on texts, for a set of texts in the place of a predicate.
LEMMA TextInduction ==
  ASSUME NEW S, NEW G, <<>> \in G,
         \A t \in Seq(S), e \in S : t \in G => Append(t, e) \in G
  PROVE  \A t \in Seq(S) : t \in G
<1>. DEFINE Bad == {n \in Nat : \E t \in Seq(S) : Len(t) = n /\ t \notin G}
<1>1. Bad = {}
  <2>. SUFFICES ASSUME Bad # {} PROVE FALSE
    OBVIOUS
  <2>1. Bad \in SUBSET Nat
    OBVIOUS
  <2>2. PICK n \in Bad : \A k \in Bad : n <= k
    <3>. HIDE DEF Bad
    <3>. QED BY <2>1, LeastNumber
  <2>3. n \in Nat
    BY <2>1, <2>2
  <2>4. PICK t \in Seq(S) : Len(t) = n /\ t \notin G
    BY <2>2
  <2>5. n # 0
    BY <2>4, EmptySeq
  <2>6. PICK s \in Seq(S), e \in S : t = Append(s, e) /\ Len(s) = n - 1
    <3>. HIDE DEF Bad
    <3>. QED BY <2>4, <2>5, LastLine
  <2>7. n - 1 \in Nat /\ n - 1 \notin Bad
    <3>. HIDE DEF Bad
    <3>. QED BY <2>2, <2>3, <2>5
  <2>8. s \in G
    BY <2>6, <2>7
  <2>. QED BY <2>4, <2>6, <2>8
<1>2. \A t \in Seq(S) : Len(t) \in Nat
  BY LenProperties
<1>. QED BY <1>1, <1>2

\* What is kept is a text of the lines to be kept.
LEMMA KeepType ==
  ASSUME NEW S, NEW text \in Seq(S), NEW kept
  PROVE  Keep(text, kept) \in Seq(S) /\ Keep(text, kept) \in Seq(S \cap kept)
<1>. DEFINE G == {t \in Seq(S) : Keep(t, kept) \in Seq(S \cap kept)}
<1>1. <<>> \in G
  BY KeepEmpty, EmptySeq
<1>2. ASSUME NEW t \in Seq(S), NEW e \in S, t \in G
      PROVE  Append(t, e) \in G
  <2>1. Append(t, e) \in Seq(S)
    BY AppendProperties
  <2>2. Keep(Append(t, e), kept) = IF e \in kept THEN Append(Keep(t, kept), e) ELSE Keep(t, kept)
    BY KeepAppend
  <2>3. Keep(t, kept) \in Seq(S \cap kept)
    BY <1>2
  <2>4. ASSUME e \in kept
        PROVE  Append(Keep(t, kept), e) \in Seq(S \cap kept)
    <3>1. e \in S \cap kept
      BY <2>4
    <3>. HIDE DEF G
    <3>. QED BY <2>3, <3>1, AppendProperties
  <2>5. Keep(Append(t, e), kept) \in Seq(S \cap kept)
    BY <2>2, <2>3, <2>4
  <2>. QED BY <2>1, <2>5
<1>. HIDE DEF G
<1>3. text \in G
  BY <1>1, <1>2, TextInduction
<1>4. Keep(text, kept) \in Seq(S \cap kept)
  BY <1>3 DEF G
<1>5. Seq(S \cap kept) \subseteq Seq(S)
  BY SeqMonotonic
<1>. QED BY <1>4, <1>5

\* Which lines are kept.
LEMMA KeepLines ==
  ASSUME NEW S, NEW text \in Seq(S), NEW kept
  PROVE  {Keep(text, kept)[i] : i \in 1 .. Len(Keep(text, kept))}
           = {text[i] : i \in 1 .. Len(text)} \cap kept
<1>. DEFINE Of(t) == {t[i] : i \in 1 .. Len(t)}
            G == {t \in Seq(S) : Of(Keep(t, kept)) = Of(t) \cap kept}
<1>1. <<>> \in G
  <2>1. Of(<<>>) = {}
    BY EmptySeq
  <2>. QED BY <2>1, KeepEmpty, EmptySeq
<1>2. \A U : \A t \in Seq(U), e \in U : Of(Append(t, e)) = Of(t) \cup {e}
  <2>. TAKE U
  <2>. TAKE t \in Seq(U), e \in U
  <2>1. /\ Len(Append(t, e)) = Len(t) + 1 /\ Len(t) \in Nat
        /\ Append(t, e)[Len(t) + 1] = e /\ \A i \in 1 .. Len(t) : Append(t, e)[i] = t[i]
    BY AppendProperties, LenProperties
  <2>. QED BY <2>1
<1>3. ASSUME NEW t \in Seq(S), NEW e \in S, t \in G
      PROVE  Append(t, e) \in G
  <2>1. Append(t, e) \in Seq(S) /\ Keep(t, kept) \in Seq(S)
    <3>1. Keep(t, kept) \in Seq(S)
      BY KeepType
    <3>. QED BY <3>1, AppendProperties
  <2>2. Keep(Append(t, e), kept) = IF e \in kept THEN Append(Keep(t, kept), e) ELSE Keep(t, kept)
    BY KeepAppend
  <2>3. Of(Keep(t, kept)) = Of(t) \cap kept
    BY <1>3
  <2>4. Of(Append(t, e)) = Of(t) \cup {e} /\ Of(Append(Keep(t, kept), e)) = Of(Keep(t, kept)) \cup {e}
    BY <1>2, <2>1
  <2>. HIDE DEF Of
  <2>5. Of(Keep(Append(t, e), kept)) = Of(Append(t, e)) \cap kept
    BY <2>2, <2>3, <2>4
  <2>. QED BY <2>1, <2>5
<1>. HIDE DEF G
<1>4. text \in G
  BY <1>1, <1>3, TextInduction
<1>. QED BY <1>4 DEF G

\* Keeping goes through texts that are put together.
LEMMA KeepConcat ==
  ASSUME NEW S, NEW s \in Seq(S), NEW t \in Seq(S), NEW kept
  PROVE  Keep(s \o t, kept) = Keep(s, kept) \o Keep(t, kept)
<1>. DEFINE G == {u \in Seq(S) : Keep(s \o u, kept) = Keep(s, kept) \o Keep(u, kept)}
<1>0. Keep(s, kept) \in Seq(S)
  BY KeepType
<1>1. <<>> \in G
  BY <1>0, KeepEmpty, EmptySeq, ConcatEmptySeq
<1>2. ASSUME NEW u \in Seq(S), NEW e \in S, u \in G
      PROVE  Append(u, e) \in G
  <2>1. Append(u, e) \in Seq(S) /\ s \o u \in Seq(S) /\ Keep(u, kept) \in Seq(S)
    <3>1. Keep(u, kept) \in Seq(S)
      BY KeepType
    <3>. QED BY <3>1, AppendProperties, ConcatProperties
  <2>2. s \o Append(u, e) = Append(s \o u, e)
    BY <2>1
  <2>3. /\ Keep(Append(s \o u, e), kept)
             = IF e \in kept THEN Append(Keep(s \o u, kept), e) ELSE Keep(s \o u, kept)
        /\ Keep(Append(u, e), kept) = IF e \in kept THEN Append(Keep(u, kept), e) ELSE Keep(u, kept)
    BY <2>1, KeepAppend
  <2>4. Keep(s \o u, kept) = Keep(s, kept) \o Keep(u, kept)
    BY <1>2
  <2>5. Keep(s, kept) \o Append(Keep(u, kept), e) = Append(Keep(s, kept) \o Keep(u, kept), e)
    BY <1>0, <2>1
  <2>6. Keep(s \o Append(u, e), kept) = Keep(s, kept) \o Keep(Append(u, e), kept)
    BY <2>2, <2>3, <2>4, <2>5
  <2>. QED BY <2>1, <2>6
<1>. HIDE DEF G
<1>3. t \in G
  BY <1>1, <1>2, TextInduction
<1>. QED BY <1>3 DEF G

\* Keeping fewer lines of what was kept.
LEMMA KeepTwice ==
  ASSUME NEW S, NEW text \in Seq(S), NEW kept, NEW fewer \in SUBSET kept
  PROVE  Keep(Keep(text, kept), fewer) = Keep(text, fewer)
<1>. DEFINE G == {t \in Seq(S) : Keep(Keep(t, kept), fewer) = Keep(t, fewer)}
<1>1. <<>> \in G
  BY KeepEmpty, EmptySeq
<1>2. ASSUME NEW t \in Seq(S), NEW e \in S, t \in G
      PROVE  Append(t, e) \in G
  <2>1. Append(t, e) \in Seq(S) /\ Keep(t, kept) \in Seq(S)
    <3>1. Keep(t, kept) \in Seq(S)
      BY KeepType
    <3>. QED BY <3>1, AppendProperties
  <2>2. /\ Keep(Append(t, e), kept) = IF e \in kept THEN Append(Keep(t, kept), e) ELSE Keep(t, kept)
        /\ Keep(Append(t, e), fewer) = IF e \in fewer THEN Append(Keep(t, fewer), e) ELSE Keep(t, fewer)
        /\ Keep(Append(Keep(t, kept), e), fewer)
             = IF e \in fewer THEN Append(Keep(Keep(t, kept), fewer), e) ELSE Keep(Keep(t, kept), fewer)
    BY <2>1, KeepAppend
  <2>3. Keep(Keep(t, kept), fewer) = Keep(t, fewer)
    BY <1>2
  <2>4. Keep(Keep(Append(t, e), kept), fewer) = Keep(Append(t, e), fewer)
    BY <2>2, <2>3
  <2>. QED BY <2>1, <2>4
<1>. HIDE DEF G
<1>3. text \in G
  BY <1>1, <1>2, TextInduction
<1>. QED BY <1>3 DEF G

\* Keeping all lines, and none.
LEMMA KeepAllOrNone ==
  ASSUME NEW S, NEW text \in Seq(S), NEW kept
  PROVE  /\ S \subseteq kept => Keep(text, kept) = text
         /\ S \cap kept = {} => Keep(text, kept) = <<>>
<1>. DEFINE G == {t \in Seq(S) : /\ S \subseteq kept => Keep(t, kept) = t
                                 /\ S \cap kept = {} => Keep(t, kept) = <<>>}
<1>1. <<>> \in G
  BY KeepEmpty, EmptySeq
<1>2. ASSUME NEW t \in Seq(S), NEW e \in S, t \in G
      PROVE  Append(t, e) \in G
  <2>1. Append(t, e) \in Seq(S)
    BY AppendProperties
  <2>2. Keep(Append(t, e), kept) = IF e \in kept THEN Append(Keep(t, kept), e) ELSE Keep(t, kept)
    BY KeepAppend
  <2>3. /\ S \subseteq kept => Keep(t, kept) = t
        /\ S \cap kept = {} => Keep(t, kept) = <<>>
    BY <1>2
  <2>. QED BY <2>1, <2>2, <2>3
<1>. HIDE DEF G
<1>3. text \in G
  BY <1>1, <1>2, TextInduction
<1>. QED BY <1>3 DEF G

-----------------------------------------------------------------------------
(* What the helper makes of a text: its own lines come and go, the others   *)
(* stay.                                                                    *)

\* The lines of a text.
LinesOf(text) == {text[i] : i \in 1 .. Len(text)}

\* The lines that are kept, as KeepLines has them.
LEMMA LinesKept ==
  ASSUME NEW text \in Seq(Lines), NEW kept
  PROVE  LinesOf(Keep(text, kept)) = LinesOf(text) \cap kept
BY KeepLines DEF LinesOf

LEMMA LinesOfParts ==
  ASSUME NEW S, NEW s \in Seq(S), NEW t \in Seq(S)
  PROVE  /\ s \o t \in Seq(S)
         /\ LinesOf(s \o t) = LinesOf(s) \cup LinesOf(t)
<1>1. /\ s \o t \in Seq(S) /\ Len(s \o t) = Len(s) + Len(t)
      /\ Len(s) \in Nat /\ Len(t) \in Nat
      /\ \A i \in 1 .. Len(s) + Len(t) :
           (s \o t)[i] = IF i <= Len(s) THEN s[i] ELSE t[i - Len(s)]
  BY ConcatProperties, LenProperties
<1>2. LinesOf(s \o t) \subseteq LinesOf(s) \cup LinesOf(t)
  BY <1>1 DEF LinesOf
<1>3. \A i \in 1 .. Len(s) : i \in 1 .. Len(s) + Len(t) /\ (s \o t)[i] = s[i]
  BY <1>1
<1>4. \A i \in 1 .. Len(t) : Len(s) + i \in 1 .. Len(s) + Len(t) /\ (s \o t)[Len(s) + i] = t[i]
  BY <1>1
<1>5. ASSUME NEW x \in LinesOf(s) PROVE x \in LinesOf(s \o t)
  <2>1. PICK i \in 1 .. Len(s) : x = s[i]
    BY DEF LinesOf
  <2>. QED BY <1>1, <1>3, <2>1 DEF LinesOf
<1>6. ASSUME NEW x \in LinesOf(t) PROVE x \in LinesOf(s \o t)
  <2>1. PICK i \in 1 .. Len(t) : x = t[i]
    BY DEF LinesOf
  <2>. QED BY <1>1, <1>4, <2>1 DEF LinesOf
<1>. QED BY <1>1, <1>2, <1>5, <1>6

\* The texts of a file put together.
LEMMA JoinLines ==
  \A s, t \in Seq(Lines) :
    /\ s \o t \in Seq(Lines)
    /\ LinesOf(s \o t) = LinesOf(s) \cup LinesOf(t)
    /\ Keep(s \o t, AsInstalled) = Keep(s, AsInstalled) \o Keep(t, AsInstalled)
<1>. TAKE s, t \in Seq(Lines)
<1>1. s \o t \in Seq(Lines) /\ LinesOf(s \o t) = LinesOf(s) \cup LinesOf(t)
  BY LinesOfParts
<1>2. Keep(s \o t, AsInstalled) = Keep(s, AsInstalled) \o Keep(t, AsInstalled)
  BY KeepConcat
<1>. QED BY <1>1, <1>2

\* A text cut at one of its lines.
LEMMA CutText ==
  ASSUME NEW S, NEW text \in Seq(S), NEW i \in 1 .. Len(text)
  PROVE  LET before == SubSeq(text, 1, i - 1)
             from   == SubSeq(text, i, Len(text))
             after  == SubSeq(text, i + 1, Len(text))
         IN  /\ before \in Seq(S) /\ from \in Seq(S) /\ after \in Seq(S)
             /\ before \o from = text
             /\ before \o <<text[i]>> \o after = text
<1>1. Len(text) \in Nat /\ \A k \in 1 .. Len(text) : text[k] \in S
  BY LenProperties, ElementOfSeq
<1>2. /\ SubSeq(text, 1, i - 1) \in Seq(S) /\ SubSeq(text, i, Len(text)) \in Seq(S)
      /\ SubSeq(text, i + 1, Len(text)) \in Seq(S)
  BY <1>1
<1>3. \A k \in 0 .. Len(text) :
        SubSeq(text, 1, k) \o SubSeq(text, k + 1, Len(text)) = text
  <2>. TAKE k \in 0 .. Len(text)
  <2>1. 1 \in 1 .. Len(text) + 1 /\ k \in 1 - 1 .. Len(text) /\ Len(text) \in k .. Len(text)
    BY <1>1
  <2>2. SubSeq(text, 1, k) \o SubSeq(text, k + 1, Len(text)) = SubSeq(text, 1, Len(text))
    BY <2>1, ConcatAdjacentSubSeq
  <2>. QED BY <2>2, SubSeqFull
<1>4. SubSeq(text, 1, i - 1) \o SubSeq(text, i, Len(text)) = text
  <2>1. i - 1 \in 0 .. Len(text) /\ i - 1 + 1 = i
    BY <1>1
  <2>. QED BY <1>3, <2>1
<1>5. SubSeq(text, 1, i) \o SubSeq(text, i + 1, Len(text)) = text
  BY <1>1, <1>3
<1>6. SubSeq(text, 1, i - 1) \o <<text[i]>> = SubSeq(text, 1, i)
  <2>1. 1 \in 1 .. Len(text) /\ i \in 1 .. Len(text)
    BY <1>1
  <2>. QED BY <2>1, SubSeqRecursiveSecond
<1>. QED BY <1>2, <1>4, <1>5, <1>6

\* One line is a text.
LEMMA OneLine ==
  ASSUME NEW S, NEW e \in S
  PROVE  <<e>> \in Seq(S) /\ LinesOf(<<e>>) = {e}
<1>1. <<e>> \in Seq(S) /\ Len(<<e>>) = 1 /\ <<e>>[1] = e
  OBVIOUS
<1>. QED BY <1>1 DEF LinesOf

\* A line more at the end.
LEMMA OneLineMore ==
  ASSUME NEW S, NEW text \in Seq(S), NEW e \in S
  PROVE  /\ Append(text, e) \in Seq(S) /\ Append(text, e) = text \o <<e>>
         /\ LinesOf(Append(text, e)) = LinesOf(text) \cup {e}
<1>1. Append(text, e) \in Seq(S) /\ Append(text, e) = text \o <<e>>
  BY AppendProperties, AppendIsConcat
<1>2. <<e>> \in Seq(S) /\ LinesOf(<<e>>) = {e}
  BY OneLine
<1>. DEFINE last == <<e>>
<1>. HIDE DEF last
<1>3. last \in Seq(S) /\ LinesOf(last) = {e}
  BY <1>2 DEF last
<1>4. LinesOf(text \o last) = LinesOf(text) \cup LinesOf(last)
  BY <1>3, LinesOfParts
<1>. QED BY <1>1, <1>3, <1>4 DEF last

OwnLines == {l \in Lines : l.mark # "none"}

\* What is put into a text with the helper's own lines is the same text still.
LEMMA InsertOwn ==
  ASSUME NEW before \in Seq(Lines), NEW own \in Seq(OwnLines), NEW after \in Seq(Lines)
  PROVE  /\ before \o own \o after \in Seq(Lines)
         /\ Keep(before \o own \o after, AsInstalled) = Keep(before \o after, AsInstalled)
         /\ LinesOf(before \o own \o after) = LinesOf(before \o after) \cup LinesOf(own)
<1>1. own \in Seq(Lines)
  <2>1. OwnLines \subseteq Lines
    BY DEF OwnLines
  <2>. QED BY <2>1, SeqMonotonic
<1>. DEFINE head == before \o own
<1>2. Keep(own, AsInstalled) = <<>>
  <2>1. OwnLines \cap AsInstalled = {}
    BY DEF OwnLines, AsInstalled
  <2>. QED BY <2>1, KeepAllOrNone
<1>3. /\ head \in Seq(Lines)
      /\ LinesOf(head) = LinesOf(before) \cup LinesOf(own)
      /\ Keep(head, AsInstalled) = Keep(before, AsInstalled) \o Keep(own, AsInstalled)
  BY <1>1, JoinLines
<1>. HIDE DEF head
<1>4. /\ head \o after \in Seq(Lines)
      /\ LinesOf(head \o after) = LinesOf(head) \cup LinesOf(after)
      /\ Keep(head \o after, AsInstalled) = Keep(head, AsInstalled) \o Keep(after, AsInstalled)
  BY <1>3, JoinLines
<1>5. /\ LinesOf(before \o after) = LinesOf(before) \cup LinesOf(after)
      /\ Keep(before \o after, AsInstalled) = Keep(before, AsInstalled) \o Keep(after, AsInstalled)
  BY JoinLines
<1>6. Keep(before, AsInstalled) \in Seq(Lines)
  BY KeepType
<1>7. Keep(before, AsInstalled) \o <<>> = Keep(before, AsInstalled)
  BY <1>6, ConcatEmptySeq
<1>8. Keep(head \o after, AsInstalled) = Keep(before \o after, AsInstalled)
  BY <1>2, <1>3, <1>4, <1>5, <1>7
<1>9. LinesOf(head \o after) = LinesOf(before \o after) \cup LinesOf(own)
  BY <1>3, <1>4, <1>5
<1>. QED BY <1>4, <1>8, <1>9 DEF head

\* The block of a set of methods.
LEMMA PreAndPost ==
  ASSUME NEW methods
  PROVE  /\ Pre(methods) \in Seq(Contributions) /\ Post(methods) \in Seq(Contributions)
         /\ LinesOf(Pre(methods)) = {"preauth"} \cup ({"face", "fingerprint"} \cap methods)
         /\ LinesOf(Post(methods)) = {"authfail"} \cup ({"totp"} \cap methods)
<1>1. \A what \in Contributions : /\ Only(what, methods) \in Seq(Contributions)
                                  /\ LinesOf(Only(what, methods)) = {what} \cap methods
  <2>. TAKE what \in Contributions
  <2>1. CASE what \in methods
    BY <2>1, OneLine DEF Only
  <2>2. CASE what \notin methods
    <3>1. LinesOf(<<>>) = {} /\ <<>> \in Seq(Contributions)
      BY EmptySeq DEF LinesOf
    <3>. QED BY <2>2, <3>1 DEF Only
  <2>. QED BY <2>1, <2>2
<1>2. {"preauth", "face", "fingerprint", "totp", "authfail"} \subseteq Contributions
  BY DEF Contributions
<1>3. /\ <<"preauth">> \in Seq(Contributions) /\ LinesOf(<<"preauth">>) = {"preauth"}
      /\ <<"authfail">> \in Seq(Contributions) /\ LinesOf(<<"authfail">>) = {"authfail"}
  BY <1>2, OneLine
<1>4. /\ Only("face", methods) \in Seq(Contributions)
      /\ Only("fingerprint", methods) \in Seq(Contributions)
      /\ Only("totp", methods) \in Seq(Contributions)
      /\ LinesOf(Only("face", methods)) = {"face"} \cap methods
      /\ LinesOf(Only("fingerprint", methods)) = {"fingerprint"} \cap methods
      /\ LinesOf(Only("totp", methods)) = {"totp"} \cap methods
  BY <1>1, <1>2
<1>5. \A s, t \in Seq(Contributions) : /\ s \o t \in Seq(Contributions)
                                       /\ LinesOf(s \o t) = LinesOf(s) \cup LinesOf(t)
  BY LinesOfParts
<1>. DEFINE preauth == <<"preauth">>
            face == Only("face", methods)
            fingerprint == Only("fingerprint", methods)
            totp == Only("totp", methods)
            authfail == <<"authfail">>
<1>6. Pre(methods) = preauth \o face \o fingerprint /\ Post(methods) = totp \o authfail
  BY DEF Pre, Post
<1>7. /\ preauth \in Seq(Contributions) /\ LinesOf(preauth) = {"preauth"}
      /\ authfail \in Seq(Contributions) /\ LinesOf(authfail) = {"authfail"}
      /\ face \in Seq(Contributions) /\ LinesOf(face) = {"face"} \cap methods
      /\ fingerprint \in Seq(Contributions) /\ LinesOf(fingerprint) = {"fingerprint"} \cap methods
      /\ totp \in Seq(Contributions) /\ LinesOf(totp) = {"totp"} \cap methods
  BY <1>3, <1>4
<1>. HIDE DEF preauth, face, fingerprint, totp, authfail
<1>8. preauth \o face \in Seq(Contributions) /\ LinesOf(preauth \o face) = LinesOf(preauth) \cup LinesOf(face)
  BY <1>5, <1>7
<1>9. /\ preauth \o face \o fingerprint \in Seq(Contributions)
      /\ LinesOf(preauth \o face \o fingerprint) = LinesOf(preauth \o face) \cup LinesOf(fingerprint)
  BY <1>5, <1>7, <1>8
<1>10. totp \o authfail \in Seq(Contributions) /\ LinesOf(totp \o authfail) = LinesOf(totp) \cup LinesOf(authfail)
  BY <1>5, <1>7
<1>11. LinesOf(Pre(methods)) = {"preauth"} \cup ({"face", "fingerprint"} \cap methods)
  BY <1>6, <1>7, <1>8, <1>9
<1>12. LinesOf(Post(methods)) = {"authfail"} \cup ({"totp"} \cap methods)
  BY <1>6, <1>7, <1>10
<1>. QED BY <1>6, <1>9, <1>10, <1>11, <1>12

\* Marked lines are the helper's own.
LEMMA MarkedText ==
  ASSUME NEW whats \in Seq(Contributions)
  PROVE  /\ Marked(whats) \in Seq(OwnLines)
         /\ LinesOf(Marked(whats)) = {Security(w) : w \in LinesOf(whats)}
<1>1. \A w \in Contributions : Security(w) \in OwnLines
  BY DEF Security, OwnLines, Lines, Phases
<1>2. /\ Len(whats) \in Nat /\ \A i \in 1 .. Len(whats) : whats[i] \in Contributions
  BY LenProperties, ElementOfSeq
<1>3. /\ Marked(whats) \in Seq(OwnLines) /\ Len(Marked(whats)) = Len(whats)
      /\ \A i \in 1 .. Len(whats) : Marked(whats)[i] = Security(whats[i])
  BY <1>1, <1>2, IsASeq DEF Marked
<1>. HIDE DEF Marked
<1>4. LinesOf(Marked(whats)) = {Marked(whats)[i] : i \in 1 .. Len(whats)}
  BY <1>3 DEF LinesOf
<1>. QED BY <1>3, <1>4 DEF LinesOf

Block(methods) ==
  {Security(w) : w \in {"preauth", "authfail"} \cup ({"face", "fingerprint", "totp"} \cap methods)}

\* The block goes around a line of the text.
LEMMA AroundText ==
  ASSUME NEW lines \in Seq(Lines), NEW anchor \in 1 .. Len(lines), NEW methods
  PROVE  /\ Around(lines, anchor, methods) \in Seq(Lines)
         /\ Keep(Around(lines, anchor, methods), AsInstalled) = Keep(lines, AsInstalled)
         /\ LinesOf(Around(lines, anchor, methods)) = LinesOf(lines) \cup Block(methods)
<1>. DEFINE before == SubSeq(lines, 1, anchor - 1)
            one    == <<lines[anchor]>>
            after  == SubSeq(lines, anchor + 1, Len(lines))
            pre    == Marked(Pre(methods))
            post   == Marked(Post(methods))
<1>1. before \in Seq(Lines) /\ after \in Seq(Lines) /\ before \o one \o after = lines
  BY CutText
<1>2. one \in Seq(Lines)
  <2>1. lines[anchor] \in Lines
    BY ElementOfSeq
  <2>. QED BY <2>1, OneLine
<1>3. pre \in Seq(OwnLines) /\ post \in Seq(OwnLines)
  BY PreAndPost, MarkedText
<1>4. LinesOf(pre) \cup LinesOf(post) = Block(methods)
  <2>1. /\ LinesOf(pre) = {Security(w) : w \in LinesOf(Pre(methods))}
        /\ LinesOf(post) = {Security(w) : w \in LinesOf(Post(methods))}
    BY PreAndPost, MarkedText
  <2>. QED BY <2>1, PreAndPost DEF Block
<1>. DEFINE old == before \o one
            new == before \o pre \o one
<1>5. Around(lines, anchor, methods) = new \o post \o after /\ lines = old \o after
  BY <1>1 DEF Around
<1>. HIDE DEF before, one, after, pre, post
<1>6. /\ new \in Seq(Lines)
      /\ Keep(new, AsInstalled) = Keep(old, AsInstalled)
      /\ LinesOf(new) = LinesOf(old) \cup LinesOf(pre)
  BY <1>1, <1>2, <1>3, InsertOwn
<1>7. old \in Seq(Lines)
  BY <1>1, <1>2, JoinLines
<1>. HIDE DEF old, new
<1>8. /\ new \o post \o after \in Seq(Lines)
      /\ Keep(new \o post \o after, AsInstalled) = Keep(new \o after, AsInstalled)
      /\ LinesOf(new \o post \o after) = LinesOf(new \o after) \cup LinesOf(post)
  BY <1>1, <1>3, <1>6, InsertOwn
<1>9. /\ Keep(new \o after, AsInstalled) = Keep(new, AsInstalled) \o Keep(after, AsInstalled)
      /\ LinesOf(new \o after) = LinesOf(new) \cup LinesOf(after)
      /\ Keep(old \o after, AsInstalled) = Keep(old, AsInstalled) \o Keep(after, AsInstalled)
      /\ LinesOf(old \o after) = LinesOf(old) \cup LinesOf(after)
  BY <1>1, <1>6, <1>7, JoinLines
<1>10. LinesOf(new \o post \o after) = LinesOf(old \o after) \cup Block(methods)
  BY <1>4, <1>6, <1>8, <1>9
<1>. QED BY <1>5, <1>6, <1>8, <1>9, <1>10

\* The least of a set of places is one of them.
LEMMA FirstPlace ==
  ASSUME NEW places, places \subseteq Nat, places # {}
  PROVE  Min(places) \in places
<1>1. PICK n \in places : \A k \in places : n <= k
  BY LeastNumber
<1>. QED BY <1>1 DEF Min

\* The anchor is a line of the text, if there is a password in it.
LEMMA AnchorPlace ==
  ASSUME NEW text \in Seq(Lines)
  PROVE  /\ Anchor(text) = 0 \/ Anchor(text) \in 1 .. Len(text)
         /\ Anchor(text) = 0 <=> \A l \in LinesOf(text) : ~(l.phase = "auth" /\ l.what = "unix")
<1>. DEFINE places == {i \in 1 .. Len(text) : text[i].phase = "auth" /\ text[i].what = "unix"}
<1>1. Anchor(text) = IF places # {} THEN Min(places) ELSE 0
  BY DEF Anchor, SelectInSeq
<1>2. places \subseteq Nat /\ places \subseteq 1 .. Len(text) /\ 0 \notin places
  OBVIOUS
<1>3. places = {} <=> \A l \in LinesOf(text) : ~(l.phase = "auth" /\ l.what = "unix")
  BY DEF LinesOf
<1>. HIDE DEF places
<1>4. places # {} => Min(places) \in places
  BY <1>2, FirstPlace
<1>. QED BY <1>1, <1>2, <1>3, <1>4

\* Wiring a phase puts one line of the helper's own into a text.
LEMMA WireInText ==
  ASSUME NEW text \in Seq(Lines), NEW phase \in Phases
  PROVE  /\ WireIn(text, phase) \in Seq(Lines)
         /\ Keep(WireIn(text, phase), AsInstalled) = Keep(text, AsInstalled)
         /\ LinesOf(WireIn(text, phase)) = LinesOf(text) \cup {Azure(phase)}
<1>. DEFINE places == {i \in 1 .. Len(text) : text[i].phase = phase}
            first == IF places # {} THEN Min(places) ELSE 0
            own == <<Azure(phase)>>
<1>1. WireIn(text, phase) = IF first = 0 THEN Append(text, Azure(phase))
                                         ELSE InsertAt(text, first, Azure(phase))
  BY DEF WireIn, SelectInSeq
<1>2. first = 0 \/ first \in 1 .. Len(text)
  <2>1. places \subseteq Nat /\ places \subseteq 1 .. Len(text)
    OBVIOUS
  <2>. HIDE DEF places
  <2>2. places # {} => Min(places) \in places
    BY <2>1, FirstPlace
  <2>. QED BY <2>1, <2>2
<1>. HIDE DEF first
<1>3. Azure(phase) \in OwnLines
  BY DEF Azure, OwnLines, Lines, Contributions
<1>4. own \in Seq(OwnLines) /\ LinesOf(own) = {Azure(phase)}
  BY <1>3, OneLine
<1>5. CASE first = 0
  <2>1. text \o <<>> = text /\ <<>> \in Seq(Lines)
    BY ConcatEmptySeq, EmptySeq
  <2>2. text \o own \in Seq(Lines)
    <3>1. OwnLines \subseteq Lines
      BY DEF OwnLines
    <3>2. own \in Seq(Lines)
      BY <1>4, <3>1, SeqMonotonic
    <3>. HIDE DEF own
    <3>. QED BY <3>2, JoinLines
  <2>3. text \o own \o <<>> = text \o own
    <3>. DEFINE new == text \o own
    <3>. HIDE DEF new
    <3>1. new \in Seq(Lines)
      BY <2>2 DEF new
    <3>2. new \o <<>> = new
      BY <3>1, ConcatEmptySeq
    <3>. QED BY <3>2 DEF new
  <2>4. Append(text, Azure(phase)) = text \o own
    BY AppendIsConcat
  <2>. HIDE DEF own
  <2>5. /\ Keep(text \o own \o <<>>, AsInstalled) = Keep(text \o <<>>, AsInstalled)
        /\ LinesOf(text \o own \o <<>>) = LinesOf(text \o <<>>) \cup LinesOf(own)
    BY <1>4, <2>1, InsertOwn
  <2>6. WireIn(text, phase) = text \o own
    BY <1>1, <1>5, <2>4
  <2>. QED BY <1>4, <2>1, <2>2, <2>3, <2>5, <2>6
<1>6. CASE first \in 1 .. Len(text)
  <2>. DEFINE before == SubSeq(text, 1, first - 1)
              from   == SubSeq(text, first, Len(text))
  <2>1. before \in Seq(Lines) /\ from \in Seq(Lines) /\ before \o from = text
    BY <1>6, CutText
  <2>2. WireIn(text, phase) = before \o own \o from
    BY <1>1, <1>6 DEF InsertAt
  <2>. HIDE DEF before, from, own
  <2>3. /\ before \o own \o from \in Seq(Lines)
        /\ Keep(before \o own \o from, AsInstalled) = Keep(before \o from, AsInstalled)
        /\ LinesOf(before \o own \o from) = LinesOf(before \o from) \cup LinesOf(own)
    BY <1>4, <2>1, InsertOwn
  <2>. QED BY <1>4, <2>1, <2>2, <2>3
<1>. QED BY <1>2, <1>5, <1>6

\* What the helper makes of a text has the lines that were installed, and of
\* its own those it is to have.
LEMMA RebuildText ==
  ASSUME NEW text \in Seq(Lines), NEW methods
  PROVE  LET new == Rebuild(text, methods)
         IN  /\ new \in Seq(Lines)
             /\ Keep(new, AsInstalled) = Keep(text, AsInstalled)
             /\ LinesOf(new) = (LinesOf(text) \cap NotManaged)
                  \cup IF methods = {} \/ Anchor(Unmanaged(text)) = 0 THEN {} ELSE Block(methods)
<1>. DEFINE lines == Unmanaged(text)
            anchor == Anchor(lines)
<1>1. lines \in Seq(Lines)
  BY KeepType DEF Unmanaged
<1>2. LinesOf(lines) = LinesOf(text) \cap NotManaged
  BY KeepLines DEF Unmanaged, LinesOf
<1>3. Keep(lines, AsInstalled) = Keep(text, AsInstalled)
  <2>1. AsInstalled \in SUBSET NotManaged
    BY DEF AsInstalled, NotManaged, Managed
  <2>. QED BY <2>1, KeepTwice DEF Unmanaged
<1>4. Rebuild(text, methods)
        = IF methods = {} \/ anchor = 0 THEN lines ELSE Around(lines, anchor, methods)
  BY DEF Rebuild
<1>. HIDE DEF lines
<1>5. CASE methods = {} \/ anchor = 0
  BY <1>1, <1>2, <1>3, <1>4, <1>5 DEF lines
<1>6. CASE ~(methods = {} \/ anchor = 0)
  <2>1. anchor \in 1 .. Len(lines)
    BY <1>1, <1>6, AnchorPlace
  <2>2. /\ Around(lines, anchor, methods) \in Seq(Lines)
        /\ Keep(Around(lines, anchor, methods), AsInstalled) = Keep(lines, AsInstalled)
        /\ LinesOf(Around(lines, anchor, methods)) = LinesOf(lines) \cup Block(methods)
    BY <1>1, <2>1, AroundText
  <2>3. Rebuild(text, methods) = Around(lines, anchor, methods)
    BY <1>4, <1>6
  <2>4. ~(methods = {} \/ Anchor(Unmanaged(text)) = 0)
    BY <1>6 DEF lines
  <2>. QED BY <1>2, <1>3, <2>2, <2>3, <2>4
<1>. QED BY <1>5, <1>6

\* The same of himmelblau's lines.
LEMMA WireRebuildText ==
  ASSUME NEW text \in Seq(Lines), NEW on \in BOOLEAN
  PROVE  LET new == WireRebuild(text, on)
         IN  /\ new \in Seq(Lines)
             /\ Keep(new, AsInstalled) = Keep(text, AsInstalled)
             /\ LinesOf(new) = (LinesOf(text) \cap NotWired)
                  \cup IF on THEN {Azure(phase) : phase \in Phases} ELSE {}
<1>. DEFINE lines == Keep(text, NotWired)
            one   == WireIn(lines, "auth")
            two   == WireIn(one, "account")
            three == WireIn(two, "password")
            four  == WireIn(three, "session")
<1>1. lines \in Seq(Lines)
  BY KeepType
<1>2. LinesOf(lines) = LinesOf(text) \cap NotWired
  BY KeepLines DEF LinesOf
<1>3. Keep(lines, AsInstalled) = Keep(text, AsInstalled)
  <2>1. AsInstalled \in SUBSET NotWired
    BY DEF AsInstalled, NotWired, Wired
  <2>. QED BY <2>1, KeepTwice
<1>4. WireRebuild(text, on) = IF on THEN four ELSE lines
  BY DEF WireRebuild
<1>. HIDE DEF lines
<1>5. Phases = {"auth", "account", "password", "session"}
  BY DEF Phases
<1>6. /\ one \in Seq(Lines) /\ Keep(one, AsInstalled) = Keep(lines, AsInstalled)
      /\ LinesOf(one) = LinesOf(lines) \cup {Azure("auth")}
  BY <1>1, <1>5, WireInText
<1>. HIDE DEF one
<1>7. /\ two \in Seq(Lines) /\ Keep(two, AsInstalled) = Keep(one, AsInstalled)
      /\ LinesOf(two) = LinesOf(one) \cup {Azure("account")}
  BY <1>5, <1>6, WireInText
<1>. HIDE DEF two
<1>8. /\ three \in Seq(Lines) /\ Keep(three, AsInstalled) = Keep(two, AsInstalled)
      /\ LinesOf(three) = LinesOf(two) \cup {Azure("password")}
  BY <1>5, <1>7, WireInText
<1>. HIDE DEF three
<1>9. /\ four \in Seq(Lines) /\ Keep(four, AsInstalled) = Keep(three, AsInstalled)
      /\ LinesOf(four) = LinesOf(three) \cup {Azure("session")}
  BY <1>5, <1>8, WireInText
<1>. HIDE DEF four
<1>10. {Azure(phase) : phase \in Phases}
         = {Azure("auth"), Azure("account"), Azure("password"), Azure("session")}
  BY <1>5
<1>11. LinesOf(four) = LinesOf(lines) \cup {Azure(phase) : phase \in Phases}
  BY <1>6, <1>7, <1>8, <1>9, <1>10
<1>12. Keep(four, AsInstalled) = Keep(lines, AsInstalled)
  BY <1>6, <1>7, <1>8, <1>9
<1>. QED BY <1>1, <1>2, <1>3, <1>4, <1>9, <1>11, <1>12

-----------------------------------------------------------------------------
(* Where the lines stand *)

\* No line of a text comes before another that must not follow it.
Avoids(text, pairs) ==
  \A i, j \in 1 .. Len(text) : i < j => <<text[i], text[j]>> \notin pairs

\* Every line "of" comes behind one of "lead".
Led(text, of, lead) ==
  \A j \in 1 .. Len(text) : text[j] = of => \E i \in 1 .. Len(text) : i < j /\ text[i] \in lead

\* The lines of a text that is two put together, by place.
LEMMA PartsByPlace ==
  ASSUME NEW S, NEW s \in Seq(S), NEW t \in Seq(S)
  PROVE  /\ Len(s) \in Nat /\ Len(t) \in Nat /\ Len(s \o t) = Len(s) + Len(t)
         /\ \A i \in 1 .. Len(s) : i \in 1 .. Len(s \o t) /\ (s \o t)[i] = s[i]
         /\ \A i \in 1 .. Len(t) :
              Len(s) + i \in 1 .. Len(s \o t) /\ (s \o t)[Len(s) + i] = t[i]
         /\ \A i \in 1 .. Len(s \o t) :
              \/ i \in 1 .. Len(s) /\ (s \o t)[i] = s[i]
              \/ i > Len(s) /\ i - Len(s) \in 1 .. Len(t) /\ (s \o t)[i] = t[i - Len(s)]
<1>1. /\ Len(s \o t) = Len(s) + Len(t) /\ Len(s) \in Nat /\ Len(t) \in Nat
      /\ \A i \in 1 .. Len(s) + Len(t) :
           (s \o t)[i] = IF i <= Len(s) THEN s[i] ELSE t[i - Len(s)]
  BY ConcatProperties, LenProperties
<1>. QED BY <1>1

\* Two texts put together avoid what each does, and what could be across.
LEMMA AvoidsParts ==
  ASSUME NEW S, NEW s \in Seq(S), NEW t \in Seq(S), NEW pairs
  PROVE  Avoids(s \o t, pairs) <=>
           /\ Avoids(s, pairs) /\ Avoids(t, pairs)
           /\ \A x \in LinesOf(s), y \in LinesOf(t) : <<x, y>> \notin pairs
<1>. DEFINE u == s \o t
<1>1. /\ Len(s) \in Nat /\ Len(t) \in Nat /\ Len(u) = Len(s) + Len(t)
      /\ \A i \in 1 .. Len(s) : i \in 1 .. Len(u) /\ u[i] = s[i]
      /\ \A i \in 1 .. Len(t) : Len(s) + i \in 1 .. Len(u) /\ u[Len(s) + i] = t[i]
      /\ \A i \in 1 .. Len(u) :
           \/ i \in 1 .. Len(s) /\ u[i] = s[i]
           \/ i > Len(s) /\ i - Len(s) \in 1 .. Len(t) /\ u[i] = t[i - Len(s)]
  BY PartsByPlace
<1>. HIDE DEF u
<1>2. ASSUME Avoids(u, pairs) PROVE Avoids(s, pairs)
  BY <1>1, <1>2 DEF Avoids
<1>3. ASSUME Avoids(u, pairs) PROVE Avoids(t, pairs)
  <2>. SUFFICES ASSUME NEW i \in 1 .. Len(t), NEW j \in 1 .. Len(t), i < j
                PROVE  <<t[i], t[j]>> \notin pairs
    BY DEF Avoids
  <2>1. Len(s) + i < Len(s) + j
    BY <1>1
  <2>. QED BY <1>1, <1>3, <2>1 DEF Avoids
<1>4. ASSUME Avoids(u, pairs), NEW x \in LinesOf(s), NEW y \in LinesOf(t)
      PROVE  <<x, y>> \notin pairs
  <2>1. PICK i \in 1 .. Len(s) : x = s[i]
    BY DEF LinesOf
  <2>2. PICK j \in 1 .. Len(t) : y = t[j]
    BY DEF LinesOf
  <2>3. i < Len(s) + j
    BY <1>1
  <2>. QED BY <1>1, <1>4, <2>1, <2>2, <2>3 DEF Avoids
<1>5. ASSUME Avoids(s, pairs), Avoids(t, pairs),
             \A x \in LinesOf(s), y \in LinesOf(t) : <<x, y>> \notin pairs
      PROVE  Avoids(u, pairs)
  <2>. SUFFICES ASSUME NEW i \in 1 .. Len(u), NEW j \in 1 .. Len(u), i < j
                PROVE  <<u[i], u[j]>> \notin pairs
    BY DEF Avoids
  <2>1. CASE j \in 1 .. Len(s)
    <3>1. i \in 1 .. Len(s) /\ u[i] = s[i] /\ u[j] = s[j]
      BY <1>1, <2>1
    <3>. QED BY <1>5, <2>1, <3>1 DEF Avoids
  <2>2. CASE i \in 1 .. Len(s) /\ j > Len(s)
    <3>1. u[i] \in LinesOf(s) /\ u[j] \in LinesOf(t)
      BY <1>1, <2>2 DEF LinesOf
    <3>. QED BY <1>5, <3>1
  <2>3. CASE i > Len(s) /\ j > Len(s)
    <3>1. /\ i - Len(s) \in 1 .. Len(t) /\ j - Len(s) \in 1 .. Len(t) /\ i - Len(s) < j - Len(s)
          /\ u[i] = t[i - Len(s)] /\ u[j] = t[j - Len(s)]
      BY <1>1, <2>3
    <3>. QED BY <1>5, <3>1 DEF Avoids
  <2>. QED BY <1>1, <2>1, <2>2, <2>3
<1>. QED BY <1>2, <1>3, <1>4, <1>5 DEF u

\* In two texts put together a line of the second may be led by one of the first.
LEMMA LedParts ==
  ASSUME NEW S, NEW s \in Seq(S), NEW t \in Seq(S), NEW of, NEW lead
  PROVE  Led(s \o t, of, lead) <=>
           /\ Led(s, of, lead)
           /\ Led(t, of, lead) \/ LinesOf(s) \cap lead # {}
<1>. DEFINE u == s \o t
<1>1. /\ Len(s) \in Nat /\ Len(t) \in Nat /\ Len(u) = Len(s) + Len(t)
      /\ \A i \in 1 .. Len(s) : i \in 1 .. Len(u) /\ u[i] = s[i]
      /\ \A i \in 1 .. Len(t) : Len(s) + i \in 1 .. Len(u) /\ u[Len(s) + i] = t[i]
      /\ \A i \in 1 .. Len(u) :
           \/ i \in 1 .. Len(s) /\ u[i] = s[i]
           \/ i > Len(s) /\ i - Len(s) \in 1 .. Len(t) /\ u[i] = t[i - Len(s)]
  BY PartsByPlace
<1>. HIDE DEF u
<1>2. ASSUME Led(u, of, lead) PROVE Led(s, of, lead)
  <2>. SUFFICES ASSUME NEW j \in 1 .. Len(s), s[j] = of
                PROVE  \E i \in 1 .. Len(s) : i < j /\ s[i] \in lead
    BY DEF Led
  <2>1. PICK i \in 1 .. Len(u) : i < j /\ u[i] \in lead
    BY <1>1, <1>2 DEF Led
  <2>. QED BY <1>1, <2>1
<1>3. ASSUME Led(u, of, lead), LinesOf(s) \cap lead = {} PROVE Led(t, of, lead)
  <2>. SUFFICES ASSUME NEW j \in 1 .. Len(t), t[j] = of
                PROVE  \E i \in 1 .. Len(t) : i < j /\ t[i] \in lead
    BY DEF Led
  <2>1. PICK i \in 1 .. Len(u) : i < Len(s) + j /\ u[i] \in lead
    BY <1>1, <1>3 DEF Led
  <2>2. i \notin 1 .. Len(s)
    BY <1>1, <1>3, <2>1 DEF LinesOf
  <2>3. i - Len(s) \in 1 .. Len(t) /\ i - Len(s) < j /\ t[i - Len(s)] \in lead
    BY <1>1, <2>1, <2>2
  <2>. QED BY <2>3
<1>4. ASSUME Led(s, of, lead), Led(t, of, lead) \/ LinesOf(s) \cap lead # {}
      PROVE  Led(u, of, lead)
  <2>. SUFFICES ASSUME NEW j \in 1 .. Len(u), u[j] = of
                PROVE  \E i \in 1 .. Len(u) : i < j /\ u[i] \in lead
    BY DEF Led
  <2>1. CASE j \in 1 .. Len(s)
    <3>1. PICK i \in 1 .. Len(s) : i < j /\ s[i] \in lead
      BY <1>1, <1>4, <2>1 DEF Led
    <3>. QED BY <1>1, <3>1
  <2>2. CASE j > Len(s) /\ LinesOf(s) \cap lead # {}
    <3>1. PICK i \in 1 .. Len(s) : s[i] \in lead
      BY <2>2 DEF LinesOf
    <3>2. i \in 1 .. Len(u) /\ i < j /\ u[i] \in lead
      BY <1>1, <2>2, <3>1
    <3>. QED BY <3>2
  <2>3. CASE j > Len(s) /\ Led(t, of, lead)
    <3>1. j - Len(s) \in 1 .. Len(t) /\ t[j - Len(s)] = of
      BY <1>1, <2>3
    <3>2. PICK i \in 1 .. Len(t) : i < j - Len(s) /\ t[i] \in lead
      BY <2>3, <3>1 DEF Led
    <3>3. Len(s) + i \in 1 .. Len(u) /\ Len(s) + i < j /\ u[Len(s) + i] \in lead
      BY <1>1, <3>2
    <3>. QED BY <3>3
  <2>. QED BY <1>1, <1>4, <2>1, <2>2, <2>3
<1>. QED BY <1>2, <1>3, <1>4 DEF u

\* A text of one line, or of none, is in order.
LEMMA OneLineOrdered ==
  ASSUME NEW S, NEW e \in S, NEW of, NEW lead, NEW pairs
  PROVE  /\ Avoids(<<e>>, pairs) /\ Avoids(<<>>, pairs) /\ Led(<<>>, of, lead)
         /\ Led(<<e>>, of, lead) <=> e # of
<1>1. <<e>> \in Seq(S) /\ Len(<<e>>) = 1 /\ <<e>>[1] = e /\ Len(<<>>) = 0
  BY EmptySeq
<1>. DEFINE u == <<e>>
<1>. HIDE DEF u
<1>2. Avoids(u, pairs) /\ (Led(u, of, lead) <=> e # of)
  BY <1>1 DEF Avoids, Led, u
<1>3. Avoids(<<>>, pairs) /\ Led(<<>>, of, lead)
  BY <1>1 DEF Avoids, Led
<1>. QED BY <1>2, <1>3 DEF u

\* Keeping some lines leaves those in order, if the leading ones are kept.
LEMMA KeepInOrder ==
  ASSUME NEW S, NEW kept, NEW of, NEW lead, NEW pairs
  PROVE  \A t \in Seq(S) :
           /\ Avoids(t, pairs) => Avoids(Keep(t, kept), pairs)
           /\ lead \cap S \subseteq kept /\ Led(t, of, lead) => Led(Keep(t, kept), of, lead)
<1>. DEFINE Good(t) ==
       /\ Avoids(t, pairs) => Avoids(Keep(t, kept), pairs)
       /\ lead \cap S \subseteq kept /\ Led(t, of, lead) => Led(Keep(t, kept), of, lead)
            G == {t \in Seq(S) : Good(t)}
<1>1. <<>> \in G
  BY KeepEmpty, EmptySeq
<1>2. ASSUME NEW t \in Seq(S), NEW e \in S, t \in G PROVE Append(t, e) \in G
  <2>. DEFINE u == Append(t, e)
              last == <<e>>
              k == Keep(t, kept)
  <2>1. u \in Seq(S) /\ u = t \o last /\ LinesOf(last) = {e} /\ last \in Seq(S)
    BY OneLineMore, OneLine
  <2>2. k \in Seq(S) /\ LinesOf(k) = LinesOf(t) \cap kept
    <3>1. k \in Seq(S)
      BY KeepType
    <3>2. {k[i] : i \in 1 .. Len(k)} = {t[i] : i \in 1 .. Len(t)} \cap kept
      BY KeepLines
    <3>. HIDE DEF k
    <3>. QED BY <3>1, <3>2 DEF LinesOf
  <2>3. Append(k, e) = k \o last /\ Append(k, e) \in Seq(S)
    BY <2>2, OneLineMore
  <2>4. Keep(u, kept) = IF e \in kept THEN k \o last ELSE k
    BY <2>3, KeepAppend
  <2>5. Avoids(last, pairs) /\ (Led(last, of, lead) <=> e # of)
    BY OneLineOrdered
  <2>6. Good(t)
    BY <1>2
  <2>7. LinesOf(t) \subseteq S
    BY ElementOfSeq DEF LinesOf
  <2>. HIDE DEF u, last, k
  <2>8. Avoids(u, pairs) => Avoids(t, pairs) /\ \A x \in LinesOf(t) : <<x, e>> \notin pairs
    BY <2>1, AvoidsParts
  <2>9. Led(u, of, lead) => Led(t, of, lead) /\ (e # of \/ LinesOf(t) \cap lead # {})
    BY <2>1, <2>5, LedParts
  <2>10. Avoids(k, pairs) /\ (\A x \in LinesOf(k) : <<x, e>> \notin pairs) => Avoids(k \o last, pairs)
    BY <2>1, <2>2, <2>5, AvoidsParts
  <2>11. Led(k, of, lead) /\ (e # of \/ LinesOf(k) \cap lead # {}) => Led(k \o last, of, lead)
    BY <2>1, <2>2, <2>5, LedParts
  <2>12. Avoids(t, pairs) => Avoids(k, pairs)
    BY <2>6 DEF k
  <2>13. lead \cap S \subseteq kept /\ Led(t, of, lead) => Led(k, of, lead)
    BY <2>6 DEF k
  <2>14. Avoids(u, pairs) => Avoids(Keep(u, kept), pairs)
    BY <2>2, <2>4, <2>8, <2>10, <2>12
  <2>15. lead \cap S \subseteq kept /\ Led(u, of, lead) => Led(Keep(u, kept), of, lead)
    BY <2>2, <2>4, <2>7, <2>9, <2>11, <2>13
  <2>. QED BY <2>1, <2>14, <2>15 DEF u
<1>. HIDE DEF Good
<1>3. G = {t \in Seq(S) : Good(t)}
  OBVIOUS
<1>. HIDE DEF G
<1>4. \A t \in Seq(S) : t \in G
  BY <1>1, <1>2, TextInduction
<1>5. \A t \in Seq(S) : Good(t)
  BY <1>3, <1>4
<1>. QED BY <1>5 DEF Good

-----------------------------------------------------------------------------
(* The order of a stack *)

Distributions == {l \in Lines : l.phase = "auth" /\ l.what = "unix" /\ l.mark = "none"}

\* What may not come in this order: a managed line before "preauth" or behind
\* "authfail", a password before a biometric or before himmelblau.
Misplaced ==
  {pair \in Lines \X Lines :
     \/ Managed(pair[1]) /\ pair[2] = Security("preauth")
     \/ Managed(pair[2]) /\ pair[1] = Security("authfail")
     \/ /\ pair[1] \in Distributions
        /\ pair[2] \in {Security("face"), Security("fingerprint"), Azure("auth")}}

\* The managed lines are those of a set of methods, the wired ones himmelblau's,
\* and all stand where they are to stand.
Ordered(text) ==
  /\ \E methods \in SUBSET Methods :
       {l \in LinesOf(text) : Managed(l)} = IF methods = {} THEN {} ELSE Block(methods)
  /\ {l \in LinesOf(text) : Wired(l)} \subseteq {Azure(phase) : phase \in Phases}
  /\ Avoids(text, Misplaced)
  /\ Led(text, Security("totp"), Distributions)

\* The helper's lines by their markers.
LEMMA OwnMarks ==
  /\ \A w : Managed(Security(w)) /\ ~Wired(Security(w)) /\ Security(w).what = w
  /\ \A w : Security(w) \notin Distributions
  /\ \A w \in Contributions : Security(w) \in Lines
  /\ \A phase : Wired(Azure(phase)) /\ ~Managed(Azure(phase)) /\ Azure(phase).phase = phase
  /\ \A phase : Azure(phase) \notin Distributions
  /\ \A phase \in Phases : Azure(phase) \in Lines
  /\ \A l \in Distributions : ~Managed(l) /\ ~Wired(l)
  /\ \A v, w : Security(v) = Security(w) => v = w
  /\ \A v, phase : Security(v) # Azure(phase)
  /\ \A p, phase : Azure(p) = Azure(phase) => p = phase
BY DEF Managed, Wired, Security, Azure, Distributions, Lines, Phases, Contributions

\* What was installed is in order: nothing of it is the helper's.
LEMMA InstalledOrdered ==
  ASSUME NEW text \in Seq(AsInstalled)
  PROVE  Ordered(text)
<1>1. \A l \in AsInstalled : ~Managed(l) /\ ~Wired(l)
  BY DEF AsInstalled, Managed, Wired
<1>2. \A i \in 1 .. Len(text) : text[i] \in AsInstalled
  BY ElementOfSeq
<1>3. \A l \in LinesOf(text) : ~Managed(l) /\ ~Wired(l)
  BY <1>1, <1>2 DEF LinesOf
<1>4. Avoids(text, Misplaced)
  <2>1. \A x, y \in AsInstalled : <<x, y>> \notin Misplaced
    <3>. SUFFICES ASSUME NEW x \in AsInstalled, NEW y \in AsInstalled, <<x, y>> \in Misplaced
                  PROVE  FALSE
      OBVIOUS
    <3>1. y # Security("preauth") /\ y \notin {Security("face"), Security("fingerprint"), Azure("auth")}
      BY <1>1, OwnMarks
    <3>. QED BY <1>1, <3>1 DEF Misplaced
  <2>. QED BY <1>2, <2>1 DEF Avoids
<1>5. Led(text, Security("totp"), Distributions)
  BY <1>1, <1>2, OwnMarks DEF Led
<1>. QED BY <1>3, <1>4, <1>5 DEF Ordered

\* A text remains in order when the managed or the wired lines are taken out.
LEMMA KeepOrdered ==
  ASSUME NEW text \in Seq(Lines), Ordered(text), NEW kept \in {NotManaged, NotWired}
  PROVE  Ordered(Keep(text, kept))
<1>. DEFINE k == Keep(text, kept)
<1>1. k \in Seq(Lines) /\ LinesOf(k) = LinesOf(text) \cap kept
  BY KeepType, LinesKept
<1>2. LinesOf(text) \subseteq Lines
  BY ElementOfSeq DEF LinesOf
<1>3. Distributions \cap Lines \subseteq kept
  BY OwnMarks DEF Distributions, NotManaged, NotWired
<1>4. Avoids(k, Misplaced) /\ Led(k, Security("totp"), Distributions)
  BY <1>3, KeepInOrder DEF Ordered
<1>. HIDE DEF k
<1>5. \E methods \in SUBSET Methods :
        {l \in LinesOf(k) : Managed(l)} = IF methods = {} THEN {} ELSE Block(methods)
  <2>1. CASE kept = NotManaged
    <3>1. {l \in LinesOf(k) : Managed(l)} = {}
      BY <1>1, <2>1 DEF NotManaged
    <3>2. {} \in SUBSET Methods
      OBVIOUS
    <3>. QED BY <3>1, <3>2
  <2>2. CASE kept = NotWired
    <3>1. \A l \in Lines : Managed(l) => l \in NotWired
      BY DEF Managed, Wired, NotWired
    <3>2. {l \in LinesOf(k) : Managed(l)} = {l \in LinesOf(text) : Managed(l)}
      BY <1>1, <1>2, <2>2, <3>1
    <3>. QED BY <3>2 DEF Ordered
  <2>. QED BY <2>1, <2>2
<1>6. {l \in LinesOf(k) : Wired(l)} \subseteq {Azure(phase) : phase \in Phases}
  BY <1>1 DEF Ordered
<1>. QED BY <1>4, <1>5, <1>6 DEF Ordered, k

\* So does one that gets a line of himmelblau's, before every password if it is
\* one for signing in.
LEMMA WiredOrdered ==
  ASSUME NEW before \in Seq(Lines), NEW from \in Seq(Lines), Ordered(before \o from),
         NEW phase \in Phases, phase = "auth" => LinesOf(before) \cap Distributions = {}
  PROVE  Ordered(before \o <<Azure(phase)>> \o from)
<1>. DEFINE own == <<Azure(phase)>>
            head == before \o own
            totp == Security("totp")
<1>1. Azure(phase) \in Lines
  BY OwnMarks
<1>2. /\ own \in Seq(Lines) /\ LinesOf(own) = {Azure(phase)}
      /\ Avoids(own, Misplaced) /\ Led(own, totp, Distributions)
  <2>1. Azure(phase) # totp
    BY OwnMarks
  <2>. QED BY <1>1, <2>1, OneLine, OneLineOrdered
<1>. HIDE DEF own
<1>3. /\ Avoids(before, Misplaced) /\ Avoids(from, Misplaced)
      /\ \A x \in LinesOf(before), y \in LinesOf(from) : <<x, y>> \notin Misplaced
      /\ Led(before, totp, Distributions)
      /\ Led(from, totp, Distributions) \/ LinesOf(before) \cap Distributions # {}
  BY AvoidsParts, LedParts DEF Ordered
<1>4. /\ head \in Seq(Lines) /\ LinesOf(head) = LinesOf(before) \cup {Azure(phase)}
  BY <1>2, LinesOfParts
<1>5. \A x \in LinesOf(before) : <<x, Azure(phase)>> \notin Misplaced
  <2>1. Azure(phase) # Security("preauth") /\ ~Managed(Azure(phase))
    BY OwnMarks
  <2>2. Azure(phase) \notin {Security("face"), Security("fingerprint")}
    BY OwnMarks
  <2>3. Azure(phase) = Azure("auth") => phase = "auth"
    BY OwnMarks
  <2>. QED BY <2>1, <2>2, <2>3 DEF Misplaced
<1>6. \A y : <<Azure(phase), y>> \notin Misplaced
  BY OwnMarks DEF Misplaced
<1>7. Avoids(head, Misplaced) /\ Led(head, totp, Distributions)
  <2>1. Avoids(head, Misplaced)
    BY <1>2, <1>3, <1>5, AvoidsParts
  <2>2. Led(head, totp, Distributions)
    BY <1>2, <1>3, LedParts
  <2>. QED BY <2>1, <2>2
<1>. DEFINE new == head \o from
<1>. HIDE DEF head
<1>8. new \in Seq(Lines) /\ LinesOf(new) = LinesOf(head) \cup LinesOf(from)
  BY <1>4, LinesOfParts
<1>9. LinesOf(before \o from) = LinesOf(before) \cup LinesOf(from)
  BY LinesOfParts
<1>10. Avoids(new, Misplaced)
  <2>1. \A x \in LinesOf(head), y \in LinesOf(from) : <<x, y>> \notin Misplaced
    BY <1>3, <1>4, <1>6
  <2>. QED BY <1>3, <1>4, <1>7, <2>1, AvoidsParts
<1>11. Led(new, totp, Distributions)
  BY <1>3, <1>4, <1>7, LedParts
<1>. HIDE DEF new
<1>12. LinesOf(new) = LinesOf(before \o from) \cup {Azure(phase)}
  BY <1>4, <1>8, <1>9
<1>13. {l \in LinesOf(new) : Managed(l)} = {l \in LinesOf(before \o from) : Managed(l)}
  BY <1>12, OwnMarks
<1>14. {l \in LinesOf(new) : Wired(l)} \subseteq {Azure(ph) : ph \in Phases}
  BY <1>12 DEF Ordered
<1>15. Ordered(new)
  BY <1>10, <1>11, <1>13, <1>14 DEF Ordered
<1>. QED BY <1>15 DEF new, head, own

\* A set of lines may only be looked for from the front.
FirstOf(text, lines) == SelectInSeq(text, LAMBDA l : l \in lines)

LEMMA FirstOfLines ==
  ASSUME NEW text \in Seq(Lines), NEW lines
  PROVE  LET first == FirstOf(text, lines)
         IN  \/ first = 0 /\ LinesOf(text) \cap lines = {}
             \/ /\ first \in 1 .. Len(text) /\ text[first] \in lines
                /\ \A i \in 1 .. Len(text) : i < first => text[i] \notin lines
<1>. DEFINE places == {i \in 1 .. Len(text) : text[i] \in lines}
<1>1. FirstOf(text, lines) = IF places # {} THEN Min(places) ELSE 0
  BY DEF FirstOf, SelectInSeq
<1>2. places \in SUBSET Nat
  OBVIOUS
<1>3. CASE places = {}
  BY <1>1, <1>3 DEF LinesOf
<1>4. CASE places # {}
  <2>1. PICK n \in places : \A k \in places : n <= k
    <3>. HIDE DEF places
    <3>. QED BY <1>2, <1>4, LeastNumber
  <2>2. Min(places) = n
    <3>1. \A m \in places : (\A k \in places : m <= k) => m = n
      BY <2>1
    <3>. QED BY <2>1, <3>1 DEF Min
  <2>3. FirstOf(text, lines) = n
    BY <1>1, <1>4, <2>2
  <2>4. n \in 1 .. Len(text) /\ text[n] \in lines
    BY <2>1
  <2>5. \A i \in 1 .. Len(text) : i < n => text[i] \notin lines
    BY <2>1
  <2>. QED BY <2>3, <2>4, <2>5
<1>. QED BY <1>3, <1>4

\* What comes before a place.
LEMMA LinesBefore ==
  ASSUME NEW text \in Seq(Lines), NEW n \in 1 .. Len(text), NEW lines,
         \A i \in 1 .. Len(text) : i < n => text[i] \notin lines
  PROVE  LinesOf(SubSeq(text, 1, n - 1)) \cap lines = {}
<1>1. Len(text) \in Nat
  BY LenProperties
<1>2. /\ Len(SubSeq(text, 1, n - 1)) = n - 1
      /\ \A i \in 1 .. n - 1 : SubSeq(text, 1, n - 1)[i] = text[i]
  BY <1>1
<1>. QED BY <1>1, <1>2 DEF LinesOf

\* A phase is wired before all its lines.
LEMMA WireInOrdered ==
  ASSUME NEW text \in Seq(Lines), Ordered(text), NEW phase \in Phases
  PROVE  Ordered(WireIn(text, phase))
<1>. DEFINE lines == {l \in Lines : l.phase = phase}
            first == FirstOf(text, lines)
            own == <<Azure(phase)>>
<1>1. WireIn(text, phase) = IF first = 0 THEN Append(text, Azure(phase))
                                         ELSE InsertAt(text, first, Azure(phase))
  <2>1. \A i \in 1 .. Len(text) : text[i] \in Lines
    BY ElementOfSeq
  <2>2. {i \in 1 .. Len(text) : text[i].phase = phase} = {i \in 1 .. Len(text) : text[i] \in lines}
    BY <2>1
  <2>. QED BY <2>2 DEF WireIn, FirstOf, SelectInSeq
<1>2. \/ first = 0 /\ LinesOf(text) \cap lines = {}
      \/ /\ first \in 1 .. Len(text)
         /\ \A i \in 1 .. Len(text) : i < first => text[i] \notin lines
  BY FirstOfLines
<1>3. phase = "auth" => Distributions \subseteq lines
  BY DEF Distributions
<1>4. Azure(phase) \in Lines
  BY OwnMarks
<1>. HIDE DEF first, lines
<1>5. CASE first = 0 /\ LinesOf(text) \cap lines = {}
  <2>1. <<>> \in Seq(Lines) /\ text \o <<>> = text
    BY EmptySeq, ConcatEmptySeq
  <2>2. Append(text, Azure(phase)) = text \o own /\ Append(text, Azure(phase)) \in Seq(Lines)
    BY <1>4, OneLineMore
  <2>3. text \o own \o <<>> = text \o own
    BY <2>2, ConcatEmptySeq
  <2>4. phase = "auth" => LinesOf(text) \cap Distributions = {}
    BY <1>3, <1>5
  <2>5. Ordered(text \o own \o <<>>)
    BY <2>1, <2>4, WiredOrdered
  <2>. QED BY <1>1, <1>5, <2>2, <2>3, <2>5
<1>6. CASE /\ first \in 1 .. Len(text)
           /\ \A i \in 1 .. Len(text) : i < first => text[i] \notin lines
  <2>. DEFINE before == SubSeq(text, 1, first - 1)
              from   == SubSeq(text, first, Len(text))
  <2>1. before \in Seq(Lines) /\ from \in Seq(Lines) /\ before \o from = text
    BY <1>6, CutText
  <2>2. WireIn(text, phase) = before \o own \o from
    BY <1>1, <1>6 DEF InsertAt
  <2>3. LinesOf(before) \cap lines = {}
    BY <1>6, LinesBefore
  <2>4. phase = "auth" => LinesOf(before) \cap Distributions = {}
    BY <1>3, <2>3
  <2>. HIDE DEF before, from
  <2>5. Ordered(before \o own \o from)
    BY <2>1, <2>4, WiredOrdered
  <2>. QED BY <2>2, <2>5
<1>. QED BY <1>2, <1>5, <1>6

\* himmelblau's lines come and go in order.
LEMMA WireRebuildOrdered ==
  ASSUME NEW text \in Seq(Lines), Ordered(text), NEW on \in BOOLEAN
  PROVE  Ordered(WireRebuild(text, on))
<1>. DEFINE lines == Keep(text, NotWired)
            one   == WireIn(lines, "auth")
            two   == WireIn(one, "account")
            three == WireIn(two, "password")
            four  == WireIn(three, "session")
<1>1. lines \in Seq(Lines) /\ Ordered(lines)
  BY KeepType, KeepOrdered
<1>2. WireRebuild(text, on) = IF on THEN four ELSE lines
  BY DEF WireRebuild
<1>. HIDE DEF lines
<1>3. Phases = {"auth", "account", "password", "session"}
  BY DEF Phases
<1>4. one \in Seq(Lines) /\ Ordered(one)
  BY <1>1, <1>3, WireInText, WireInOrdered
<1>. HIDE DEF one
<1>5. two \in Seq(Lines) /\ Ordered(two)
  BY <1>3, <1>4, WireInText, WireInOrdered
<1>. HIDE DEF two
<1>6. three \in Seq(Lines) /\ Ordered(three)
  BY <1>3, <1>5, WireInText, WireInOrdered
<1>. HIDE DEF three
<1>7. Ordered(four)
  BY <1>3, <1>6, WireInOrdered
<1>. QED BY <1>1, <1>2, <1>7

\* What no block has: anything behind "authfail" or before "preauth".
Unbracketed ==
  {pair \in Contributions \X Contributions : pair[1] = "authfail" \/ pair[2] = "preauth"}

\* The two parts of the block are in order.
LEMMA BlockInOrder ==
  ASSUME NEW methods
  PROVE  /\ Avoids(Marked(Pre(methods)), Misplaced)
         /\ Avoids(Marked(Post(methods)), Misplaced)
<1>1. ASSUME NEW whats \in Seq(Contributions), Avoids(whats, Unbracketed)
      PROVE  Avoids(Marked(whats), Misplaced)
  <2>1. \A v, w \in Contributions : <<v, w>> \notin Unbracketed
          => <<Security(v), Security(w)>> \notin Misplaced
    BY OwnMarks DEF Unbracketed, Misplaced
  <2>2. /\ Len(Marked(whats)) = Len(whats)
        /\ \A i \in 1 .. Len(whats) : /\ Marked(whats)[i] = Security(whats[i])
                                      /\ whats[i] \in Contributions
    <3>1. Len(whats) \in Nat /\ \A i \in 1 .. Len(whats) : whats[i] \in Contributions
      BY LenProperties, ElementOfSeq
    <3>. QED BY <3>1 DEF Marked
  <2>. HIDE DEF Marked
  <2>. QED BY <1>1, <2>1, <2>2 DEF Avoids
<1>2. \A what \in Contributions : /\ Only(what, methods) \in Seq(Contributions)
                                  /\ LinesOf(Only(what, methods)) \subseteq {what}
                                  /\ Avoids(Only(what, methods), Unbracketed)
  <2>. TAKE what \in Contributions
  <2>1. <<what>> \in Seq(Contributions) /\ LinesOf(<<what>>) = {what} /\ Avoids(<<what>>, Unbracketed)
    BY OneLine, OneLineOrdered
  <2>2. <<>> \in Seq(Contributions) /\ LinesOf(<<>>) = {} /\ Avoids(<<>>, Unbracketed)
    <3>1. <<>> \in Seq(Contributions) /\ Len(<<>>) = 0
      BY EmptySeq
    <3>. QED BY <3>1 DEF LinesOf, Avoids
  <2>. QED BY <2>1, <2>2 DEF Only
<1>. DEFINE preauth == <<"preauth">>
            face == Only("face", methods)
            fingerprint == Only("fingerprint", methods)
            totp == Only("totp", methods)
            authfail == <<"authfail">>
<1>3. Pre(methods) = preauth \o face \o fingerprint /\ Post(methods) = totp \o authfail
  BY DEF Pre, Post
<1>4. {"preauth", "face", "fingerprint", "totp", "authfail"} \subseteq Contributions
  BY DEF Contributions
<1>5. /\ preauth \in Seq(Contributions) /\ LinesOf(preauth) = {"preauth"} /\ Avoids(preauth, Unbracketed)
      /\ authfail \in Seq(Contributions) /\ LinesOf(authfail) = {"authfail"} /\ Avoids(authfail, Unbracketed)
  BY <1>4, OneLine, OneLineOrdered
<1>6. /\ face \in Seq(Contributions) /\ LinesOf(face) \subseteq {"face"} /\ Avoids(face, Unbracketed)
      /\ fingerprint \in Seq(Contributions) /\ LinesOf(fingerprint) \subseteq {"fingerprint"}
      /\ Avoids(fingerprint, Unbracketed)
      /\ totp \in Seq(Contributions) /\ LinesOf(totp) \subseteq {"totp"} /\ Avoids(totp, Unbracketed)
  BY <1>2, <1>4
<1>. HIDE DEF preauth, face, fingerprint, totp, authfail
<1>. DEFINE two == preauth \o face
<1>7. /\ two \in Seq(Contributions) /\ LinesOf(two) \subseteq {"preauth", "face"}
      /\ Avoids(two, Unbracketed)
  <2>1. \A x \in LinesOf(preauth), y \in LinesOf(face) : <<x, y>> \notin Unbracketed
    BY <1>5, <1>6 DEF Unbracketed
  <2>2. two \in Seq(Contributions) /\ LinesOf(two) = LinesOf(preauth) \cup LinesOf(face)
    BY <1>5, <1>6, LinesOfParts
  <2>3. Avoids(two, Unbracketed)
    BY <1>5, <1>6, <2>1, AvoidsParts
  <2>. QED BY <1>5, <1>6, <2>2, <2>3
<1>. HIDE DEF two
<1>8. Avoids(two \o fingerprint, Unbracketed)
  <2>1. \A x \in LinesOf(two), y \in LinesOf(fingerprint) : <<x, y>> \notin Unbracketed
    BY <1>6, <1>7 DEF Unbracketed
  <2>. QED BY <1>6, <1>7, <2>1, AvoidsParts
<1>9. Avoids(totp \o authfail, Unbracketed)
  <2>1. \A x \in LinesOf(totp), y \in LinesOf(authfail) : <<x, y>> \notin Unbracketed
    BY <1>5, <1>6 DEF Unbracketed
  <2>. QED BY <1>5, <1>6, <2>1, AvoidsParts
<1>10. Pre(methods) \in Seq(Contributions) /\ Post(methods) \in Seq(Contributions)
  BY PreAndPost
<1>11. Avoids(Pre(methods), Unbracketed) /\ Avoids(Post(methods), Unbracketed)
  BY <1>3, <1>8, <1>9 DEF two
<1>. QED BY <1>1, <1>10, <1>11

\* The block around the first password of a text without managed lines: what
\* bears on the order, part by part.
LEMMA AroundOrdered ==
  ASSUME NEW lines \in Seq(Lines), Ordered(lines), LinesOf(lines) \subseteq NotManaged,
         NEW methods \in SUBSET Methods, methods # {},
         NEW anchor \in 1 .. Len(lines), lines[anchor] \in Distributions,
         \A i \in 1 .. Len(lines) : i < anchor => lines[i] \notin Distributions
  PROVE  Ordered(Around(lines, anchor, methods))
<1>. DEFINE before == SubSeq(lines, 1, anchor - 1)
            one    == <<lines[anchor]>>
            after  == SubSeq(lines, anchor + 1, Len(lines))
            pre    == Marked(Pre(methods))
            post   == Marked(Post(methods))
            totp   == Security("totp")
            u1 == before \o pre
            u2 == u1 \o one
            u3 == u2 \o post
            new == u3 \o after
            old == before \o one
<1>1. before \in Seq(Lines) /\ after \in Seq(Lines) /\ before \o one \o after = lines
  BY CutText
<1>2. /\ one \in Seq(Lines) /\ LinesOf(one) = {lines[anchor]}
      /\ Avoids(one, Misplaced) /\ Led(one, totp, Distributions)
  <2>1. lines[anchor] \in Lines /\ lines[anchor] # totp
    BY ElementOfSeq, OwnMarks
  <2>. QED BY <2>1, OneLine, OneLineOrdered
<1>3. Around(lines, anchor, methods) = new
  BY DEF Around
<1>4. LinesOf(before) \cap Distributions = {}
  BY LinesBefore
<1>5. /\ pre \in Seq(Lines) /\ LinesOf(pre) \subseteq {Security("preauth"), Security("face"), Security("fingerprint")}
      /\ post \in Seq(Lines) /\ LinesOf(post) \subseteq {Security("totp"), Security("authfail")}
  <2>1. Pre(methods) \in Seq(Contributions) /\ Post(methods) \in Seq(Contributions)
    BY PreAndPost
  <2>2. /\ pre \in Seq(OwnLines) /\ LinesOf(pre) = {Security(w) : w \in LinesOf(Pre(methods))}
        /\ post \in Seq(OwnLines) /\ LinesOf(post) = {Security(w) : w \in LinesOf(Post(methods))}
    BY <2>1, MarkedText
  <2>3. OwnLines \subseteq Lines
    BY DEF OwnLines
  <2>4. pre \in Seq(Lines) /\ post \in Seq(Lines)
    BY <2>2, <2>3, SeqMonotonic
  <2>5. LinesOf(Pre(methods)) \subseteq {"preauth", "face", "fingerprint"}
        /\ LinesOf(Post(methods)) \subseteq {"totp", "authfail"}
    BY PreAndPost
  <2>. QED BY <2>2, <2>4, <2>5
<1>6. Avoids(pre, Misplaced) /\ Avoids(post, Misplaced)
  BY BlockInOrder
<1>7. LinesOf(Around(lines, anchor, methods)) = LinesOf(lines) \cup Block(methods)
  BY AroundText
<1>. HIDE DEF before, one, after, pre, post
<1>8. /\ old \in Seq(Lines) /\ LinesOf(old) = LinesOf(before) \cup LinesOf(one)
      /\ LinesOf(lines) = LinesOf(old) \cup LinesOf(after)
  <2>1. old \in Seq(Lines) /\ LinesOf(old) = LinesOf(before) \cup LinesOf(one)
    BY <1>1, <1>2, LinesOfParts
  <2>. HIDE DEF old
  <2>2. LinesOf(old \o after) = LinesOf(old) \cup LinesOf(after)
    BY <1>1, <2>1, LinesOfParts
  <2>. QED BY <1>1, <2>1, <2>2 DEF old
<1>9. /\ Avoids(before, Misplaced) /\ Avoids(after, Misplaced)
      /\ \A x \in LinesOf(before), y \in LinesOf(one) : <<x, y>> \notin Misplaced
      /\ \A x \in LinesOf(old), y \in LinesOf(after) : <<x, y>> \notin Misplaced
  <2>1. Avoids(old \o after, Misplaced)
    BY <1>1 DEF Ordered
  <2>2. /\ Avoids(old, Misplaced) /\ Avoids(after, Misplaced)
        /\ \A x \in LinesOf(old), y \in LinesOf(after) : <<x, y>> \notin Misplaced
    <3>. HIDE DEF old
    <3>. QED BY <1>1, <1>8, <2>1, AvoidsParts
  <2>3. /\ Avoids(before, Misplaced)
        /\ \A x \in LinesOf(before), y \in LinesOf(one) : <<x, y>> \notin Misplaced
    BY <1>1, <1>2, <2>2, AvoidsParts
  <2>. QED BY <2>2, <2>3
<1>10. \A x \in LinesOf(lines) : ~Managed(x)
  BY DEF NotManaged
<1>11. \A x \in LinesOf(before), y \in LinesOf(pre) \cup LinesOf(post) : <<x, y>> \notin Misplaced
  BY <1>4, <1>5, <1>8, <1>10, OwnMarks DEF Misplaced
<1>12. \A x \in LinesOf(pre), y \in LinesOf(lines) : <<x, y>> \notin Misplaced
  BY <1>5, <1>10, OwnMarks DEF Misplaced
<1>13. \A x \in LinesOf(post), y \in LinesOf(after) : <<x, y>> \notin Misplaced
  BY <1>5, <1>8, <1>10, OwnMarks DEF Misplaced
<1>14. \A x \in LinesOf(pre), y \in LinesOf(post) : <<x, y>> \notin Misplaced
  BY <1>5, OwnMarks DEF Misplaced
<1>15. \A y \in LinesOf(post) : <<lines[anchor], y>> \notin Misplaced
  BY <1>5, OwnMarks DEF Misplaced
<1>16. /\ u1 \in Seq(Lines) /\ LinesOf(u1) = LinesOf(before) \cup LinesOf(pre)
       /\ Avoids(u1, Misplaced) /\ Led(u1, totp, Distributions)
  <2>1. u1 \in Seq(Lines) /\ LinesOf(u1) = LinesOf(before) \cup LinesOf(pre)
    BY <1>1, <1>5, LinesOfParts
  <2>2. Avoids(u1, Misplaced)
    BY <1>1, <1>5, <1>6, <1>9, <1>11, AvoidsParts
  <2>3. \A x \in LinesOf(u1) : x # totp
    BY <1>5, <1>8, <1>10, <2>1, OwnMarks
  <2>4. Led(u1, totp, Distributions)
    <3>. HIDE DEF u1
    <3>. QED BY <2>3 DEF Led, LinesOf
  <2>. QED BY <2>1, <2>2, <2>4
<1>. HIDE DEF u1
<1>17. /\ u2 \in Seq(Lines) /\ LinesOf(u2) = LinesOf(u1) \cup {lines[anchor]}
       /\ Avoids(u2, Misplaced) /\ Led(u2, totp, Distributions)
  <2>1. \A x \in LinesOf(u1), y \in LinesOf(one) : <<x, y>> \notin Misplaced
    BY <1>2, <1>8, <1>9, <1>12, <1>16
  <2>2. u2 \in Seq(Lines) /\ LinesOf(u2) = LinesOf(u1) \cup LinesOf(one)
    BY <1>2, <1>16, LinesOfParts
  <2>3. Avoids(u2, Misplaced)
    BY <1>2, <1>16, <2>1, AvoidsParts
  <2>4. Led(u2, totp, Distributions)
    BY <1>2, <1>16, LedParts
  <2>. QED BY <1>2, <2>2, <2>3, <2>4
<1>. HIDE DEF u2
<1>18. /\ u3 \in Seq(Lines) /\ LinesOf(u3) = LinesOf(u2) \cup LinesOf(post)
       /\ Avoids(u3, Misplaced) /\ Led(u3, totp, Distributions)
  <2>1. \A x \in LinesOf(u2), y \in LinesOf(post) : <<x, y>> \notin Misplaced
    BY <1>11, <1>14, <1>15, <1>16, <1>17
  <2>2. u3 \in Seq(Lines) /\ LinesOf(u3) = LinesOf(u2) \cup LinesOf(post)
    BY <1>5, <1>17, LinesOfParts
  <2>3. Avoids(u3, Misplaced)
    BY <1>5, <1>6, <1>17, <2>1, AvoidsParts
  <2>4. LinesOf(u2) \cap Distributions # {}
    BY <1>17
  <2>5. Led(u3, totp, Distributions)
    BY <1>5, <1>17, <2>4, LedParts
  <2>. QED BY <2>2, <2>3, <2>5
<1>. HIDE DEF u3
<1>19. Avoids(new, Misplaced) /\ Led(new, totp, Distributions)
  <2>1. \A x \in LinesOf(u3), y \in LinesOf(after) : <<x, y>> \notin Misplaced
    BY <1>2, <1>8, <1>9, <1>12, <1>13, <1>16, <1>17, <1>18
  <2>2. LinesOf(u3) \cap Distributions # {}
    BY <1>17, <1>18
  <2>3. Avoids(new, Misplaced)
    BY <1>1, <1>9, <1>18, <2>1, AvoidsParts
  <2>4. Led(new, totp, Distributions)
    BY <1>1, <1>18, <2>2, LedParts
  <2>. QED BY <2>3, <2>4
<1>20. LinesOf(new) = LinesOf(lines) \cup Block(methods)
  BY <1>3, <1>7
<1>. HIDE DEF new
<1>21. {l \in LinesOf(new) : Managed(l)} = Block(methods)
  <2>1. \A l \in Block(methods) : Managed(l)
    BY OwnMarks DEF Block
  <2>. QED BY <1>10, <1>20, <2>1
<1>22. {l \in LinesOf(new) : Wired(l)} \subseteq {Azure(phase) : phase \in Phases}
  <2>1. \A l \in Block(methods) : ~Wired(l)
    BY OwnMarks DEF Block
  <2>. QED BY <1>20, <2>1 DEF Ordered
<1>23. Ordered(new)
  BY <1>19, <1>21, <1>22 DEF Ordered
<1>. QED BY <1>3, <1>23

\* The managed lines come and go in order.
LEMMA RebuildOrdered ==
  ASSUME NEW text \in Seq(Lines), Ordered(text), NEW methods \in SUBSET Methods
  PROVE  Ordered(Rebuild(text, methods))
<1>. DEFINE lines == Unmanaged(text)
            anchor == Anchor(lines)
            unix == {l \in Lines : l.phase = "auth" /\ l.what = "unix"}
<1>1. /\ lines \in Seq(Lines) /\ Ordered(lines)
      /\ LinesOf(lines) \subseteq NotManaged
  BY KeepType, KeepOrdered, LinesKept DEF Unmanaged
<1>2. Rebuild(text, methods)
        = IF methods = {} \/ anchor = 0 THEN lines ELSE Around(lines, anchor, methods)
  BY DEF Rebuild
<1>. HIDE DEF lines
<1>3. anchor = FirstOf(lines, unix)
  <2>1. \A i \in 1 .. Len(lines) : lines[i] \in Lines
    BY <1>1, ElementOfSeq
  <2>2. {i \in 1 .. Len(lines) : lines[i].phase = "auth" /\ lines[i].what = "unix"}
          = {i \in 1 .. Len(lines) : lines[i] \in unix}
    BY <2>1
  <2>. QED BY <2>2 DEF Anchor, FirstOf, SelectInSeq
<1>. HIDE DEF anchor
<1>4. CASE methods = {} \/ anchor = 0
  BY <1>1, <1>2, <1>4
<1>5. CASE ~(methods = {} \/ anchor = 0)
  <2>1. /\ anchor \in 1 .. Len(lines) /\ lines[anchor] \in unix
        /\ \A i \in 1 .. Len(lines) : i < anchor => lines[i] \notin unix
    <3>. HIDE DEF unix
    <3>. QED BY <1>1, <1>3, <1>5, FirstOfLines
  <2>2. lines[anchor] \in LinesOf(lines)
    BY <2>1 DEF LinesOf
  <2>3. ~Managed(lines[anchor])
    BY <1>1, <2>2 DEF NotManaged
  <2>4. ~Wired(lines[anchor])
    <3>1. \A phase : Azure(phase).what # "unix"
      BY DEF Azure
    <3>2. lines[anchor].what = "unix"
      BY <2>1
    <3>. QED BY <1>1, <2>2, <3>1, <3>2 DEF Ordered
  <2>5. lines[anchor] \in Distributions
    BY <2>1, <2>3, <2>4 DEF Distributions, Managed, Wired, Lines
  <2>6. Distributions \subseteq unix
    BY DEF Distributions
  <2>7. \A i \in 1 .. Len(lines) : i < anchor => lines[i] \notin Distributions
    BY <2>1, <2>6
  <2>8. Ordered(Around(lines, anchor, methods))
    BY <1>1, <1>5, <2>1, <2>5, <2>7, AroundOrdered
  <2>. QED BY <1>2, <1>5, <2>8
<1>. QED BY <1>4, <1>5

-----------------------------------------------------------------------------
(* Whose lines the files, the backups and the helpers hold *)

\* A text in which the lines installed for a file are all there, in their order,
\* and the helper's where they are to be; no text is made where none was installed.
Own(s, text) ==
  /\ text \in Seq(Lines) /\ Keep(text, AsInstalled) = Original[s]
  /\ Original[s] = <<>> => text = <<>>
  /\ Ordered(text)

\* A backup has the lines of its file, unless it was made and not yet written.
BackupsOwn(s, old) ==
  /\ DOMAIN old \subseteq Nat
  /\ \E last \in Nat : \A t \in DOMAIN old : t <= last
  /\ \A t \in DOMAIN old : old[t] = <<>> \/ Own(s, old[t])

Commands ==
  {c \in [do : {"enable", "disable", "restore", "wire", "unwire"},
          method : Methods \cup {"none"}, left : Seq(Services) \ {<<>>}] :
     c.do \in {"enable", "disable"} => c.method \in Methods}

Helpers ==
  [at : {"idle", "read", "backup", "copy", "replace"}, cmd : Commands \cup {NoCommand},
   text : Seq(Lines), saved : Seq(Lines), stamp : Nat]

\* What a helper is about to write has the lines of the file it goes to.
HelperOwn(h) ==
  /\ h \in Helpers
  /\ h.at # "idle" => h.cmd \in Commands
  /\ h.at \in {"backup", "copy", "replace"} => Own(h.cmd.left[1], h.text)
  /\ h.at = "copy" => Own(h.cmd.left[1], h.saved)

OwnInv ==
  /\ file = [s \in Services |-> file[s]] /\ \A s \in Services : Own(s, file[s])
  /\ backups = [s \in Services |-> backups[s]] /\ \A s \in Services : BackupsOwn(s, backups[s])
  /\ proc = [p \in Procs |-> proc[p]] /\ \A p \in Procs : HelperOwn(proc[p])

\* A bounded set of numbers that is not empty has its greatest.
LEMMA LastPlace ==
  ASSUME NEW I \in SUBSET Nat, I # {}, NEW last \in Nat, \A n \in I : n <= last
  PROVE  Max(I) \in I
<1>. DEFINE D == {last - n : n \in I}
<1>1. D \in SUBSET Nat /\ D # {}
  <2>1. \A n \in I : last - n \in Nat
    <3>1. \A n \in I : n \in Nat /\ n <= last
      OBVIOUS
    <3>. QED BY <3>1
  <2>. QED BY <2>1
<1>2. PICK d \in D : \A e \in D : d <= e
  <2>. HIDE DEF D
  <2>. QED BY <1>1, LeastNumber
<1>3. PICK m \in I : d = last - m
  BY <1>2
<1>4. \A n \in I : m >= n
  BY <1>2, <1>3
<1>. QED BY <1>3, <1>4 DEF Max

\* The latest backup, if it is a stack, has the lines of its file.
LEMMA LatestBackup ==
  ASSUME NEW s, NEW old, BackupsOwn(s, old), DOMAIN old # {}, Valid(old[Max(DOMAIN old)])
  PROVE  Own(s, old[Max(DOMAIN old)])
<1>1. Max(DOMAIN old) \in DOMAIN old
  BY LastPlace DEF BackupsOwn
<1>2. ~Valid(<<>>)
  BY EmptySeq DEF Valid, HasFallback
<1>3. old[Max(DOMAIN old)] # <<>>
  BY <1>2
<1>. QED BY <1>1, <1>3 DEF BackupsOwn

\* A backup more.
LEMMA SavedBackup ==
  ASSUME NEW s, NEW old, NEW stamp \in Nat, NEW text, BackupsOwn(s, old),
         text = <<>> \/ Own(s, text)
  PROVE  BackupsOwn(s, Save(old, stamp, text))
<1>. DEFINE new == Save(old, stamp, text)
<1>1. DOMAIN new = DOMAIN old \cup {stamp} /\ new[stamp] = text
      /\ \A t \in DOMAIN old : t # stamp => new[t] = old[t]
  BY DEF Save
<1>2. PICK last \in Nat : \A t \in DOMAIN old : t <= last
  BY DEF BackupsOwn
<1>3. \A t \in DOMAIN old : t \in Nat
  BY DEF BackupsOwn
<1>. HIDE DEF new
<1>4. \E n \in Nat : \A t \in DOMAIN new : t <= n
  <2>1. CASE stamp <= last
    BY <1>1, <1>2, <2>1
  <2>2. CASE last <= stamp
    <3>1. \A t \in DOMAIN new : t <= stamp
      BY <1>1, <1>2, <1>3, <2>2
    <3>. QED BY <3>1
  <2>. QED BY <2>1, <2>2
<1>5. DOMAIN new \subseteq Nat /\ \A t \in DOMAIN new : new[t] = <<>> \/ Own(s, new[t])
  BY <1>1, <1>3 DEF BackupsOwn
<1>. QED BY <1>4, <1>5 DEF BackupsOwn, new

\* What a helper may be started with.
LEMMA CommandsStarted == Toggles \cup Restores \cup Wirings \subseteq Commands
<1>1. \A s \in Services : <<s>> \in Seq(Services) \ {<<>>}
  OBVIOUS
<1>2. SetToAllKPermutations(Services) \subseteq Seq(Services)
  <2>1. SUFFICES ASSUME NEW S \in SUBSET Services, NEW q \in SetToSeqs(S)
                 PROVE  q \in Seq(Services)
    BY DEF SetToAllKPermutations
  <2>2. Cardinality(S) \in Nat
    BY StackAssumption, FS_Subset, FS_CardinalityType
  <2>3. q \in [1 .. Cardinality(S) -> S]
    BY DEF SetToSeqs
  <2>4. q \in [1 .. Cardinality(S) -> Services]
    BY <2>3
  <2>. QED BY <2>2, <2>4
<1>3. Wirings \subseteq Commands
  <2>1. \A q \in SetToAllKPermutations(Services) \ {<<>>} : q \in Seq(Services) \ {<<>>}
    BY <1>2
  <2>. QED BY <2>1 DEF Wirings, Commands
<1>4. Toggles \subseteq Commands /\ Restores \subseteq Commands
  BY <1>1 DEF Toggles, Restores, Commands
<1>. QED BY <1>3, <1>4

\* A helper that does not run, or has only been started, holds no text.
LEMMA FreshHelper ==
  /\ HelperOwn(Idle)
  /\ \A cmd \in Commands : HelperOwn(Reading(cmd))
<1>1. <<>> \in Seq(Lines) /\ 0 \in Nat
  BY EmptySeq
<1>. QED BY <1>1 DEF HelperOwn, Helpers, Idle, Reading

\* A helper that turns to the next file.
LEMMA OnwardOwn ==
  ASSUME NEW p, HelperOwn(proc[p]), proc[p].at # "idle"
  PROVE  HelperOwn(Onward(p))
<1>. DEFINE cmd == proc[p].cmd
            next == [cmd EXCEPT !.left = Tail(@)]
<1>1. cmd \in Commands
  BY DEF HelperOwn
<1>. HIDE DEF cmd
<1>2. cmd.left \in Seq(Services) /\ cmd.left # <<>>
  BY <1>1 DEF Commands
<1>3. CASE Len(cmd.left) = 1
  BY <1>3, FreshHelper DEF Onward, cmd
<1>4. CASE Len(cmd.left) # 1
  <2>1. Tail(cmd.left) \in Seq(Services) /\ Tail(cmd.left) # <<>>
    <3>1. Tail(cmd.left) \in Seq(Services) /\ Len(Tail(cmd.left)) = Len(cmd.left) - 1
      BY <1>2, HeadTailProperties
    <3>2. Len(cmd.left) \in Nat /\ Len(<<>>) = 0
      BY <1>2, LenProperties, EmptySeq
    <3>3. Len(Tail(cmd.left)) # 0
      BY <1>4, <3>1, <3>2
    <3>4. Tail(cmd.left) # <<>>
      BY <3>2, <3>3
    <3>. QED BY <3>1, <3>4
  <2>2. next \in Commands
    BY <1>1, <2>1 DEF Commands
  <2>3. Onward(p) = Reading(next)
    BY <1>4 DEF Onward, cmd
  <2>. QED BY <2>2, <2>3, FreshHelper
<1>. QED BY <1>3, <1>4

\* What a command makes of a file has the lines the file has.
LEMMA CandidateOwn ==
  ASSUME NEW s, NEW text, Own(s, text), NEW cmd \in Commands, cmd.do # "restore", ~NoOp(cmd, text)
  PROVE  Own(s, Candidate(cmd, text))
<1>1. cmd.do \in {"enable", "disable", "wire", "unwire"}
  BY DEF Commands
<1>2. text \in Seq(Lines) /\ Keep(text, AsInstalled) = Original[s] /\ Original[s] # <<>>
  <2>1. text # <<>>
    BY <1>1 DEF NoOp
  <2>. QED BY <2>1 DEF Own
<1>3. Ordered(text) /\ EnabledOn(text) \subseteq Methods
  BY DEF Own, EnabledOn
<1>4. CASE cmd.do \in {"enable", "disable"}
  <2>1. cmd.method \in Methods
    BY <1>4 DEF Commands
  <2>. DEFINE methods == IF cmd.do = "enable" THEN EnabledOn(text) \cup {cmd.method}
                                             ELSE EnabledOn(text) \ {cmd.method}
  <2>2. methods \in SUBSET Methods /\ Candidate(cmd, text) = Rebuild(text, methods)
    BY <1>3, <1>4, <2>1 DEF Candidate
  <2>. HIDE DEF methods
  <2>. QED BY <1>2, <1>3, <2>2, RebuildText, RebuildOrdered DEF Own
<1>5. CASE cmd.do \in {"wire", "unwire"}
  <2>. DEFINE on == cmd.do = "wire"
  <2>1. on \in BOOLEAN /\ Candidate(cmd, text) = WireRebuild(text, on)
    BY <1>5 DEF Candidate
  <2>. HIDE DEF on
  <2>. QED BY <1>2, <1>3, <2>1, WireRebuildText, WireRebuildOrdered DEF Own
<1>. QED BY <1>1, <1>4, <1>5

\* What a step of one helper does to the files, the backups and itself.
OwnStepOf(p) ==
  /\ \E h : HelperOwn(h) /\ proc' = [proc EXCEPT ![p] = h]
  /\ \/ file' = file
     \/ \E s \in Services : \E text : Own(s, text) /\ file' = [file EXCEPT ![s] = text]
  /\ \/ backups' = backups
     \/ \E s \in Services : \E old : BackupsOwn(s, old) /\ backups' = [backups EXCEPT ![s] = old]

LEMMA OwnOneStep ==
  ASSUME OwnInv, NEW p \in Procs, OwnStepOf(p)
  PROVE  OwnInv'
<1>1. proc' = [q \in Procs |-> proc'[q]] /\ \A q \in Procs : HelperOwn(proc'[q])
  <2>1. PICK h : HelperOwn(h) /\ proc' = [proc EXCEPT ![p] = h]
    BY Zenon DEF OwnStepOf
  <2>2. proc = [q \in Procs |-> proc[q]] /\ \A q \in Procs : HelperOwn(proc[q])
    BY DEF OwnInv
  <2>. QED BY <2>1, <2>2
<1>2. file' = [s \in Services |-> file'[s]] /\ \A s \in Services : Own(s, file'[s])
  <2>1. file = [s \in Services |-> file[s]] /\ \A s \in Services : Own(s, file[s])
    BY DEF OwnInv
  <2>2. CASE file' = file
    BY <2>1, <2>2
  <2>3. ASSUME NEW s \in Services, NEW text, Own(s, text), file' = [file EXCEPT ![s] = text]
        PROVE  file' = [r \in Services |-> file'[r]] /\ \A r \in Services : Own(r, file'[r])
    BY <2>1, <2>3
  <2>. QED BY <2>2, <2>3 DEF OwnStepOf
<1>3. backups' = [s \in Services |-> backups'[s]] /\ \A s \in Services : BackupsOwn(s, backups'[s])
  <2>1. backups = [s \in Services |-> backups[s]] /\ \A s \in Services : BackupsOwn(s, backups[s])
    BY DEF OwnInv
  <2>2. CASE backups' = backups
    BY <2>1, <2>2
  <2>3. ASSUME NEW s \in Services, NEW old, BackupsOwn(s, old),
               backups' = [backups EXCEPT ![s] = old]
        PROVE  backups' = [r \in Services |-> backups'[r]]
               /\ \A r \in Services : BackupsOwn(r, backups'[r])
    BY <2>1, <2>3
  <2>. QED BY <2>2, <2>3 DEF OwnStepOf
<1>. QED BY <1>1, <1>2, <1>3 DEF OwnInv

\* A helper's step, action by action.
LEMMA OwnStep ==
  ASSUME OwnInv, NEW p \in Procs,
         \/ StartCommand(p) \/ ReadFile(p) \/ ReadBackup(p)
         \/ OpenBackup(p) \/ CopyBackup(p) \/ ReplaceFile(p) \/ Killed(p)
  PROVE  OwnStepOf(p)
<1>. DEFINE h == proc[p]
            s == Service(p)
<1>1. HelperOwn(h) /\ h \in Helpers /\ proc = [q \in Procs |-> proc[q]]
  BY DEF OwnInv, HelperOwn
<1>2. h.at # "idle" => h.cmd \in Commands /\ h.cmd.left[1] \in Services /\ s = h.cmd.left[1]
  <2>1. h.at # "idle" => h.cmd \in Commands
    BY <1>1 DEF HelperOwn
  <2>2. \A c \in Commands : c.left \in Seq(Services) /\ c.left # <<>>
    BY DEF Commands
  <2>3. \A q \in Seq(Services) : q # <<>> => q[1] \in Services
    OBVIOUS
  <2>. QED BY <2>1, <2>2, <2>3 DEF Service
<1>3. \A r \in Services : Own(r, file[r]) /\ BackupsOwn(r, backups[r])
  BY DEF OwnInv
<1>. HIDE DEF h, s
<1>4. h = proc[p] /\ s = Service(p)
  BY DEF h, s
<1>5. CASE StartCommand(p)
  <2>1. PICK cmd \in Toggles \cup Restores \cup Wirings : proc' = [proc EXCEPT ![p] = Reading(cmd)]
    BY <1>5, Zenon DEF StartCommand
  <2>2. HelperOwn(Reading(cmd))
    BY FreshHelper, CommandsStarted
  <2>. QED BY <1>5, <2>1, <2>2 DEF StartCommand, OwnStepOf
<1>6. CASE ReadFile(p)
  <2>. DEFINE text == file[s]
              next == IF NoOp(h.cmd, text) THEN Onward(p)
                      ELSE IF Valid(Candidate(h.cmd, text))
                      THEN [h EXCEPT !.at = "backup", !.text = Candidate(h.cmd, text)]
                      ELSE Idle
  <2>1. proc' = [proc EXCEPT ![p] = next] /\ UNCHANGED <<file, backups>>
    BY <1>1, <1>4, <1>6 DEF ReadFile
  <2>2. h.at = "read" /\ h.cmd.do # "restore"
    BY <1>4, <1>6 DEF ReadFile
  <2>3. ~NoOp(h.cmd, text) => Own(s, Candidate(h.cmd, text))
    BY <1>2, <1>3, <2>2, CandidateOwn
  <2>4. ~NoOp(h.cmd, text)
          => HelperOwn([h EXCEPT !.at = "backup", !.text = Candidate(h.cmd, text)])
    BY <1>1, <1>2, <2>2, <2>3 DEF HelperOwn, Helpers, Own
  <2>5. HelperOwn(Onward(p)) /\ HelperOwn(Idle)
    BY <1>1, <1>4, <2>2, OnwardOwn, FreshHelper
  <2>6. HelperOwn(next)
    BY <2>4, <2>5
  <2>. HIDE DEF next
  <2>. QED BY <2>1, <2>6 DEF OwnStepOf
<1>7. CASE ReadBackup(p)
  <2>. DEFINE old == backups[s]
              last == old[Max(DOMAIN old)]
              next == IF DOMAIN old # {} /\ Valid(last)
                      THEN [h EXCEPT !.at = "replace", !.text = last] ELSE Idle
  <2>1. proc' = [proc EXCEPT ![p] = next] /\ UNCHANGED <<file, backups>>
    BY <1>1, <1>4, <1>7 DEF ReadBackup
  <2>2. h.at = "read"
    BY <1>4, <1>7 DEF ReadBackup
  <2>3. HelperOwn(Idle)
    BY FreshHelper
  <2>4. ASSUME DOMAIN old # {}, Valid(last)
        PROVE  HelperOwn([h EXCEPT !.at = "replace", !.text = last])
    <3>1. Own(s, last)
      BY <1>2, <1>3, <2>2, <2>4, LatestBackup
    <3>. HIDE DEF last
    <3>. QED BY <1>1, <1>2, <2>2, <3>1 DEF HelperOwn, Helpers, Own
  <2>5. HelperOwn(next)
    BY <2>3, <2>4
  <2>. HIDE DEF next
  <2>. QED BY <2>1, <2>5 DEF OwnStepOf
<1>8. CASE OpenBackup(p)
  <2>1. PICK stamp \in Stamps :
          /\ backups' = [backups EXCEPT ![s] = Save(@, stamp, <<>>)]
          /\ proc' = [proc EXCEPT ![p].at = "copy", ![p].saved = file[s], ![p].stamp = stamp]
    BY <1>4, <1>8, Zenon DEF OpenBackup
  <2>2. h.at = "backup" /\ file' = file
    BY <1>4, <1>8 DEF OpenBackup
  <2>3. stamp \in Nat
    BY StackAssumption
  <2>4. HelperOwn([h EXCEPT !.at = "copy", !.saved = file[s], !.stamp = stamp])
    BY <1>1, <1>2, <1>3, <2>2, <2>3 DEF HelperOwn, Helpers, Own
  <2>5. proc' = [proc EXCEPT ![p] = [h EXCEPT !.at = "copy", !.saved = file[s], !.stamp = stamp]]
    BY <1>1, <1>4, <2>1
  <2>6. BackupsOwn(s, Save(backups[s], stamp, <<>>))
    BY <1>2, <1>3, <2>2, <2>3, SavedBackup
  <2>7. s \in Services /\ backups' = [backups EXCEPT ![s] = Save(backups[s], stamp, <<>>)]
    BY <1>2, <2>1, <2>2
  <2>. QED BY <2>2, <2>4, <2>5, <2>6, <2>7 DEF OwnStepOf
<1>9. CASE CopyBackup(p)
  <2>1. h.at = "copy" /\ file' = file
        /\ backups' = [backups EXCEPT ![s] = Save(backups[s], h.stamp, h.saved)]
        /\ proc' = [proc EXCEPT ![p].at = "replace", ![p].saved = <<>>, ![p].stamp = 0]
    BY <1>4, <1>9 DEF CopyBackup
  <2>2. s \in Services /\ Own(s, h.saved) /\ h.stamp \in Nat
    BY <1>1, <1>2, <2>1 DEF HelperOwn, Helpers
  <2>3. HelperOwn([h EXCEPT !.at = "replace", !.saved = <<>>, !.stamp = 0])
    <3>1. <<>> \in Seq(Lines) /\ 0 \in Nat
      BY EmptySeq
    <3>. QED BY <1>1, <2>1, <3>1 DEF HelperOwn, Helpers
  <2>4. proc' = [proc EXCEPT ![p] = [h EXCEPT !.at = "replace", !.saved = <<>>, !.stamp = 0]]
    BY <1>1, <1>4, <2>1
  <2>5. BackupsOwn(s, Save(backups[s], h.stamp, h.saved))
    BY <1>3, <2>2, SavedBackup
  <2>. QED BY <2>1, <2>2, <2>3, <2>4, <2>5 DEF OwnStepOf
<1>10. CASE ReplaceFile(p)
  <2>1. h.at = "replace" /\ backups' = backups /\ file' = [file EXCEPT ![s] = h.text]
        /\ proc' = [proc EXCEPT ![p] = Onward(p)]
    BY <1>4, <1>10 DEF ReplaceFile
  <2>2. s \in Services /\ Own(s, h.text)
    BY <1>1, <1>2, <2>1 DEF HelperOwn
  <2>3. HelperOwn(Onward(p))
    BY <1>1, <1>4, <2>1, OnwardOwn
  <2>. QED BY <2>1, <2>2, <2>3 DEF OwnStepOf
<1>11. CASE Killed(p)
  BY <1>11, FreshHelper DEF Killed, OwnStepOf
<1>. QED BY <1>5, <1>6, <1>7, <1>8, <1>9, <1>10, <1>11

\* At first the files are as installed, and nothing else is held.
LEMMA OwnInit == Init => OwnInv
<1>. SUFFICES ASSUME Init PROVE OwnInv
  OBVIOUS
<1>1. \A s \in Services : Own(s, Original[s])
  <2>. TAKE s \in Services
  <2>1. Original[s] \in Seq(AsInstalled)
    BY StackAssumption
  <2>2. Keep(Original[s], AsInstalled) = Original[s]
    BY <2>1, KeepAllOrNone
  <2>3. AsInstalled \subseteq Lines
    BY DEF AsInstalled
  <2>4. Ordered(Original[s])
    BY <2>1, InstalledOrdered
  <2>. QED BY <2>1, <2>2, <2>3, <2>4, SeqMonotonic DEF Own
<1>2. \A s : BackupsOwn(s, <<>>)
  BY DEF BackupsOwn
<1>3. file = [s \in Services |-> file[s]] /\ \A s \in Services : Own(s, file[s])
  BY <1>1, StackAssumption DEF Init
<1>. QED BY <1>2, <1>3, FreshHelper DEF Init, OwnInv

\* OwnInv is inductive.
LEMMA OwnNext == OwnInv /\ [Next]_vars => OwnInv'
<1>1. ASSUME OwnInv, UNCHANGED vars PROVE OwnInv'
  BY <1>1 DEF OwnInv, vars
<1>2. ASSUME OwnInv, Next PROVE OwnInv'
  BY <1>2, OwnStep, OwnOneStep DEF Next
<1>. QED BY <1>1, <1>2

\* However helpers interleave and wherever they are killed, every line that was
\* installed stays in its file, in its order.
THEOREM InstalledLinesKept == Spec => []OriginalKept
<1>1. OwnInv => OriginalKept
  BY DEF OwnInv, Own, OriginalKept
<1>. QED BY <1>1, OwnInit, OwnNext, PTL DEF Spec

-----------------------------------------------------------------------------
(* What a command makes of a text *)

\* The methods enabled and the phases wired depend on the lines alone.
LEMMA OfTheLines ==
  ASSUME NEW text
  PROVE  /\ EnabledOn(text) = {l.what : l \in {k \in LinesOf(text) : Managed(k)}} \cap Methods
         /\ WiredPhases(text) = {l.phase : l \in {k \in LinesOf(text) : Wired(k)}}
BY DEF EnabledOn, WiredPhases, LinesOf

\* A text with a password of the distribution's has an anchor when the helper's
\* own lines are out of it.
LEMMA AnchorStays ==
  ASSUME NEW s \in Services, NEW text, Own(s, text), Anchor(Original[s]) # 0
  PROVE  Anchor(Unmanaged(text)) # 0
<1>1. text \in Seq(Lines) /\ Original[s] \in Seq(Lines) /\ Unmanaged(text) \in Seq(Lines)
  <2>1. text \in Seq(Lines) /\ Original[s] = Keep(text, AsInstalled)
    BY DEF Own
  <2>. QED BY <2>1, KeepType DEF Unmanaged
<1>2. PICK l \in LinesOf(Original[s]) : l.phase = "auth" /\ l.what = "unix"
  BY <1>1, AnchorPlace
<1>3. LinesOf(Original[s]) = LinesOf(text) \cap AsInstalled
  <2>1. LinesOf(Keep(text, AsInstalled)) = LinesOf(text) \cap AsInstalled
    BY <1>1, LinesKept
  <2>. QED BY <2>1 DEF Own
<1>4. LinesOf(Unmanaged(text)) = LinesOf(text) \cap NotManaged
  BY <1>1, LinesKept DEF Unmanaged
<1>5. AsInstalled \subseteq NotManaged
  BY DEF AsInstalled, NotManaged, Managed
<1>6. l \in LinesOf(Unmanaged(text))
  BY <1>2, <1>3, <1>4, <1>5
<1>. QED BY <1>1, <1>2, <1>6, AnchorPlace

\* The lines of a text are lines.
LEMMA LinesAreLines ==
  ASSUME NEW text \in Seq(Lines)
  PROVE  LinesOf(text) \subseteq Lines
BY ElementOfSeq DEF LinesOf

\* Rebuilding a text with methods: they are enabled, and the wiring is as it was.
LEMMA RebuildAsAsked ==
  ASSUME NEW text \in Seq(Lines), NEW methods \in SUBSET Methods,
         Anchor(Unmanaged(text)) # 0
  PROVE  /\ EnabledOn(Rebuild(text, methods)) = methods
         /\ WiredPhases(Rebuild(text, methods)) = WiredPhases(text)
<1>. DEFINE new == Rebuild(text, methods)
            block == IF methods = {} THEN {} ELSE Block(methods)
<1>1. LinesOf(new) = (LinesOf(text) \cap NotManaged) \cup block
  BY RebuildText
<1>. HIDE DEF new
<1>2. methods \subseteq {"face", "fingerprint", "totp"} /\ Methods \subseteq {"face", "fingerprint", "totp"}
  BY StackAssumption
<1>3. \A w : Managed(Security(w)) /\ ~Wired(Security(w)) /\ Security(w).what = w
  BY DEF Managed, Wired, Security
<1>4. {k \in LinesOf(new) : Managed(k)} = block
  BY <1>1, <1>3 DEF NotManaged, Block
<1>5. {l.what : l \in block} \cap Methods = methods
  <2>1. {l.what : l \in Block(methods)} = {"preauth", "authfail"} \cup ({"face", "fingerprint", "totp"} \cap methods)
    BY <1>3 DEF Block
  <2>. QED BY <1>2, <2>1
<1>6. {k \in LinesOf(new) : Wired(k)} = {k \in LinesOf(text) : Wired(k)}
  <2>1. \A k \in block : ~Wired(k)
    BY <1>3 DEF Block
  <2>2. \A k \in LinesOf(text) : Wired(k) => k \in NotManaged
    BY LinesAreLines DEF NotManaged, Wired, Managed
  <2>. QED BY <1>1, <2>1, <2>2
<1>7. EnabledOn(new) = methods
  BY <1>4, <1>5, OfTheLines
<1>8. WiredPhases(new) = WiredPhases(text)
  BY <1>6, OfTheLines
<1>. QED BY <1>7, <1>8 DEF new

\* Wiring a text or not: all phases are wired or none, the methods are as they were.
LEMMA WireAsAsked ==
  ASSUME NEW text \in Seq(Lines), NEW on \in BOOLEAN
  PROVE  /\ EnabledOn(WireRebuild(text, on)) = EnabledOn(text)
         /\ WiredPhases(WireRebuild(text, on)) = IF on THEN Phases ELSE {}
<1>. DEFINE new == WireRebuild(text, on)
            wiring == IF on THEN {Azure(phase) : phase \in Phases} ELSE {}
<1>1. LinesOf(new) = (LinesOf(text) \cap NotWired) \cup wiring
  BY WireRebuildText
<1>. HIDE DEF new
<1>2. \A phase : Wired(Azure(phase)) /\ ~Managed(Azure(phase)) /\ Azure(phase).phase = phase
  BY DEF Managed, Wired, Azure
<1>3. {k \in LinesOf(new) : Wired(k)} = wiring
  BY <1>1, <1>2 DEF NotWired
<1>4. {l.phase : l \in wiring} = IF on THEN Phases ELSE {}
  BY <1>2
<1>5. {k \in LinesOf(new) : Managed(k)} = {k \in LinesOf(text) : Managed(k)}
  <2>1. \A k \in wiring : ~Managed(k)
    BY <1>2
  <2>2. \A k \in LinesOf(text) : Managed(k) => k \in NotWired
    BY LinesAreLines DEF NotWired, Wired, Managed
  <2>. QED BY <1>1, <2>1, <2>2
<1>6. EnabledOn(new) = EnabledOn(text)
  BY <1>5, OfTheLines
<1>7. WiredPhases(new) = IF on THEN Phases ELSE {}
  BY <1>3, <1>4, OfTheLines
<1>. QED BY <1>6, <1>7 DEF new

\* Every file that exists has a password of the distribution's to anchor at.
Anchored == \A s \in Services : Original[s] = <<>> \/ Anchor(Original[s]) # 0

LEMMA CandidateAsAsked ==
  ASSUME Anchored, NEW s \in Services, NEW text, Own(s, text), NEW cmd \in Commands,
         cmd.do # "restore", ~NoOp(cmd, text)
  PROVE  AsAsked(cmd, text, Candidate(cmd, text))
<1>1. cmd.do \in {"enable", "disable", "wire", "unwire"}
  BY DEF Commands
<1>2. text \in Seq(Lines) /\ Original[s] # <<>>
  <2>1. text # <<>>
    BY <1>1 DEF NoOp
  <2>. QED BY <2>1 DEF Own
<1>3. Anchor(Unmanaged(text)) # 0
  BY <1>2, AnchorStays DEF Anchored
<1>4. EnabledOn(text) \subseteq Methods
  BY DEF EnabledOn
<1>5. CASE cmd.do = "enable"
  <2>1. EnabledOn(text) \cup {cmd.method} \in SUBSET Methods
    BY <1>4, <1>5 DEF Commands
  <2>. QED BY <1>2, <1>3, <1>5, <2>1, RebuildAsAsked DEF AsAsked, Candidate
<1>6. CASE cmd.do = "disable"
  <2>1. EnabledOn(text) \ {cmd.method} \in SUBSET Methods
    BY <1>4
  <2>. QED BY <1>2, <1>3, <1>6, <2>1, RebuildAsAsked DEF AsAsked, Candidate
<1>7. CASE cmd.do = "wire"
  BY <1>2, <1>7, WireAsAsked DEF AsAsked, Candidate
<1>8. CASE cmd.do = "unwire"
  BY <1>2, <1>8, WireAsAsked DEF AsAsked, Candidate
<1>. QED BY <1>1, <1>5, <1>6, <1>7, <1>8

\* A helper that is about to write comes from reading its file.
LEMMA AsAskedStep ==
  ASSUME Anchored, OwnInv, [Next]_vars, NEW p \in Procs,
         proc[p].at = "read", proc'[p].at = "backup"
  PROVE  AsAsked(proc[p].cmd, file[Service(p)], proc'[p].text)
<1>. DEFINE h == proc[p]
            s == Service(p)
            new == Candidate(h.cmd, file[s])
<1>1. HelperOwn(h) /\ proc = [q \in Procs |-> proc[q]]
  BY DEF OwnInv
<1>2. h.cmd \in Commands /\ s \in Services /\ Own(s, file[s])
  <2>1. h.cmd \in Commands
    BY <1>1 DEF HelperOwn
  <2>2. \A c \in Commands : c.left \in Seq(Services) /\ c.left # <<>>
    BY DEF Commands
  <2>3. \A q \in Seq(Services) : q # <<>> => q[1] \in Services
    OBVIOUS
  <2>4. s \in Services
    BY <2>1, <2>2, <2>3 DEF Service
  <2>. QED BY <2>1, <2>4 DEF OwnInv
<1>3. ReadFile(p)
  <2>1. PICK q \in Procs : \/ StartCommand(q) \/ ReadFile(q) \/ ReadBackup(q)
                           \/ OpenBackup(q) \/ CopyBackup(q) \/ ReplaceFile(q) \/ Killed(q)
    BY DEF Next, vars
  <2>2. \E r : proc' = [proc EXCEPT ![q] = r]
    BY <2>1, Zenon DEF StartCommand, ReadFile, ReadBackup, OpenBackup, CopyBackup,
                       ReplaceFile, Killed
  <2>3. q = p
    BY <1>1, <2>2
  <2>4. ~StartCommand(p) /\ ~OpenBackup(p) /\ ~CopyBackup(p) /\ ~ReplaceFile(p)
    BY DEF StartCommand, OpenBackup, CopyBackup, ReplaceFile
  <2>5. ~Killed(p)
    BY <1>1 DEF Killed, Idle
  <2>6. ASSUME ReadBackup(p) PROVE FALSE
    <3>1. PICK text : proc'[p] = [h EXCEPT !.at = "replace", !.text = text] \/ proc'[p] = Idle
      BY <1>1, <2>6 DEF ReadBackup
    <3>2. h \in Helpers
      BY <1>1 DEF HelperOwn
    <3>. HIDE DEF h
    <3>3. [h EXCEPT !.at = "replace", !.text = text].at = "replace" /\ Idle.at = "idle"
      BY <3>2 DEF Helpers, Idle
    <3>4. proc'[p].at \in {"replace", "idle"}
      BY <3>1, <3>3
    <3>. QED BY <3>4
  <2>. QED BY <2>1, <2>3, <2>4, <2>5, <2>6
<1>. HIDE DEF new
<1>4. proc'[p] = IF NoOp(h.cmd, file[s]) THEN Onward(p)
                 ELSE IF Valid(new) THEN [h EXCEPT !.at = "backup", !.text = new] ELSE Idle
  BY <1>1, <1>3 DEF ReadFile, new
<1>5. Onward(p).at # "backup" /\ Idle.at # "backup"
  BY OnwardDoesNotWrite DEF Idle
<1>6. ~NoOp(h.cmd, file[s]) /\ proc'[p] = [h EXCEPT !.at = "backup", !.text = new]
  BY <1>4, <1>5
<1>7. proc'[p].text = new
  BY <1>1, <1>6 DEF HelperOwn, Helpers
<1>8. h.cmd.do # "restore"
  BY <1>3 DEF ReadFile
<1>. QED BY <1>2, <1>6, <1>7, <1>8, CandidateAsAsked DEF new

\* If every file that exists has a password of the distribution's, a command
\* writes what it was asked for, whatever others write meanwhile: the methods
\* it found with its own added or removed, the wiring as it was, or the reverse.
THEOREM AskedIsWritten ==
  ASSUME Anchored
  PROVE  Spec => WritesWhatIsAsked
<1>1. OwnInv /\ [Next]_vars
        => [\A p \in Procs : proc[p].at = "read" /\ proc'[p].at = "backup" =>
              AsAsked(proc[p].cmd, file[Service(p)], proc'[p].text)]_vars
  BY AsAskedStep
<1>. QED BY <1>1, OwnInit, OwnNext, PTL DEF Spec, WritesWhatIsAsked

-----------------------------------------------------------------------------
(* The stacks look as documented *)

\* The first line of one kind in a text.
LEMMA FirstOfOne ==
  ASSUME NEW text \in Seq(Lines), NEW one \in Lines
  PROVE  LET first == FirstOf(text, {one})
         IN  \/ first = 0 /\ one \notin LinesOf(text)
             \/ /\ one \in LinesOf(text) /\ first \in 1 .. Len(text) /\ text[first] = one
                /\ \A i \in 1 .. Len(text) : i < first => text[i] # one
<1>. DEFINE first == FirstOf(text, {one})
<1>1. \/ first = 0 /\ LinesOf(text) \cap {one} = {}
      \/ /\ first \in 1 .. Len(text) /\ text[first] \in {one}
         /\ \A i \in 1 .. Len(text) : i < first => text[i] \notin {one}
  BY FirstOfLines
<1>. HIDE DEF first
<1>2. first \in 1 .. Len(text) => text[first] \in LinesOf(text)
  BY DEF LinesOf
<1>3. \/ first = 0 /\ one \notin LinesOf(text)
      \/ /\ one \in LinesOf(text) /\ first \in 1 .. Len(text) /\ text[first] = one
         /\ \A i \in 1 .. Len(text) : i < first => text[i] # one
  BY <1>1, <1>2
<1>. QED BY <1>3 DEF first

\* A text in order, with a password of the distribution's, looks as documented.
LEMMA OrderedIsDocumented ==
  ASSUME NEW text \in Seq(Lines), Ordered(text), LinesOf(text) \cap Distributions # {}
  PROVE  LET Place(what, mark) == SelectInSeq(text, LAMBDA l : l.phase = "auth" /\ l.what = what
                                                                /\ l.mark = mark)
             password == Place("unix", "none")
             preauth == Place("preauth", "security")
             authfail == Place("authfail", "security")
         IN  /\ EnabledOn(text) # {} <=> preauth # 0
             /\ preauth # 0 <=> authfail # 0
             /\ \A m \in EnabledOn(text) : /\ preauth < Place(m, "security")
                                           /\ Place(m, "security") < authfail
                                           /\ m = "totp" <=> password < Place(m, "security")
             /\ Place("himmelblau", "azure") < password
<1>. DEFINE Place(what, mark) == SelectInSeq(text, LAMBDA l : l.phase = "auth" /\ l.what = what
                                                             /\ l.mark = mark)
            At(w) == FirstOf(text, {Security(w)})
            password == FirstOf(text, Distributions)
            entra == FirstOf(text, {Azure("auth")})
<1>1. \A i \in 1 .. Len(text) : text[i] \in Lines
  BY ElementOfSeq
<1>2. \A w \in Contributions : Place(w, "security") = At(w)
  <2>. TAKE w \in Contributions
  <2>1. \A l \in Lines : (l.phase = "auth" /\ l.what = w /\ l.mark = "security") <=> l \in {Security(w)}
    BY DEF Lines, Security
  <2>2. {i \in 1 .. Len(text) : text[i].phase = "auth" /\ text[i].what = w /\ text[i].mark = "security"}
          = {i \in 1 .. Len(text) : text[i] \in {Security(w)}}
    BY <1>1, <2>1
  <2>. QED BY <2>2 DEF FirstOf, SelectInSeq
<1>3. Place("himmelblau", "azure") = entra
  <2>1. \A l \in Lines : (l.phase = "auth" /\ l.what = "himmelblau" /\ l.mark = "azure")
                           <=> l \in {Azure("auth")}
    BY DEF Lines, Azure
  <2>2. {i \in 1 .. Len(text) : text[i].phase = "auth" /\ text[i].what = "himmelblau" /\ text[i].mark = "azure"}
          = {i \in 1 .. Len(text) : text[i] \in {Azure("auth")}}
    BY <1>1, <2>1
  <2>. QED BY <2>2 DEF FirstOf, SelectInSeq
<1>4. Place("unix", "none") = password
  <2>1. \A l \in Lines : (l.phase = "auth" /\ l.what = "unix" /\ l.mark = "none") <=> l \in Distributions
    BY DEF Distributions
  <2>2. {i \in 1 .. Len(text) : text[i].phase = "auth" /\ text[i].what = "unix" /\ text[i].mark = "none"}
          = {i \in 1 .. Len(text) : text[i] \in Distributions}
    BY <1>1, <2>1
  <2>. QED BY <2>2 DEF FirstOf, SelectInSeq
<1>5. {"preauth", "authfail", "face", "fingerprint", "totp"} \subseteq Contributions
      /\ Methods \subseteq {"face", "fingerprint", "totp"}
  BY StackAssumption DEF Contributions
<1>6. PICK methods \in SUBSET Methods :
        {l \in LinesOf(text) : Managed(l)} = IF methods = {} THEN {} ELSE Block(methods)
  BY DEF Ordered
<1>7. EnabledOn(text) = methods
  <2>1. {l.what : l \in Block(methods)} = {"preauth", "authfail"} \cup ({"face", "fingerprint", "totp"} \cap methods)
    <3>1. \A w : Security(w).what = w
      BY OwnMarks
    <3>. QED BY <3>1 DEF Block
  <2>2. EnabledOn(text) = {l.what : l \in {k \in LinesOf(text) : Managed(k)}} \cap Methods
    BY OfTheLines
  <2>. QED BY <1>5, <1>6, <2>1, <2>2
<1>8. \A w \in {"preauth", "authfail", "face", "fingerprint", "totp"} :
        \/ At(w) = 0 /\ Security(w) \notin LinesOf(text)
        \/ /\ Security(w) \in LinesOf(text)
           /\ At(w) \in 1 .. Len(text) /\ text[At(w)] = Security(w)
  BY <1>5, OwnMarks, FirstOfOne
<1>9. /\ password \in 1 .. Len(text) /\ text[password] \in Distributions
      /\ \A i \in 1 .. Len(text) : i < password => text[i] \notin Distributions
  BY FirstOfLines
<1>10. \/ entra = 0
       \/ entra \in 1 .. Len(text) /\ text[entra] = Azure("auth")
  <2>1. Azure("auth") \in Lines
    BY OwnMarks DEF Phases
  <2>. QED BY <2>1, FirstOfOne
<1>. HIDE DEF Place, At, password, entra
<1>11. \A w \in {"preauth", "authfail"} \cup methods : methods # {} => At(w) # 0
  <2>1. \A w \in {"preauth", "authfail"} \cup methods : methods # {} => Security(w) \in LinesOf(text)
    BY <1>5, <1>6 DEF Block
  <2>. QED BY <1>5, <1>8, <2>1
<1>12. \A w \in {"preauth", "authfail"} : methods = {} => At(w) = 0
  <2>1. \A w \in {"preauth", "authfail"} : methods = {} => Security(w) \notin LinesOf(text)
    BY <1>6, OwnMarks
  <2>. QED BY <1>8, <2>1
<1>13. \A i, j \in 1 .. Len(text) : i < j => <<text[i], text[j]>> \notin Misplaced
  BY DEF Ordered, Avoids
<1>14. ASSUME NEW m \in methods
       PROVE  At("preauth") < At(m) /\ At(m) < At("authfail")
  <2>1. m \in {"face", "fingerprint", "totp"}
    BY <1>5
  <2>2. \A w \in {"preauth", "authfail", m} : At(w) \in 1 .. Len(text) /\ text[At(w)] = Security(w)
    BY <1>8, <1>11, <2>1
  <2>3. At("preauth") # At(m) /\ At("authfail") # At(m)
    <3>1. Security("preauth") # Security(m) /\ Security("authfail") # Security(m)
      BY <2>1, OwnMarks
    <3>. QED BY <2>2, <3>1
  <2>4. <<Security(m), Security("preauth")>> \in Misplaced
        /\ <<Security("authfail"), Security(m)>> \in Misplaced
    BY <1>5, <2>1, OwnMarks DEF Misplaced
  <2>5. ~(At(m) < At("preauth")) /\ ~(At("authfail") < At(m))
    BY <1>13, <2>2, <2>4
  <2>6. At("preauth") \in Nat /\ At(m) \in Nat /\ At("authfail") \in Nat
    BY <2>2
  <2>. QED BY <2>3, <2>5, <2>6
<1>15. ASSUME NEW m \in methods, m # "totp"
       PROVE  ~(password < At(m))
  <2>1. m \in {"face", "fingerprint"}
    BY <1>5, <1>15
  <2>2. At(m) \in 1 .. Len(text) /\ text[At(m)] = Security(m)
    BY <1>8, <1>11, <2>1
  <2>3. text[password] \in Lines /\ Security(m) \in Lines
    BY <1>1, <1>5, <1>9, <2>1, OwnMarks
  <2>4. <<text[password], Security(m)>> \in Misplaced
    BY <1>9, <2>1, <2>3 DEF Misplaced
  <2>. QED BY <1>9, <1>13, <2>2, <2>4
<1>16. ASSUME "totp" \in methods
       PROVE  password < At("totp")
  <2>1. At("totp") \in 1 .. Len(text) /\ text[At("totp")] = Security("totp")
    BY <1>8, <1>11, <1>16
  <2>2. PICK i \in 1 .. Len(text) : i < At("totp") /\ text[i] \in Distributions
    BY <2>1 DEF Ordered, Led
  <2>3. ~(i < password)
    BY <1>9, <2>2
  <2>. QED BY <1>9, <2>1, <2>2, <2>3
<1>17. entra < password
  <2>1. CASE entra = 0
    BY <1>9, <2>1
  <2>2. CASE entra \in 1 .. Len(text) /\ text[entra] = Azure("auth")
    <3>1. entra # password
      BY <1>9, <2>2, OwnMarks
    <3>2. text[password] \in Lines /\ Azure("auth") \in Lines
      BY <1>1, <1>9, <2>2
    <3>3. <<text[password], Azure("auth")>> \in Misplaced
      BY <1>9, <3>2 DEF Misplaced
    <3>4. ~(password < entra)
      BY <1>9, <1>13, <2>2, <3>3
    <3>. QED BY <1>9, <2>2, <3>1, <3>4
  <2>. QED BY <1>10, <2>1, <2>2
<1>18. /\ Place("preauth", "security") = At("preauth")
       /\ Place("authfail", "security") = At("authfail")
       /\ \A m \in methods : Place(m, "security") = At(m)
  BY <1>2, <1>5
<1>19. /\ EnabledOn(text) # {} <=> Place("preauth", "security") # 0
       /\ Place("preauth", "security") # 0 <=> Place("authfail", "security") # 0
  BY <1>7, <1>11, <1>12, <1>18
<1>20. \A m \in EnabledOn(text) :
         /\ Place("preauth", "security") < Place(m, "security")
         /\ Place(m, "security") < Place("authfail", "security")
         /\ m = "totp" <=> Place("unix", "none") < Place(m, "security")
  BY <1>4, <1>7, <1>14, <1>15, <1>16, <1>18
<1>21. Place("himmelblau", "azure") < Place("unix", "none")
  BY <1>3, <1>4, <1>17
<1>. QED BY <1>19, <1>20, <1>21 DEF Place

\* If every file that exists has a password of the distribution's, every stack
\* looks as documented at all times: biometrics and Entra ID before the
\* password, TOTP behind it, faillock around them, whatever helpers interleave,
\* are killed or restore.
THEOREM StacksAreInOrder ==
  ASSUME Anchored
  PROVE  Spec => []StackOrder
<1>1. ASSUME OwnInv PROVE StackOrder
  <2>1. ASSUME NEW s \in Services, file[s] # <<>>
        PROVE  /\ file[s] \in Seq(Lines) /\ Ordered(file[s])
               /\ LinesOf(file[s]) \cap Distributions # {}
    <3>1. Own(s, file[s])
      BY <1>1 DEF OwnInv
    <3>2. Anchor(Original[s]) # 0 /\ Original[s] \in Seq(AsInstalled)
      BY <2>1, <3>1, StackAssumption DEF Own, Anchored
    <3>3. AsInstalled \subseteq Lines
      BY DEF AsInstalled
    <3>4. Original[s] \in Seq(Lines)
      BY <3>2, <3>3, SeqMonotonic
    <3>5. PICK l \in LinesOf(Original[s]) : l.phase = "auth" /\ l.what = "unix"
      BY <3>2, <3>4, AnchorPlace
    <3>6. LinesOf(Original[s]) = LinesOf(file[s]) \cap AsInstalled
      BY <3>1, LinesKept DEF Own
    <3>7. l \in LinesOf(file[s]) /\ l \in Distributions
      BY <3>5, <3>6 DEF AsInstalled, Distributions
    <3>. QED BY <3>1, <3>7 DEF Own
  <2>. QED BY <2>1, OrderedIsDocumented DEF StackOrder
<1>. QED BY <1>1, OwnInit, OwnNext, PTL DEF Spec
=============================================================================
