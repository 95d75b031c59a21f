----------------------------- MODULE PagesProofs -----------------------------
(***************************************************************************)
(* Proofs about the pages and searches of a transcript (Pages), for any    *)
(* letters, turns and query; and the induction and recursion they and the  *)
(* proofs about the readers of a log (TranscriptsProofs) rest on.          *)
(***************************************************************************)
EXTENDS MCTranscripts, SequenceTheorems, FiniteSetTheorems, TLAPS

-----------------------------------------------------------------------------
(* Induction and recursion over lines, turns and letters.                  *)

\* What holds of 0 and of every successor holds of every number.
LEMMA Inductive ==
    ASSUME NEW S, 0 \in S, \A n \in Nat : n \in S => n + 1 \in S
    PROVE  Nat \subseteq S
<1> SUFFICES ASSUME ~(Nat \subseteq S) PROVE FALSE
  OBVIOUS
<1> DEFINE T == Nat \ S
           R == OpToRel(<, Nat)
<1>1. T \subseteq Nat /\ T # {}
  OBVIOUS
<1>2. IsWellFoundedOn(R, Nat)
  BY NatLessThanWellFounded
<1>3. \E x \in T : \A y \in T : ~(<<y, x>> \in R)
  <2> HIDE DEF T, R
  <2> QED
    BY <1>1, <1>2, WFMin
<1>4. PICK x \in T : \A y \in T : ~(<<y, x>> \in R)
  BY <1>3
<1>5. \A y \in T : ~(y < x)
  BY <1>1, <1>4 DEF OpToRel
<1>6. x # 0 /\ x \in Nat
  BY <1>1
<1>7. x - 1 \in Nat /\ x - 1 < x /\ x = (x - 1) + 1
  BY <1>6
<1>8. x - 1 \in S
  BY <1>5, <1>7
<1> QED
  BY <1>4, <1>7, <1>8

\* f is the function over 0..n that is base below k, and whose every other value is
\* made of the one before.
Made(f, T, base, next, k, n) ==
    f \in [0..n -> T] /\ \A i \in 0..n : f[i] = IF i < k THEN base ELSE next[i][f[i - 1]]

\* There is such a function.
LEMMA Recursion ==
    ASSUME NEW T, NEW base \in T, NEW next \in [Nat -> [T -> T]], NEW k \in Nat \ {0}, NEW n \in Nat
    PROVE  \E f : Made(f, T, base, next, k, n)
<1> DEFINE S == {m \in Nat : \E f : Made(f, T, base, next, k, m)}
<1>1. 0 \in S
  <2>1. Made([i \in 0..0 |-> base], T, base, next, k, 0)
    BY DEF Made
  <2> QED
    BY <2>1
<1>2. ASSUME NEW m \in Nat, m \in S PROVE m + 1 \in S
  <2>1. PICK f : Made(f, T, base, next, k, m)
    BY <1>2
  <2>2. PICK last : last = IF m + 1 < k THEN base ELSE next[m + 1][f[m]]
    OBVIOUS
  <2>3. last \in T /\ f \in [0..m -> T]
    BY <2>1, <2>2 DEF Made
  <2>4. PICK g : g = [i \in 0..(m + 1) |-> IF i = m + 1 THEN last ELSE f[i]]
    OBVIOUS
  <2>5. g \in [0..(m + 1) -> T]
    BY <2>3, <2>4
  <2>6. ASSUME NEW i \in 0..(m + 1)
        PROVE  g[i] = IF i < k THEN base ELSE next[i][g[i - 1]]
    <3>1. CASE i = m + 1
      <4>1. g[i] = last /\ i - 1 = m
        BY <2>4, <3>1
      <4>2. g[m] = f[m]
        BY <2>4
      <4> QED
        BY <2>2, <3>1, <4>1, <4>2
    <3>2. CASE i # m + 1
      <4>1. i \in 0..m
        BY <3>2
      <4>2. g[i] = f[i] /\ f[i] = IF i < k THEN base ELSE next[i][f[i - 1]]
        BY <2>1, <2>4, <4>1 DEF Made
      <4>3. ~(i < k) => i - 1 \in 0..(m + 1) /\ i - 1 # m + 1 /\ g[i - 1] = f[i - 1]
        BY <2>4, <4>1
      <4> QED
        BY <4>2, <4>3
    <3> QED
      BY <3>1, <3>2
  <2>8. Made(g, T, base, next, k, m + 1)
    BY <2>5, <2>6 DEF Made
  <2> QED
    BY <2>8
<1>3. n \in S
  <2> HIDE DEF S
  <2> QED
    BY <1>1, <1>2, Inductive
<1> QED
  BY <1>3

-----------------------------------------------------------------------------
(* The pages of a transcript (Pages).                                      *)

PagePart == Seq(Letters) \cup {Paged!Tool}

\* The transcript and the query are of letters and tools.
PageInv == transcript \in Seq(Seq(PagePart)) /\ query \in Seq(Letters)

\* A function over the first numbers is a sequence.
LEMMA FunctionSeq ==
    ASSUME NEW n \in Nat, NEW R, R = [i \in 1..n |-> R[i]]
    PROVE  R \in Seq({R[i] : i \in 1..n}) /\ Len(R) = n
<1>1. PICK T : T = {R[i] : i \in 1..n}
  OBVIOUS
<1>2. R \in [1..n -> T]
  BY <1>1
<1>3. R \in Seq(T) /\ DOMAIN R = 1..n
  BY <1>2
<1> QED
  BY <1>1, <1>3

\* The rendered turns are as many.
LEMMA RenderedLen ==
    ASSUME NEW S, NEW ts \in Seq(S)
    PROVE  \E T : Paged!Rendered(ts) \in Seq(T) /\ Len(Paged!Rendered(ts)) = Len(ts) /\ Len(ts) \in Nat
<1>1. PICK R : R = Paged!Rendered(ts)
  OBVIOUS
<1>2. R = [i \in 1..Len(ts) |-> Paged!flattenTurnText(ts[i], TRUE)] /\ Len(ts) \in Nat
  BY <1>1 DEF Paged!Rendered
<1>3. R \in Seq({R[i] : i \in 1..Len(ts)}) /\ Len(R) = Len(ts)
  BY <1>2, FunctionSeq
<1> QED
  BY <1>1, <1>2, <1>3

\* The turns of a page are rendered as they are in the transcript.
LEMMA PartRendered ==
    ASSUME NEW S, NEW ts \in Seq(S), NEW a \in Nat, NEW b \in Nat, a <= b, b <= Len(ts)
    PROVE  Paged!Rendered(SubSeq(ts, a + 1, b)) = SubSeq(Paged!Rendered(ts), a + 1, b)
<1>1. PICK R : R = Paged!Rendered(ts)
  OBVIOUS
<1>2. PICK p : p = SubSeq(ts, a + 1, b)
  OBVIOUS
<1>3. p \in Seq(S) /\ Len(p) = b - a /\ \A i \in 1..(b - a) : p[i] = ts[a + i]
  BY <1>2
<1>4. R = [i \in 1..Len(ts) |-> Paged!flattenTurnText(ts[i], TRUE)]
  BY <1>1 DEF Paged!Rendered
<1>5. PICK T : R \in Seq(T) /\ Len(R) = Len(ts) /\ Len(ts) \in Nat
  BY <1>1, RenderedLen
<1>6. PICK q : q = SubSeq(R, a + 1, b)
  OBVIOUS
<1>7. q \in Seq(T) /\ Len(q) = b - a /\ \A i \in 1..(b - a) : q[i] = R[a + i]
  BY <1>5, <1>6
<1>8. q = [i \in 1..(b - a) |-> q[i]]
  BY <1>7
<1>9. Paged!Rendered(p) = [i \in 1..(b - a) |-> Paged!flattenTurnText(p[i], TRUE)]
  BY <1>3 DEF Paged!Rendered
<1>10. ASSUME NEW i \in 1..(b - a) PROVE Paged!flattenTurnText(p[i], TRUE) = q[i]
  <2>1. a + i \in 1..Len(ts)
    OBVIOUS
  <2> QED
    BY <1>3, <1>4, <1>5, <1>7, <2>1
<1> QED
  BY <1>1, <1>2, <1>6, <1>8, <1>9, <1>10

\* A page from an offset holds the turns from it to its end, or to the transcript's.
LEMMA PageIs ==
    ASSUME PageInv, NEW o \in Nat, NEW limit \in Int, NEW size \in Nat, size = Paged!AtLeast(1, limit),
           NEW N \in Nat, N = Len(transcript)
    PROVE  Paged!Page(o, limit) = SubSeq(Paged!Rendered(transcript),
                                        (IF o > N THEN N ELSE o) + 1, IF o + size > N THEN N ELSE o + size)
<1>1. PICK s : s = IF limit <= 0 THEN 1 ELSE limit
  OBVIOUS
<1>2. s = size /\ s >= 1 /\ s \in Nat
  BY <1>1 DEF Paged!AtLeast
<1>3. PICK a, b : a = (IF o > N THEN N ELSE o) /\ b = (IF o + size > N THEN N ELSE o + size)
  OBVIOUS
<1>4. a \in Nat /\ b \in Nat /\ a <= b /\ b <= N
  BY <1>2, <1>3
<1>5. Paged!AtMost(N, Paged!AtLeast(0, o)) = a
  BY <1>3 DEF Paged!AtMost, Paged!AtLeast
<1>6. Paged!AtMost(N, a + s) = b
  BY <1>2, <1>3, <1>4 DEF Paged!AtMost
<1>7. ~(o < 0)
  OBVIOUS
<1>8. Paged!pageBounds(o, limit, N) = <<a, b>>
  BY <1>1, <1>5, <1>6, <1>7 DEF Paged!pageBounds
<1>9. Paged!Page(o, limit) = Paged!Rendered(SubSeq(transcript, a + 1, b))
  BY <1>8 DEF Paged!Page
<1>10. Paged!Rendered(SubSeq(transcript, a + 1, b)) = SubSeq(Paged!Rendered(transcript), a + 1, b)
  BY <1>4, PartRendered DEF PageInv
<1> QED
  BY <1>3, <1>9, <1>10

\* What is read up to one place and from there to another is what is read up to that.
LEMMA PiecesJoin ==
    ASSUME NEW T, NEW R \in Seq(T), NEW a \in Nat, NEW b \in Nat, a <= b, b <= Len(R)
    PROVE  SubSeq(R, 1, a) \o SubSeq(R, a + 1, b) = SubSeq(R, 1, b)
<1>1. PICK p, q, r : p = SubSeq(R, 1, a) /\ q = SubSeq(R, a + 1, b) /\ r = SubSeq(R, 1, b)
  OBVIOUS
<1>2. p \in Seq(T) /\ Len(p) = a /\ \A i \in 1..a : p[i] = R[i]
  BY <1>1
<1>3. q \in Seq(T) /\ Len(q) = b - a /\ \A i \in 1..(b - a) : q[i] = R[a + i]
  BY <1>1
<1>4. r \in Seq(T) /\ Len(r) = b /\ \A i \in 1..b : r[i] = R[i]
  BY <1>1
<1>5. PICK w : w = p \o q
  OBVIOUS
<1>6. w \in Seq(T) /\ Len(w) = b /\ \A i \in 1..b : w[i] = IF i <= a THEN p[i] ELSE q[i - a]
  <2>1. /\ w \in Seq(T) /\ Len(w) = Len(p) + Len(q)
        /\ \A i \in 1..Len(p) + Len(q) : w[i] = IF i <= Len(p) THEN p[i] ELSE q[i - Len(p)]
    BY <1>2, <1>3, <1>5, ConcatProperties
  <2> QED
    BY <1>2, <1>3, <2>1
<1>7. ASSUME NEW i \in 1..b PROVE w[i] = r[i]
  <2>1. CASE i <= a
    <3>1. w[i] = p[i] /\ i \in 1..a
      BY <1>6, <2>1
    <3>2. p[i] = R[i] /\ r[i] = R[i]
      BY <1>2, <1>4, <3>1
    <3> QED
      BY <3>1, <3>2
  <2>2. CASE ~(i <= a)
    <3>1. i - a \in 1..(b - a) /\ a + (i - a) = i
      BY <2>2
    <3> QED
      BY <1>3, <1>4, <1>6, <2>2, <3>1
  <2> QED
    BY <2>1, <2>2
<1>8. w = r
  BY <1>4, <1>6, <1>7
<1> QED
  BY <1>1, <1>5, <1>8

\* f reads the pages of a size, one behind the other.
ReadsPages(f, limit, n) ==
    LET size == Paged!AtLeast(1, limit)
    IN  f = [k \in 0..n |-> IF k < 1 THEN <<>> ELSE f[k - 1] \o Paged!Page((k - 1) * size, limit)]

\* Pages read one behind the other are the transcript's beginning.
LEMMA PagesRead ==
    ASSUME PageInv, NEW limit \in Int, NEW size \in Nat, size = Paged!AtLeast(1, limit), size >= 1,
           NEW n \in Nat, NEW f, ReadsPages(f, limit, n), NEW N \in Nat, N = Len(transcript),
           NEW k \in Nat
    PROVE  /\ k * size \in Nat /\ k * size >= k
           /\ k <= n => f[k] = SubSeq(Paged!Rendered(transcript), 1, IF k * size > N THEN N ELSE k * size)
<1>1. PICK R : R = Paged!Rendered(transcript)
  OBVIOUS
<1>2. PICK T : R \in Seq(T) /\ Len(R) = N
  BY <1>1, RenderedLen DEF PageInv
<1> DEFINE Upto(i) == SubSeq(R, 1, IF i * size > N THEN N ELSE i * size)
           S == {i \in Nat : i * size \in Nat /\ i * size >= i /\ (i <= n => f[i] = Upto(i))}
<1>3. 0 \in S
  <2>1. 0 * size = 0
    OBVIOUS
  <2>2. f[0] = <<>>
    BY DEF ReadsPages
  <2>3. SubSeq(R, 1, 0) = <<>>
    BY <1>2
  <2>4. (IF 0 > N THEN N ELSE 0) = 0
    OBVIOUS
  <2>5. Upto(0) = <<>>
    BY <2>1, <2>3, <2>4
  <2> HIDE DEF Upto
  <2> QED
    BY <2>1, <2>2, <2>5
<1>4. ASSUME NEW i \in Nat, i \in S PROVE i + 1 \in S
  <2>1. PICK x : x = i * size
    OBVIOUS
  <2>2. x \in Nat /\ x >= i
    BY <1>4, <2>1
  <2>3. (i + 1) * size = x + size
    BY <2>1
  <2>4. x + size \in Nat /\ x + size >= i + 1
    BY <2>2
  <2>5. ASSUME i + 1 <= n PROVE f[i + 1] = Upto(i + 1)
    <3>1. PICK a, b : a = (IF x > N THEN N ELSE x) /\ b = (IF x + size > N THEN N ELSE x + size)
      OBVIOUS
    <3>2. a \in Nat /\ b \in Nat /\ a <= b /\ b <= N
      BY <2>2, <3>1
    <3>3. f[i] = SubSeq(R, 1, a)
      BY <1>4, <2>1, <2>5, <3>1
    <3>4. i + 1 \in 0..n /\ ~(i + 1 < 1) /\ (i + 1) - 1 = i
      BY <2>5
    <3>5. f[i + 1] = f[i] \o Paged!Page(i * size, limit)
      BY <3>4 DEF ReadsPages
    <3>6. Paged!Page(x, limit) = SubSeq(R, a + 1, b)
      BY <1>1, <2>2, <3>1, PageIs
    <3>7. SubSeq(R, 1, a) \o SubSeq(R, a + 1, b) = SubSeq(R, 1, b)
      BY <1>2, <3>2, PiecesJoin
    <3> QED
      BY <2>1, <2>3, <3>1, <3>3, <3>5, <3>6, <3>7
  <2> QED
    BY <2>3, <2>4, <2>5
<1>5. k \in S
  <2> HIDE DEF S
  <2> QED
    BY <1>3, <1>4, Inductive
<1> QED
  BY <1>1, <1>5

\* There are such readings.
LEMMA PagesAreRead == ASSUME NEW limit, NEW n \in Nat PROVE \E f : ReadsPages(f, limit, n)
<1> DEFINE size == Paged!AtLeast(1, limit)
           P(k) == Paged!Page((k - 1) * size, limit)
           S == {i \in Nat : \E f : ReadsPages(f, limit, i)}
<1> HIDE DEF size, P
<1>1. 0 \in S
  <2>1. PICK f : f = [k \in 0..0 |-> <<>>]
    OBVIOUS
  <2>2. f = [k \in 0..0 |-> IF k < 1 THEN <<>> ELSE f[k - 1] \o P(k)]
    BY <2>1
  <2>3. ReadsPages(f, limit, 0)
    BY <2>2 DEF ReadsPages, size, P
  <2> QED
    BY <2>3
<1>2. ASSUME NEW i \in Nat, i \in S PROVE i + 1 \in S
  <2>1. PICK f : f = [k \in 0..i |-> IF k < 1 THEN <<>> ELSE f[k - 1] \o P(k)]
    BY <1>2 DEF ReadsPages, size, P
  <2>2. PICK last : last = f[i] \o P(i + 1)
    OBVIOUS
  <2>3. PICK g : g = [k \in 0..(i + 1) |-> IF k = i + 1 THEN last ELSE f[k]]
    OBVIOUS
  <2>4. ASSUME NEW k \in 0..(i + 1) PROVE g[k] = IF k < 1 THEN <<>> ELSE g[k - 1] \o P(k)
    <3>1. CASE k = i + 1
      <4>1. g[k] = last /\ ~(k < 1) /\ k - 1 = i /\ g[i] = f[i]
        BY <2>3, <3>1
      <4> QED
        BY <2>2, <3>1, <4>1
    <3>2. CASE k # i + 1
      <4>1. k \in 0..i /\ g[k] = f[k]
        BY <2>3, <3>2
      <4>2. f[k] = IF k < 1 THEN <<>> ELSE f[k - 1] \o P(k)
        BY <2>1, <4>1
      <4>3. ~(k < 1) => g[k - 1] = f[k - 1]
        BY <2>3, <4>1
      <4> QED
        BY <4>1, <4>2, <4>3
    <3> QED
      BY <3>1, <3>2
  <2>5. g = [k \in 0..(i + 1) |-> g[k]]
    BY <2>3
  <2>6. g = [k \in 0..(i + 1) |-> IF k < 1 THEN <<>> ELSE g[k - 1] \o P(k)]
    BY <2>4, <2>5
  <2>7. ReadsPages(g, limit, i + 1)
    BY <2>6 DEF ReadsPages, size, P
  <2> QED
    BY <2>7
<1>3. n \in S
  <2> HIDE DEF S
  <2> QED
    BY <1>1, <1>2, Inductive
<1> QED
  BY <1>3

\* Pages taken one behind the other are the transcript, and the last page is its end.
LEMMA PagesAreAll == PageInv => Paged!PagesTile
<1> SUFFICES ASSUME PageInv PROVE Paged!PagesTile
  OBVIOUS
<1>1. PICK R : R = Paged!Rendered(transcript)
  OBVIOUS
<1>2. PICK T : R \in Seq(T) /\ Len(R) = Len(transcript) /\ Len(transcript) \in Nat
  BY <1>1, RenderedLen DEF PageInv
<1>3. PICK N : N = Len(transcript) /\ N \in Nat
  BY <1>2
<1>4. ASSUME NEW limit \in -1..(N + 1)
      PROVE  /\ (CHOOSE f : ReadsPages(f, limit, N + 1))[N + 1] = R
             /\ Paged!Page(-1, limit) = Paged!ReadSessionTranscript(Paged!AtLeast(1, limit))
  <2>1. PICK size : size = Paged!AtLeast(1, limit)
    OBVIOUS
  <2>2. size = (IF limit <= 0 THEN 1 ELSE limit) /\ size \in Nat /\ size >= 1
    BY <2>1 DEF Paged!AtLeast
  <2>3. PICK f : f = CHOOSE h : ReadsPages(h, limit, N + 1)
    OBVIOUS
  <2>4. ReadsPages(f, limit, N + 1)
    BY <1>3, <2>3, PagesAreRead
  <2>5. PICK n, x : n = N + 1 /\ x = n * size
    OBVIOUS
  <2>6. /\ x \in Nat /\ x >= N + 1
        /\ f[N + 1] = SubSeq(Paged!Rendered(transcript), 1, IF x > N THEN N ELSE x)
    <3>1. n \in Nat /\ limit \in Int /\ n <= n /\ ReadsPages(f, limit, n)
      BY <1>3, <2>4, <2>5
    <3>2. size \in Nat /\ size >= 1 /\ N \in Nat /\ N = Len(transcript)
      BY <1>3, <2>2
    <3>3. /\ n * size \in Nat /\ n * size >= n
          /\ n <= n => f[n] = SubSeq(Paged!Rendered(transcript), 1, IF n * size > N THEN N ELSE n * size)
      BY <2>1, <3>1, <3>2, PagesRead
    <3> QED
      BY <2>5, <3>1, <3>3
  <2>7. (IF x > N THEN N ELSE x) = N
    BY <1>3, <2>6
  <2>8. SubSeq(R, 1, N) = R
    BY <1>2, <1>3
  <2>9. f[N + 1] = R
    BY <1>1, <2>6, <2>7, <2>8
  <2>10. Paged!Page(-1, limit) = Paged!ReadSessionTranscript(size)
    <3>1. PICK a : a = IF size >= N THEN 0 ELSE N - size
      OBVIOUS
    <3>2. a \in Nat /\ a <= N
      BY <1>3, <2>2, <3>1
    <3>3. Paged!AtMost(N, Paged!AtLeast(0, N - size)) = a
      BY <1>3, <2>2, <3>1 DEF Paged!AtMost, Paged!AtLeast
    <3>4. Paged!AtMost(N, a + size) = N
      <4>1. a + size \in Nat /\ a + size >= N
        <5>1. CASE size >= N
          BY <2>2, <3>1, <5>1
        <5>2. CASE ~(size >= N)
          <6>1. a = N - size
            BY <3>1, <5>2
          <6> QED
            BY <1>3, <2>2, <6>1
        <5> QED
          BY <5>1, <5>2
      <4> QED
        BY <1>3, <4>1 DEF Paged!AtMost
    <3>5. Paged!pageBounds(-1, limit, N) = <<a, N>>
      BY <2>2, <3>3, <3>4 DEF Paged!pageBounds
    <3>6. Paged!Page(-1, limit) = Paged!Rendered(SubSeq(transcript, a + 1, N))
      BY <1>3, <3>5 DEF Paged!Page
    <3>7. CASE size >= N
      <4>1. SubSeq(transcript, 1, N) = transcript
        BY <1>3 DEF PageInv
      <4>2. a + 1 = 1
        BY <3>1, <3>7
      <4>3. Paged!ReadSessionTranscript(size) = Paged!Rendered(transcript)
        BY <1>3, <3>7 DEF Paged!ReadSessionTranscript
      <4> QED
        BY <3>6, <4>1, <4>2, <4>3
    <3>8. CASE ~(size >= N)
      <4>1. ~(size <= 0 \/ size >= N) /\ N - size + 1 = a + 1
        BY <2>2, <3>1, <3>8
      <4>2. Paged!ReadSessionTranscript(size) = Paged!Rendered(SubSeq(transcript, N - size + 1, N))
        BY <1>3, <4>1 DEF Paged!ReadSessionTranscript
      <4> QED
        BY <3>6, <4>1, <4>2
    <3> QED
      BY <3>7, <3>8
  <2> QED
    BY <2>1, <2>3, <2>9, <2>10
<1>5. ASSUME NEW from \in -1..(N + 2), NEW limit \in -1..(N + 2)
      PROVE  LET b == Paged!pageBounds(from, limit, N) IN 0 <= b[1] /\ b[1] <= b[2] /\ b[2] <= N
  <2>1. PICK size : size = IF limit <= 0 THEN 1 ELSE limit
    OBVIOUS
  <2>2. size \in Nat /\ size >= 1
    BY <1>3, <2>1
  <2>3. PICK o : o = IF from < 0 THEN N - size ELSE from
    OBVIOUS
  <2>4. PICK a : a = Paged!AtMost(N, Paged!AtLeast(0, o))
    OBVIOUS
  <2>5. PICK b : b = Paged!AtMost(N, a + size)
    OBVIOUS
  <2>6. a \in Nat /\ a <= N
    BY <1>3, <2>2, <2>3, <2>4 DEF Paged!AtMost, Paged!AtLeast
  <2>7. b \in Nat /\ a <= b /\ b <= N
    BY <1>3, <2>2, <2>5, <2>6 DEF Paged!AtMost
  <2>8. Paged!pageBounds(from, limit, N) = <<a, b>>
    BY <2>1, <2>3, <2>4, <2>5 DEF Paged!pageBounds
  <2> QED
    BY <2>6, <2>7, <2>8
<1> QED
  BY <1>1, <1>3, <1>4, <1>5 DEF Paged!PagesTile, ReadsPages

-----------------------------------------------------------------------------
(* The hits of a query (foldFindAll).                                      *)

\* The places of a set that are l apart.
Apart(S, l) == \A i, j \in S : i < j => i + l <= j

\* What has been found below place i: the first hit, how many lie side by side, and where
\* they end; no others below i are more, and as many end no sooner.
Placed(H, l, i, s) ==
    /\ s.first \in Int /\ s.count \in Nat /\ s.next \in Nat /\ s.next < i + l
    /\ s.first < 0 => s.next = 0 /\ s.count = 0 /\ \A k \in H : k >= i
    /\ s.first >= 0 => s.count >= 1 /\ s.first \in H /\ \A k \in H : k >= s.first
    /\ \E S \in SUBSET H : Apart(S, l) /\ Cardinality(S) = s.count /\ \A k \in S : k + l <= s.next /\ k < i
    /\ \A S \in SUBSET H : Apart(S, l) /\ (\A k \in S : k < i) =>
         Cardinality(S) <= s.count /\ (Cardinality(S) = s.count /\ S # {} => \E k \in S : k + l >= s.next)

\* The next place keeps it so.
LEMMA PlacedOn ==
    ASSUME NEW H, IsFiniteSet(H), H \subseteq Nat, NEW l \in Nat \ {0}, NEW i \in Nat,
           NEW s, Placed(H, l, i, s), NEW t,
           t = IF i >= s.next /\ i \in H
               THEN [first |-> IF s.first < 0 THEN i ELSE s.first, count |-> s.count + 1, next |-> i + l] ELSE s
    PROVE  Placed(H, l, i + 1, t)
<1>1. PICK a, c, x : a = s.first /\ c = s.count /\ x = s.next
  OBVIOUS
<1>2. /\ a \in Int /\ c \in Nat /\ x \in Nat /\ x < i + l
      /\ a < 0 => x = 0 /\ c = 0 /\ \A k \in H : k >= i
      /\ a >= 0 => c >= 1 /\ a \in H /\ \A k \in H : k >= a
  BY <1>1 DEF Placed
<1>3. PICK A \in SUBSET H : Apart(A, l) /\ Cardinality(A) = c /\ \A k \in A : k + l <= x /\ k < i
  BY <1>1 DEF Placed
<1>4. ASSUME NEW S \in SUBSET H, Apart(S, l), \A k \in S : k < i
      PROVE  Cardinality(S) <= c /\ (Cardinality(S) = c /\ S # {} => \E k \in S : k + l >= x)
  BY <1>1, <1>4 DEF Placed
<1>5. \A S \in SUBSET H : IsFiniteSet(S) /\ Cardinality(S) \in Nat /\ S \subseteq Nat
  BY FS_Subset, FS_CardinalityType
<1>6. ASSUME NEW S \in SUBSET H, Apart(S, l), \A k \in S : k < i + 1, i \in S
      PROVE  /\ Cardinality(S \ {i}) \in Nat /\ Cardinality(S) = Cardinality(S \ {i}) + 1
             /\ Cardinality(S \ {i}) <= c /\ (Cardinality(S \ {i}) = c => x <= i)
  <2>1. PICK T : T = S \ {i}
    OBVIOUS
  <2>2. T \in SUBSET H /\ (\A k \in T : k < i) /\ (\A k \in T : k + l <= i)
    BY <1>5, <1>6, <2>1 DEF Apart
  <2>3. Apart(T, l)
    BY <1>6, <2>1 DEF Apart
  <2>4. Cardinality(S) = Cardinality(T) + 1 /\ Cardinality(T) \in Nat
    <3>1. Cardinality(T) = Cardinality(S) - 1
      BY <1>5, <1>6, <2>1, FS_RemoveElement
    <3> QED
      BY <1>5, <2>2, <3>1
  <2>5. Cardinality(T) <= c /\ (Cardinality(T) = c /\ T # {} => \E k \in T : k + l >= x)
    BY <1>4, <2>2, <2>3
  <2>6. ASSUME Cardinality(T) = c PROVE x <= i
    <3>1. CASE T = {}
      <4>1. c = 0
        BY <2>6, <3>1, FS_EmptySet
      <4> QED
        BY <1>2, <4>1
    <3>2. CASE T # {}
      <4>1. PICK k \in T : k + l >= x
        BY <2>5, <2>6, <3>2
      <4>2. k + l <= i /\ k \in Nat
        BY <1>5, <2>2
      <4> QED
        BY <1>2, <4>1, <4>2
    <3> QED
      BY <3>1, <3>2
  <2> QED
    BY <2>1, <2>4, <2>5, <2>6
<1>7. CASE i >= x /\ i \in H
  <2>1. t.first = (IF a < 0 THEN i ELSE a) /\ t.count = c + 1 /\ t.next = i + l
    BY <1>1, <1>7
  <2>2. /\ t.first \in Int /\ t.count \in Nat /\ t.next \in Nat /\ t.next < (i + 1) + l
        /\ t.first < 0 => t.next = 0 /\ t.count = 0 /\ \A k \in H : k >= i + 1
        /\ t.first >= 0 => t.count >= 1 /\ t.first \in H /\ \A k \in H : k >= t.first
    BY <1>2, <1>7, <2>1
  <2>3. \E S \in SUBSET H : Apart(S, l) /\ Cardinality(S) = t.count /\ \A k \in S : k + l <= t.next /\ k < i + 1
    <3>1. PICK B : B = A \cup {i}
      OBVIOUS
    <3>2. B \in SUBSET H /\ i \notin A /\ A \subseteq Nat
      BY <1>3, <1>5, <1>7, <3>1
    <3>3. Cardinality(B) = c + 1
      BY <1>3, <1>5, <3>1, <3>2, FS_AddElement
    <3>4. \A k \in B : k + l <= i + l /\ k < i + 1
      BY <1>2, <1>3, <1>7, <3>1, <3>2
    <3>5. Apart(B, l)
      <4> SUFFICES ASSUME NEW k \in B, NEW m \in B, k < m PROVE k + l <= m
        BY DEF Apart
      <4>1. CASE m = i
        <5>1. k \in A /\ k \in Nat
          BY <3>1, <3>2, <4>1
        <5>2. k + l <= x
          BY <1>3, <5>1
        <5> QED
          BY <1>2, <1>7, <4>1, <5>1, <5>2
      <4>2. CASE m # i
        <5>1. m \in A /\ m < i /\ m \in Nat
          BY <1>3, <3>1, <3>2, <4>2
        <5>2. k \in A
          BY <3>1, <5>1
        <5> QED
          BY <1>3, <5>1, <5>2 DEF Apart
      <4> QED
        BY <4>1, <4>2
    <3> QED
      BY <2>1, <3>2, <3>3, <3>4, <3>5
  <2>4. ASSUME NEW S \in SUBSET H, Apart(S, l), \A k \in S : k < i + 1
        PROVE  Cardinality(S) <= t.count /\ (Cardinality(S) = t.count /\ S # {} => \E k \in S : k + l >= t.next)
    <3>1. CASE i \in S
      <4>1. Cardinality(S) <= c + 1
        <5>1. PICK d : d = Cardinality(S \ {i})
          OBVIOUS
        <5>2. d \in Nat /\ Cardinality(S) = d + 1 /\ d <= c
          BY <1>6, <2>4, <3>1, <5>1
        <5> QED
          BY <1>2, <5>2
      <4> QED
        BY <2>1, <3>1, <4>1
    <3>2. CASE i \notin S
      <4>1. \A k \in S : k < i
        BY <1>5, <2>4, <3>2
      <4>2. Cardinality(S) <= c
        BY <1>4, <2>4, <4>1
      <4> QED
        BY <1>2, <1>5, <2>1, <4>2
    <3> QED
      BY <3>1, <3>2
  <2> QED
    BY <2>2, <2>3, <2>4 DEF Placed
<1>8. CASE ~(i >= x /\ i \in H)
  <2>1. t = s /\ t.first = a /\ t.count = c /\ t.next = x
    BY <1>1, <1>8
  <2>2. /\ t.first \in Int /\ t.count \in Nat /\ t.next \in Nat /\ t.next < (i + 1) + l
        /\ t.first >= 0 => t.count >= 1 /\ t.first \in H /\ \A k \in H : k >= t.first
    BY <1>2, <2>1
  <2>3. t.first < 0 => t.next = 0 /\ t.count = 0 /\ \A k \in H : k >= i + 1
    BY <1>2, <1>8, <2>1
  <2>4. \E S \in SUBSET H : Apart(S, l) /\ Cardinality(S) = t.count /\ \A k \in S : k + l <= t.next /\ k < i + 1
    <3>1. \A k \in A : k + l <= x /\ k < i + 1
      BY <1>3, <1>5
    <3> QED
      BY <1>3, <2>1, <3>1
  <2>5. ASSUME NEW S \in SUBSET H, Apart(S, l), \A k \in S : k < i + 1
        PROVE  Cardinality(S) <= c /\ (Cardinality(S) = c /\ S # {} => \E k \in S : k + l >= x)
    <3>1. CASE i \in S
      <4>1. ~(x <= i)
        BY <1>2, <1>8, <3>1
      <4>2. Cardinality(S) <= c
        <5>1. PICK d : d = Cardinality(S \ {i})
          OBVIOUS
        <5>2. d \in Nat /\ Cardinality(S) = d + 1 /\ d <= c /\ (d = c => x <= i)
          BY <1>6, <2>5, <3>1, <5>1
        <5> QED
          BY <1>2, <4>1, <5>2
      <4>3. i + l >= x
        BY <1>2
      <4> QED
        BY <3>1, <4>2, <4>3
    <3>2. CASE i \notin S
      <4>1. \A k \in S : k < i
        BY <1>5, <2>5, <3>2
      <4> QED
        BY <1>4, <2>5, <4>1
    <3> QED
      BY <3>1, <3>2
  <2> QED
    BY <2>1, <2>2, <2>3, <2>4, <2>5 DEF Placed
<1> QED
  BY <1>1, <1>7, <1>8

\* Nothing is found before the first place.
LEMMA PlacedFirst ==
    ASSUME NEW H, H \subseteq Nat, NEW l \in Nat \ {0}
    PROVE  Placed(H, l, 0, Paged!NoHit)
<1>1. PICK s : s = Paged!NoHit
  OBVIOUS
<1>2. s.first = -1 /\ s.count = 0 /\ s.next = 0
  BY <1>1 DEF Paged!NoHit
<1>3. \E S \in SUBSET H : Apart(S, l) /\ Cardinality(S) = s.count /\ \A k \in S : k + l <= s.next /\ k < 0
  <2>1. Cardinality({}) = 0
    BY FS_EmptySet
  <2>2. {} \in SUBSET H /\ Apart({}, l)
    BY DEF Apart
  <2> QED
    BY <1>2, <2>1, <2>2
<1>4. ASSUME NEW S \in SUBSET H, \A k \in S : k < 0
      PROVE  Cardinality(S) = 0 /\ S = {}
  <2>1. S = {}
    BY <1>4
  <2> QED
    BY <2>1, FS_EmptySet
<1>5. /\ s.first \in Int /\ s.count \in Nat /\ s.next \in Nat /\ s.next < 0 + l
      /\ s.first < 0 => s.next = 0 /\ s.count = 0 /\ \A k \in H : k >= 0
      /\ ~(s.first >= 0)
  BY <1>2
<1>6. ASSUME NEW S \in SUBSET H, \A k \in S : k < 0
      PROVE  Cardinality(S) <= s.count /\ (Cardinality(S) = s.count /\ S # {} => \E k \in S : k + l >= s.next)
  <2>1. Cardinality(S) = 0 /\ S = {}
    BY <1>4, <1>6
  <2> QED
    BY <1>2, <2>1
<1> QED
  BY <1>1, <1>3, <1>5, <1>6 DEF Placed

\* f looks at the places of a text one behind the other.
Looks(f, hay, needle, n) ==
    f = [i \in 0..n |-> IF i < 1 THEN Paged!NoHit ELSE Paged!Look(hay, needle, f[i - 1], i - 1)]

HitRecord == [first : Int, count : Nat, next : Nat]

\* There are such looks.
LEMMA LooksAre ==
    ASSUME NEW hay, NEW needle, NEW n \in Nat, NEW l \in Nat \ {0}, l = Len(needle)
    PROVE  \E f : Looks(f, hay, needle, n)
<1>1. PICK next : next = [p \in Nat |-> [s \in HitRecord |-> Paged!Look(hay, needle, s, p - 1)]]
  OBVIOUS
<1>2. ASSUME NEW p \in Nat, NEW s \in HitRecord PROVE Paged!Look(hay, needle, s, p - 1) \in HitRecord
  <2>1. PICK x, c, y : x = (IF s.first < 0 THEN p - 1 ELSE s.first) /\ c = s.count + 1 /\ y = (p - 1) + l
    OBVIOUS
  <2>2. x \in Int /\ c \in Nat /\ y \in Nat
    BY <2>1 DEF HitRecord
  <2>3. [first |-> x, count |-> c, next |-> y] \in HitRecord
    BY <2>2 DEF HitRecord
  <2> QED
    BY <2>1, <2>3 DEF Paged!Look
<1>3. next \in [Nat -> [HitRecord -> HitRecord]]
  BY <1>1, <1>2
<1>4. Paged!NoHit \in HitRecord
  BY DEF HitRecord, Paged!NoHit
<1> HIDE DEF HitRecord
<1>5. PICK f : Made(f, HitRecord, Paged!NoHit, next, 1, n)
  <2>1. 1 \in Nat \ {0}
    OBVIOUS
  <2> QED
    BY <1>3, <1>4, <2>1, Recursion
<1>6. f \in [0..n -> HitRecord] /\ \A i \in 0..n : f[i] = IF i < 1 THEN Paged!NoHit ELSE next[i][f[i - 1]]
  BY <1>5 DEF Made
<1>7. ASSUME NEW i \in 0..n
      PROVE  f[i] = IF i < 1 THEN Paged!NoHit ELSE Paged!Look(hay, needle, f[i - 1], i - 1)
  <2>1. CASE i < 1
    BY <1>6, <2>1
  <2>2. CASE ~(i < 1)
    <3>1. i - 1 \in 0..n /\ i \in Nat
      BY <2>2
    <3>2. f[i - 1] \in HitRecord
      BY <1>6, <3>1
    <3> QED
      BY <1>1, <1>6, <2>2, <3>1, <3>2
  <2> QED
    BY <2>1, <2>2
<1>8. f = [i \in 0..n |-> f[i]]
  BY <1>6
<1>9. f = [i \in 0..n |-> IF i < 1 THEN Paged!NoHit ELSE Paged!Look(hay, needle, f[i - 1], i - 1)]
  BY <1>7, <1>8
<1> QED
  BY <1>9 DEF Looks

\* Where a query stands in a text.
Hits(hay, needle) == {k \in 0..(Len(hay) - Len(needle)) : Paged!EqualAt(hay, needle, k)}

\* foldFindAll finds the first of them and how many lie side by side.
LEMMA FoundAll ==
    ASSUME NEW hay, NEW needle, needle # <<>>, NEW n \in Nat, n = Len(hay), NEW l \in Nat \ {0}, l = Len(needle)
    PROVE  \E s : Placed(Hits(hay, needle), l, n, s) /\ Paged!foldFindAll(hay, needle) = <<s.first, s.count>>
<1>1. PICK H : H = Hits(hay, needle)
  OBVIOUS
<1>2. H \subseteq 0..(n - l) /\ H \subseteq Nat
  BY <1>1 DEF Hits
<1>3. IsFiniteSet(H)
  <2>1. IsFiniteSet(0..(n - l))
    BY FS_Interval
  <2> QED
    BY <1>2, <2>1, FS_Subset
<1>4. PICK f : f = CHOOSE h : Looks(h, hay, needle, n)
  OBVIOUS
<1>5. Looks(f, hay, needle, n)
  BY <1>4, LooksAre
<1> DEFINE S == {i \in Nat : i <= n => Placed(H, l, i, f[i])}
<1>6. 0 \in S
  <2>1. f[0] = Paged!NoHit
    BY <1>5 DEF Looks
  <2> QED
    BY <1>2, <2>1, PlacedFirst
<1>7. ASSUME NEW i \in Nat, i \in S PROVE i + 1 \in S
  <2> SUFFICES ASSUME i + 1 <= n PROVE Placed(H, l, i + 1, f[i + 1])
    OBVIOUS
  <2>1. PICK s, t : s = f[i] /\ t = f[i + 1]
    OBVIOUS
  <2>2. Placed(H, l, i, s)
    BY <1>7, <2>1
  <2>3. t = Paged!Look(hay, needle, s, i)
    <3>1. i + 1 \in 0..n /\ ~(i + 1 < 1) /\ (i + 1) - 1 = i
      OBVIOUS
    <3> QED
      BY <1>5, <2>1, <3>1 DEF Looks
  <2>4. (i >= s.next /\ i + Len(needle) <= Len(hay) /\ Paged!EqualAt(hay, needle, i)) <=> (i >= s.next /\ i \in H)
    BY <1>1 DEF Hits
  <2>5. t = IF i >= s.next /\ i \in H
            THEN [first |-> IF s.first < 0 THEN i ELSE s.first, count |-> s.count + 1, next |-> i + l] ELSE s
    BY <2>3, <2>4 DEF Paged!Look
  <2> QED
    BY <1>2, <1>3, <2>1, <2>2, <2>5, PlacedOn
<1>8. n \in S
  <2> HIDE DEF S
  <2> QED
    BY <1>6, <1>7, Inductive
<1>9. Paged!foldFindAll(hay, needle) = <<f[n].first, f[n].count>>
  BY <1>4 DEF Paged!foldFindAll, Looks
<1> QED
  BY <1>1, <1>8, <1>9

\* A query stands where the text has its letters.
LEMMA EqualIs ==
    ASSUME NEW T, NEW hay \in Seq(T), NEW needle \in Seq(T), NEW l \in Nat, l = Len(needle),
           NEW k \in Nat, k + l <= Len(hay)
    PROVE  Paged!EqualAt(hay, needle, k) <=> \A m \in 1..l : hay[k + m] = needle[m]
<1>1. PICK p : p = SubSeq(hay, k + 1, k + l)
  OBVIOUS
<1>2. p \in Seq(T) /\ Len(p) = l /\ \A m \in 1..l : p[m] = hay[k + m]
  <2>1. \A i \in (k + 1)..(k + l) : hay[i] \in T
    OBVIOUS
  <2>2. /\ p \in Seq(T) /\ Len(p) = (IF k + 1 <= k + l THEN (k + l) - (k + 1) + 1 ELSE 0)
        /\ \A i \in 1..((k + l) - (k + 1) + 1) : p[i] = hay[(k + 1) + i - 1]
    BY <1>1, <2>1, SubSeqProperties
  <2>3. ASSUME NEW m \in 1..l PROVE p[m] = hay[k + m]
    <3>1. m \in 1..((k + l) - (k + 1) + 1) /\ (k + 1) + m - 1 = k + m
      OBVIOUS
    <3> QED
      BY <2>2, <3>1
  <2>4. Len(p) = l
    BY <2>2
  <2> QED
    BY <2>2, <2>3, <2>4
<1>3. p = needle <=> \A m \in 1..l : p[m] = needle[m]
  <2>1. ASSUME \A m \in 1..l : p[m] = needle[m] PROVE p = needle
    <3>1. needle \in Seq(T) /\ Len(needle) = Len(p) /\ \A m \in 1..Len(p) : p[m] = needle[m]
      BY <1>2, <2>1
    <3> QED
      BY <1>2, <3>1, SeqEqual
  <2> QED
    BY <2>1
<1> QED
  BY <1>1, <1>2, <1>3 DEF Paged!EqualAt

\* Where it stands, the text has its letters.
LEMMA EqualHas ==
    ASSUME NEW T, NEW hay \in Seq(T), NEW needle \in Seq(T),
           NEW k \in Nat, k + Len(needle) <= Len(hay), Paged!EqualAt(hay, needle, k), NEW m \in 1..Len(needle)
    PROVE  hay[k + m] = needle[m]
<1>1. PICK p : p = SubSeq(hay, k + 1, k + Len(needle))
  OBVIOUS
<1>2. p[m] = hay[k + m]
  BY <1>1
<1>3. p = needle
  BY <1>1 DEF Paged!EqualAt
<1> QED
  BY <1>2, <1>3

\* The snippet round a hit shows it, and little more.
LEMMA SnippetShows ==
    ASSUME NEW T, Paged!Cut \in T, NEW hay \in Seq(T), NEW needle \in Seq(T),
           NEW l \in Nat \ {0}, l = Len(needle), NEW k \in Hits(hay, needle), NEW s,
           s = Paged!snippetAround(hay, k, l, 1)
    PROVE  (\E m \in 0..Len(s) : Paged!EqualAt(s, needle, m)) /\ Len(s) <= l + 4
<1>1. PICK n : n = Len(hay) /\ n \in Nat
  OBVIOUS
<1>2. k \in Nat /\ k + l <= n /\ Paged!EqualAt(hay, needle, k)
  BY <1>1 DEF Hits
<1>3. PICK lo : lo = Paged!AtLeast(0, k - Paged!AtLeast(0, 1))
  OBVIOUS
<1>4. PICK hi : hi = Paged!AtMost(n, k + l + Paged!AtLeast(0, 1))
  OBVIOUS
<1>5. lo \in Nat /\ lo <= k /\ k <= lo + 1
  BY <1>2, <1>3 DEF Paged!AtLeast
<1>6. hi \in Nat /\ k + l <= hi /\ hi <= n /\ hi <= k + l + 1
  BY <1>1, <1>2, <1>4 DEF Paged!AtLeast, Paged!AtMost
<1>7. PICK pre, post : /\ pre = (IF lo > 0 THEN <<Paged!Cut>> ELSE <<>>)
                       /\ post = (IF hi < Len(hay) THEN <<Paged!Cut>> ELSE <<>>)
  OBVIOUS
<1>8. pre \in Seq(T) /\ post \in Seq(T) /\ Len(pre) \in 0..1 /\ Len(post) \in 0..1
  BY <1>7
<1>9. PICK mid : mid = SubSeq(hay, lo + 1, hi)
  OBVIOUS
<1>10. mid \in Seq(T) /\ Len(mid) = hi - lo /\ \A i \in 1..(hi - lo) : mid[i] = hay[lo + i]
  BY <1>1, <1>2, <1>5, <1>6, <1>9
<1>11. s = pre \o mid \o post
  BY <1>1, <1>3, <1>4, <1>7, <1>9 DEF Paged!snippetAround
<1>12. PICK u : u = pre \o mid
  OBVIOUS
<1>13. PICK c : c = Len(pre) /\ c \in 0..1
  BY <1>8
<1>14. /\ u \in Seq(T) /\ Len(u) = Len(pre) + Len(mid)
       /\ \A i \in 1..Len(pre) + Len(mid) : u[i] = IF i <= Len(pre) THEN pre[i] ELSE mid[i - Len(pre)]
  BY <1>8, <1>10, <1>12, ConcatProperties
<1>15. /\ s \in Seq(T) /\ Len(s) = Len(u) + Len(post)
       /\ \A i \in 1..Len(u) + Len(post) : s[i] = IF i <= Len(u) THEN u[i] ELSE post[i - Len(u)]
  <2>1. s = u \o post
    BY <1>11, <1>12
  <2> QED
    <3>1. /\ u \o post \in Seq(T) /\ Len(u \o post) = Len(u) + Len(post)
          /\ \A i \in 1..Len(u) + Len(post) : (u \o post)[i] = IF i <= Len(u) THEN u[i] ELSE post[i - Len(u)]
      BY <1>8, <1>14, ConcatProperties
    <3> QED
      BY <2>1, <3>1
<1>16. PICK m : m = c + (k - lo)
  OBVIOUS
<1>17. PICK g, e : g = Len(u) /\ e = Len(post)
  OBVIOUS
<1>18. g = c + (hi - lo) /\ e \in 0..1 /\ g \in Nat /\ Len(s) = g + e
  <2>1. g = c + (hi - lo) /\ e \in 0..1
    BY <1>8, <1>10, <1>13, <1>14, <1>17
  <2>2. Len(s) = g + e
    BY <1>15, <1>17
  <2> QED
    BY <1>2, <1>5, <1>6, <1>13, <2>1, <2>2
<1>19. m \in Nat /\ m + l <= g /\ m + l <= g + e
  <2>1. /\ c \in Nat /\ k \in Nat /\ lo \in Nat /\ hi \in Nat
        /\ lo <= k /\ k + l <= hi
    BY <1>2, <1>5, <1>6, <1>13
  <2>2. e \in Nat /\ g = c + (hi - lo)
    BY <1>18
  <2>3. m \in Nat /\ m + l <= g
    BY <1>16, <2>1, <2>2
  <2> QED
    BY <1>18, <2>2, <2>3
<1>20. ASSUME NEW j \in 1..l PROVE s[m + j] = needle[j]
  <2>1. m + j \in 1..g /\ m + j \in 1..(g + e) /\ m + j > c
    BY <1>2, <1>5, <1>13, <1>16, <1>18, <1>19
  <2>2. s[m + j] = u[m + j]
    BY <1>15, <1>17, <2>1
  <2>3. (m + j) - c = (k - lo) + j /\ (k - lo) + j \in 1..(hi - lo)
    BY <1>2, <1>5, <1>6, <1>13, <1>16
  <2>4. u[m + j] = mid[(k - lo) + j]
    <3>1. ~(m + j <= Len(pre)) /\ (m + j) - Len(pre) = (k - lo) + j /\ m + j \in 1..Len(pre) + Len(mid)
      BY <1>13, <1>14, <1>17, <2>1, <2>3
    <3> QED
      BY <1>14, <3>1
  <2>5. mid[(k - lo) + j] = hay[lo + ((k - lo) + j)] /\ lo + ((k - lo) + j) = k + j
    BY <1>2, <1>5, <1>10, <2>3
  <2>6. hay[k + j] = needle[j]
    <3>1. k + Len(needle) <= Len(hay) /\ j \in 1..Len(needle)
      BY <1>1, <1>2
    <3> QED
      BY <1>2, <3>1, EqualHas
  <2> QED
    BY <2>2, <2>4, <2>5, <2>6
<1>21. Paged!EqualAt(s, needle, m)
  BY <1>15, <1>18, <1>19, <1>20, EqualIs
<1>22. m \in 0..Len(s)
  BY <1>18, <1>19
<1>23. Len(s) <= l + 4
  <2>1. hi - lo <= l + 2 /\ hi - lo \in Nat
    BY <1>2, <1>5, <1>6
  <2>2. g + e <= 1 + (l + 2) + 1
    <3>1. PICK d : d = hi - lo
      OBVIOUS
    <3>2. d \in Nat /\ d <= l + 2
      BY <2>1, <3>1
    <3>3. g = c + d
      BY <1>18, <3>1
    <3>4. c <= 1 /\ c \in Nat
      BY <1>13
    <3>5. e <= 1 /\ e \in Nat
      BY <1>18
    <3> QED
      BY <3>2, <3>3, <3>4, <3>5
  <2> QED
    BY <1>18, <2>2
<1> QED
  BY <1>21, <1>22, <1>23

-----------------------------------------------------------------------------
(* The text of a turn (flattenTurnText).                                   *)

\* Letters, and what stands between the texts of a turn or for the rest of one.
Glyph == Letters \cup {Paged!Newline, Paged!Cut}

\* No letter is the newline, a tool or the ellipsis.
LEMMA NoLetter ==
    "tool" \notin Letters /\ Paged!Newline \notin Letters /\ Paged!Cut \notin Letters
BY LogsAssumption DEF Paged!Newline, Paged!Cut

\* A query stands in two texts with a newline between them when it does in one.
LEMMA JoinedHits ==
    ASSUME NEW s \in Seq(Glyph), NEW p \in Seq(Glyph), NEW q \in Seq(Letters), q # <<>>, NEW r,
           r = s \o <<Paged!Newline>> \o p
    PROVE  r \in Seq(Glyph) /\ (Hits(r, q) # {} <=> Hits(s, q) # {} \/ Hits(p, q) # {})
<1>1. PICK nl, u : nl = Paged!Newline /\ u = s \o <<nl>>
  OBVIOUS
<1>2. PICK a, b, l : a = Len(s) /\ b = Len(p) /\ l = Len(q)
  OBVIOUS
<1>3. a \in Nat /\ b \in Nat /\ l \in Nat \ {0} /\ nl \in Glyph /\ nl \notin Letters
  BY <1>1, <1>2, NoLetter DEF Glyph
<1>4. q \in Seq(Glyph)
  BY DEF Glyph
<1> HIDE DEF Glyph
<1>5. u \in Seq(Glyph) /\ Len(u) = a + 1 /\ u[a + 1] = nl /\ \A i \in 1..a : u[i] = s[i]
  <2>1. <<nl>> \in Seq(Glyph) /\ Len(<<nl>>) = 1 /\ <<nl>>[1] = nl
    BY <1>3
  <2>2. /\ u \in Seq(Glyph) /\ Len(u) = Len(s) + Len(<<nl>>)
        /\ \A i \in 1..Len(s) + Len(<<nl>>) : u[i] = IF i <= Len(s) THEN s[i] ELSE <<nl>>[i - Len(s)]
    BY <1>1, <2>1, ConcatProperties
  <2>3. a + 1 \in 1..Len(s) + Len(<<nl>>) /\ ~(a + 1 <= Len(s)) /\ (a + 1) - Len(s) = 1
    BY <1>2, <1>3, <2>1
  <2>4. u[a + 1] = nl
    BY <2>1, <2>2, <2>3
  <2>5. \A i \in 1..a : u[i] = s[i]
    BY <1>2, <1>3, <2>1, <2>2
  <2> QED
    BY <1>2, <2>1, <2>2, <2>4, <2>5
<1>6. /\ r \in Seq(Glyph) /\ Len(r) = a + 1 + b
      /\ \A i \in 1..a : r[i] = s[i]
      /\ r[a + 1] = nl
      /\ \A i \in 1..b : r[a + 1 + i] = p[i]
  <2>1. /\ r \in Seq(Glyph) /\ Len(r) = Len(u) + Len(p)
        /\ \A i \in 1..Len(u) + Len(p) : r[i] = IF i <= Len(u) THEN u[i] ELSE p[i - Len(u)]
    BY <1>1, <1>5, ConcatProperties
  <2>2. Len(r) = a + 1 + b /\ \A i \in 1..(a + 1 + b) : r[i] = IF i <= a + 1 THEN u[i] ELSE p[i - (a + 1)]
    BY <1>2, <1>5, <2>1
  <2>3. \A i \in 1..a : r[i] = s[i]
    BY <1>3, <1>5, <2>2
  <2>4. r[a + 1] = nl
    BY <1>3, <1>5, <2>2
  <2>5. ASSUME NEW i \in 1..b PROVE r[a + 1 + i] = p[i]
    <3>1. a + 1 + i \in 1..(a + 1 + b) /\ ~(a + 1 + i <= a + 1) /\ (a + 1 + i) - (a + 1) = i
      BY <1>3
    <3> QED
      BY <2>2, <3>1
  <2> QED
    BY <2>1, <2>2, <2>3, <2>4, <2>5
<1>7. ASSUME NEW k \in Hits(s, q) PROVE k \in Hits(r, q)
  <2>1. k \in Nat /\ k + l <= a /\ k + l <= Len(r) /\ k \in 0..(Len(r) - l)
    BY <1>2, <1>3, <1>6 DEF Hits
  <2>2. ASSUME NEW m \in 1..l PROVE s[k + m] = q[m]
    <3>1. Paged!EqualAt(s, q, k)
      BY DEF Hits
    <3>2. s \in Seq(Glyph) /\ k + Len(q) <= Len(s) /\ k \in Nat /\ m \in 1..Len(q)
      BY <1>2, <1>3, <1>4, <2>1
    <3> QED
      BY <1>4, <3>1, <3>2, EqualHas
  <2>3. \A m \in 1..l : r[k + m] = q[m]
    BY <1>3, <1>6, <2>1, <2>2
  <2>4. Paged!EqualAt(r, q, k)
    BY <1>2, <1>3, <1>4, <1>6, <2>1, <2>3, EqualIs
  <2> QED
    BY <1>2, <2>1, <2>4 DEF Hits
<1>8. ASSUME NEW k \in Hits(p, q) PROVE a + 1 + k \in Hits(r, q)
  <2>1. k \in Nat /\ k + l <= b /\ a + 1 + k \in Nat /\ a + 1 + k + l <= Len(r) /\ a + 1 + k \in 0..(Len(r) - l)
    BY <1>2, <1>3, <1>6 DEF Hits
  <2>2. ASSUME NEW m \in 1..l PROVE p[k + m] = q[m]
    <3>1. Paged!EqualAt(p, q, k)
      BY DEF Hits
    <3>2. p \in Seq(Glyph) /\ k + Len(q) <= Len(p) /\ k \in Nat /\ m \in 1..Len(q)
      BY <1>2, <1>3, <1>4, <2>1
    <3> QED
      BY <1>4, <3>1, <3>2, EqualHas
  <2>3. ASSUME NEW m \in 1..l PROVE r[(a + 1 + k) + m] = q[m]
    <3>1. k + m \in 1..b /\ (a + 1 + k) + m = a + 1 + (k + m)
      BY <1>3, <2>1
    <3> QED
      BY <1>6, <2>2, <3>1
  <2>4. Paged!EqualAt(r, q, a + 1 + k)
    BY <1>2, <1>3, <1>4, <1>6, <2>1, <2>3, EqualIs
  <2> QED
    BY <1>2, <2>1, <2>4 DEF Hits
<1>9. ASSUME NEW k \in Hits(r, q) PROVE Hits(s, q) # {} \/ Hits(p, q) # {}
  <2>1. k \in Nat /\ k + l <= a + 1 + b
    BY <1>2, <1>3, <1>6 DEF Hits
  <2>2. ASSUME NEW m \in 1..l PROVE r[k + m] = q[m]
    <3>1. PICK w : w = r
      OBVIOUS
    <3>2. Paged!EqualAt(w, q, k)
      BY <3>1 DEF Hits
    <3>3. w \in Seq(Glyph) /\ k + Len(q) <= Len(w) /\ k \in Nat /\ m \in 1..Len(q)
      BY <1>2, <1>3, <1>6, <2>1, <3>1
    <3>4. w[k + m] = q[m]
      BY <1>4, <3>2, <3>3, EqualHas
    <3> QED
      BY <3>1, <3>4
  <2>3. CASE k + l <= a
    <3>1. \A m \in 1..l : s[k + m] = q[m]
      BY <1>3, <1>6, <2>1, <2>2, <2>3
    <3>2. Paged!EqualAt(s, q, k)
      BY <1>2, <1>3, <1>4, <2>1, <2>3, <3>1, EqualIs
    <3>3. k \in 0..(a - l)
      BY <1>3, <2>1, <2>3
    <3> QED
      BY <1>2, <3>2, <3>3 DEF Hits
  <2>4. CASE k >= a + 1
    <3>1. PICK j : j = k - (a + 1)
      OBVIOUS
    <3>2. j \in Nat /\ j + l <= b /\ j \in 0..(b - l) /\ k = a + 1 + j
      BY <1>3, <2>1, <2>4, <3>1
    <3>3. ASSUME NEW m \in 1..l PROVE p[j + m] = q[m]
      <4>1. j + m \in 1..b /\ a + 1 + (j + m) = k + m
        BY <1>3, <3>2
      <4> QED
        BY <1>6, <2>2, <4>1
    <3>4. Paged!EqualAt(p, q, j)
      BY <1>2, <1>3, <1>4, <3>2, <3>3, EqualIs
    <3> QED
      BY <1>2, <3>2, <3>4 DEF Hits
  <2>5. CASE ~(k + l <= a) /\ ~(k >= a + 1)
    <3>1. PICK m : m = a + 1 - k
      OBVIOUS
    <3>2. m \in 1..l /\ k + m = a + 1
      BY <1>3, <2>1, <2>5, <3>1
    <3>3. q[m] \in Letters
      BY <1>2, <3>2, ElementOfSeq
    <3>4. q[m] = nl
      BY <1>6, <2>2, <3>2
    <3> QED
      BY <1>3, <3>3, <3>4
  <2> QED
    BY <2>3, <2>4, <2>5
<1> QED
  BY <1>6, <1>7, <1>8, <1>9

\* A query stands in no empty text and in no tool's name.
LEMMA NoHits ==
    ASSUME NEW q \in Seq(Letters), q # <<>>
    PROVE  Hits(<<>>, q) = {} /\ Hits(Paged!Tool, q) = {}
<1>1. PICK l : l = Len(q)
  OBVIOUS
<1>2. l \in Nat \ {0}
  BY <1>1
<1>3. Len(<<>>) = 0 /\ 0..(0 - l) = {}
  BY <1>2
<1>4. Hits(<<>>, q) = {}
  BY <1>1, <1>3 DEF Hits
<1>5. PICK w, T : w = Paged!Tool /\ T = Letters \cup {"tool"}
  OBVIOUS
<1>6. w \in Seq(T) /\ q \in Seq(T) /\ Len(w) = 1 /\ w[1] = "tool"
  BY <1>5 DEF Paged!Tool
<1>7. ASSUME NEW k \in Hits(w, q) PROVE FALSE
  <2>1. k \in Nat /\ k + Len(q) <= Len(w) /\ Paged!EqualAt(w, q, k)
    BY <1>1, <1>2, <1>6 DEF Hits
  <2>2. k = 0 /\ 1 \in 1..Len(q)
    BY <1>1, <1>2, <1>6, <2>1
  <2>3. w[k + 1] = q[1]
    BY <1>6, <2>1, <2>2, EqualHas
  <2>4. q[1] \in Letters
    BY <2>2, ElementOfSeq
  <2> QED
    BY <1>6, <2>2, <2>3, <2>4, NoLetter
<1> QED
  BY <1>4, <1>5, <1>7

\* A part that is added brings its hits, and no others.
LEMMA PartAdded ==
    ASSUME NEW s \in Seq(Glyph), NEW p \in PagePart, NEW q \in Seq(Letters), q # <<>>
    PROVE  /\ Paged!AddPart(s, p, FALSE) \in Seq(Glyph)
           /\ Hits(Paged!AddPart(s, p, FALSE), q) # {} <=> Hits(s, q) # {} \/ Hits(p, q) # {}
<1>1. CASE p = <<>> \/ p = Paged!Tool
  <2>1. Paged!AddPart(s, p, FALSE) = s
    BY <1>1 DEF Paged!AddPart
  <2>2. Hits(p, q) = {}
    BY <1>1, NoHits
  <2> QED
    BY <2>1, <2>2
<1>2. CASE ~(p = <<>> \/ p = Paged!Tool)
  <2>1. p \in Seq(Glyph)
    BY <1>2 DEF PagePart, Glyph
  <2>2. CASE s = <<>>
    <3>1. Paged!AddPart(s, p, FALSE) = p
      BY <1>2, <2>2 DEF Paged!AddPart
    <3>2. Hits(s, q) = {}
      BY <2>2, NoHits
    <3> QED
      BY <2>1, <3>1, <3>2
  <2>3. CASE s # <<>>
    <3>1. Paged!AddPart(s, p, FALSE) = s \o <<Paged!Newline>> \o p
      BY <1>2, <2>3 DEF Paged!AddPart
    <3> QED
      BY <2>1, <3>1, JoinedHits
  <2> QED
    BY <2>2, <2>3
<1> QED
  BY <1>1, <1>2

\* f puts the parts of a turn together.
ReadsParts(f, t, n) ==
    f = [i \in 0..n |-> IF i < 1 THEN <<>> ELSE Paged!AddPart(f[i - 1], t[i], FALSE)]

\* There is such a function.
LEMMA PartsAreRead ==
    ASSUME NEW t \in Seq(PagePart), NEW n \in Nat, n = Len(t)
    PROVE  \E f : ReadsParts(f, t, n)
<1>1. PICK T : T = Seq(Glyph)
  OBVIOUS
<1>2. PICK next : next = [i \in Nat |-> [s \in T |-> IF i \in 1..n THEN Paged!AddPart(s, t[i], FALSE) ELSE s]]
  OBVIOUS
<1>3. ASSUME NEW i \in 1..n, NEW s \in T PROVE Paged!AddPart(s, t[i], FALSE) \in T
  <2>1. t[i] \in PagePart
    OBVIOUS
  <2>2. CASE t[i] = <<>> \/ t[i] = Paged!Tool
    BY <2>2 DEF Paged!AddPart
  <2>3. CASE ~(t[i] = <<>> \/ t[i] = Paged!Tool)
    <3>1. PICK p : p = t[i]
      OBVIOUS
    <3>2. p \in Seq(Glyph) /\ <<Paged!Newline>> \in Seq(Glyph)
      BY <2>1, <2>3, <3>1 DEF PagePart, Glyph
    <3> HIDE DEF Glyph
    <3>3. s \in Seq(Glyph)
      BY <1>1
    <3>4. s \o <<Paged!Newline>> \in Seq(Glyph)
      BY <3>2, <3>3, ConcatProperties
    <3>5. s \o <<Paged!Newline>> \o p \in Seq(Glyph)
      BY <3>2, <3>4, ConcatProperties
    <3> QED
      BY <1>1, <2>3, <3>1, <3>2, <3>5 DEF Paged!AddPart
  <2> QED
    BY <2>2, <2>3
<1>4. next \in [Nat -> [T -> T]]
  BY <1>2, <1>3
<1>5. <<>> \in T /\ 1 \in Nat \ {0}
  BY <1>1
<1>6. PICK f : Made(f, T, <<>>, next, 1, n)
  BY <1>4, <1>5, Recursion
<1>7. f \in [0..n -> T] /\ \A i \in 0..n : f[i] = IF i < 1 THEN <<>> ELSE next[i][f[i - 1]]
  BY <1>6 DEF Made
<1>8. ASSUME NEW i \in 0..n
      PROVE  f[i] = IF i < 1 THEN <<>> ELSE Paged!AddPart(f[i - 1], t[i], FALSE)
  <2>1. CASE i < 1
    BY <1>7, <2>1
  <2>2. CASE ~(i < 1)
    <3>1. i - 1 \in 0..n /\ i \in Nat /\ i \in 1..n
      BY <2>2
    <3>2. f[i - 1] \in T
      BY <1>7, <3>1
    <3> QED
      BY <1>2, <1>7, <2>2, <3>1, <3>2
  <2> QED
    BY <2>1, <2>2
<1>9. f = [i \in 0..n |-> f[i]]
  BY <1>7
<1>10. f = [i \in 0..n |-> IF i < 1 THEN <<>> ELSE Paged!AddPart(f[i - 1], t[i], FALSE)]
  BY <1>8, <1>9
<1> QED
  BY <1>10 DEF ReadsParts

\* s is a text the query stands in when it does in one of the first i parts.
TextIs(s, t, q, i) == s \in Seq(Glyph) /\ (Hits(s, q) # {} <=> \E j \in 1..i : Hits(t[j], q) # {})

\* A query stands in the text of a turn when it does in a part of it.
LEMMA TurnHits ==
    ASSUME NEW t \in Seq(PagePart), NEW q \in Seq(Letters), q # <<>>
    PROVE  TextIs(Paged!flattenTurnText(t, FALSE), t, q, Len(t))
<1>1. PICK n : n = Len(t)
  OBVIOUS
<1>2. n \in Nat
  BY <1>1
<1>3. PICK f : f = CHOOSE h : ReadsParts(h, t, n)
  OBVIOUS
<1>4. ReadsParts(f, t, n)
  BY <1>1, <1>2, <1>3, PartsAreRead
<1> DEFINE S == {i \in Nat : i <= n => TextIs(f[i], t, q, i)}
<1>5. 0 \in S
  <2>1. f[0] = <<>>
    BY <1>2, <1>4 DEF ReadsParts
  <2>2. 1..0 = {} /\ <<>> \in Seq(Glyph)
    OBVIOUS
  <2>3. TextIs(<<>>, t, q, 0)
    BY <2>2, NoHits DEF TextIs
  <2> QED
    BY <2>1, <2>3
<1>6. ASSUME NEW i \in Nat, i \in S PROVE i + 1 \in S
  <2> SUFFICES ASSUME i + 1 <= n PROVE TextIs(f[i + 1], t, q, i + 1)
    OBVIOUS
  <2>1. f[i + 1] = Paged!AddPart(f[i], t[i + 1], FALSE)
    <3>1. i + 1 \in 0..n /\ ~(i + 1 < 1) /\ (i + 1) - 1 = i
      BY <1>2
    <3> QED
      BY <1>4, <3>1 DEF ReadsParts
  <2>2. PICK s : s = f[i]
    OBVIOUS
  <2>3. TextIs(s, t, q, i)
    <3>1. i <= n
      BY <1>2
    <3> QED
      BY <1>6, <2>2, <3>1
  <2>4. PICK p : p = t[i + 1]
    OBVIOUS
  <2>5. p \in PagePart
    <3>1. i + 1 \in 1..Len(t)
      BY <1>1, <1>2
    <3> QED
      BY <2>4, <3>1, ElementOfSeq
  <2>6. \A j : j \in 1..(i + 1) <=> j \in 1..i \/ j = i + 1
    OBVIOUS
  <2>7. /\ f[i + 1] \in Seq(Glyph)
        /\ Hits(f[i + 1], q) # {} <=> Hits(s, q) # {} \/ Hits(p, q) # {}
    <3>1. s \in Seq(Glyph)
      BY <2>3 DEF TextIs
    <3> QED
      BY <2>1, <2>2, <2>4, <2>5, <3>1, PartAdded
  <2>8. (\E j \in 1..(i + 1) : Hits(t[j], q) # {}) <=> (\E j \in 1..i : Hits(t[j], q) # {}) \/ Hits(p, q) # {}
    BY <2>4, <2>6
  <2> QED
    BY <2>3, <2>7, <2>8 DEF TextIs
<1>7. n \in S
  <2> HIDE DEF S
  <2> QED
    BY <1>2, <1>5, <1>6, Inductive
<1>8. Paged!flattenTurnText(t, FALSE) = f[n]
  BY <1>1, <1>3 DEF Paged!flattenTurnText, ReadsParts
<1>9. TextIs(f[n], t, q, n)
  <2>1. n <= n
    BY <1>2
  <2> QED
    BY <1>7, <2>1
<1> QED
  BY <1>1, <1>8, <1>9

-----------------------------------------------------------------------------
(* The turns that match, in order (Ascending).                             *)

\* The members of S up to i, in order.
Listed(a, S, i) ==
    /\ a \in Seq(Nat)
    /\ \A k \in 1..Len(a) : a[k] \in S \cap 1..i
    /\ \A j, k \in 1..Len(a) : j < k => a[j] < a[k]
    /\ Len(a) = Cardinality(S \cap 1..i)

\* A number that is appended comes last.
LEMMA NumberAppended ==
    ASSUME NEW s \in Seq(Nat), NEW e \in Nat
    PROVE  /\ Append(s, e) \in Seq(Nat) /\ Len(Append(s, e)) = Len(s) + 1
           /\ \A k \in 1..Len(s) : Append(s, e)[k] = s[k]
           /\ Append(s, e)[Len(s) + 1] = e
OBVIOUS

\* One more number.
LEMMA ListedOn ==
    ASSUME NEW a, NEW S, NEW i \in Nat, Listed(a, S, i), NEW b,
           b = IF i + 1 \in S THEN Append(a, i + 1) ELSE a
    PROVE  Listed(b, S, i + 1)
<1>1. /\ a \in Seq(Nat) /\ Len(a) \in Nat
      /\ \A k \in 1..Len(a) : a[k] \in S \cap 1..i
      /\ \A j, k \in 1..Len(a) : j < k => a[j] < a[k]
      /\ Len(a) = Cardinality(S \cap 1..i)
  <2>1. a \in Seq(Nat) /\ Len(a) = Cardinality(S \cap 1..i)
    BY DEF Listed
  <2>2. Len(a) \in Nat
    BY <2>1
  <2> QED
    BY <2>1, <2>2 DEF Listed
<1>2. PICK A, B : A = S \cap 1..i /\ B = S \cap 1..(i + 1)
  OBVIOUS
<1>3. IsFiniteSet(A) /\ i + 1 \notin A
  <2>1. IsFiniteSet(1..i)
    BY FS_Interval
  <2> QED
    BY <1>2, <2>1, FS_Subset
<1>4. CASE i + 1 \in S
  <2>1. B = A \cup {i + 1}
    BY <1>2, <1>4
  <2>2. Cardinality(B) = Cardinality(A) + 1
    BY <1>3, <2>1, FS_AddElement
  <2>3. PICK n : n = Len(a)
    OBVIOUS
  <2>4. b \in Seq(Nat) /\ Len(b) = n + 1 /\ b[n + 1] = i + 1 /\ \A k \in 1..n : b[k] = a[k]
    <3>1. i + 1 \in Nat /\ b = Append(a, i + 1)
      BY <1>4
    <3> QED
      <4>1. PICK e : e = i + 1 /\ e \in Nat
        BY <3>1
      <4>2. /\ Append(a, e) \in Seq(Nat) /\ Len(Append(a, e)) = Len(a) + 1
            /\ \A k \in 1..Len(a) : Append(a, e)[k] = a[k]
            /\ Append(a, e)[Len(a) + 1] = e
        BY <1>1, <4>1, NumberAppended
      <4> QED
        BY <2>3, <3>1, <4>1, <4>2
  <2>5. \A k \in 1..(n + 1) : k \in 1..n \/ k = n + 1
    BY <1>1, <2>3
  <2>6. \A k \in 1..Len(b) : b[k] \in B
    BY <1>1, <1>2, <1>4, <2>1, <2>3, <2>4, <2>5
  <2>7. ASSUME NEW j \in 1..Len(b), NEW k \in 1..Len(b), j < k PROVE b[j] < b[k]
    <3>0. j \in 1..n
      <4>1. n \in Nat /\ j \in 1..(n + 1) /\ k \in 1..(n + 1)
        BY <1>1, <2>3, <2>4
      <4> QED
        BY <2>7, <4>1
    <3>1. j \in 1..n /\ b[j] = a[j] /\ a[j] \in 1..i
      BY <1>1, <2>3, <2>4, <3>0
    <3>2. CASE k = n + 1
      BY <2>4, <3>1, <3>2
    <3>3. CASE k # n + 1
      <4>1. k \in 1..n /\ b[k] = a[k]
        BY <2>4, <2>5, <3>3
      <4> QED
        BY <1>1, <2>3, <2>7, <3>1, <4>1
    <3> QED
      BY <3>2, <3>3
  <2>8. Len(b) = Cardinality(B)
    BY <1>1, <1>2, <2>2, <2>3, <2>4
  <2> QED
    BY <1>2, <2>4, <2>6, <2>7, <2>8 DEF Listed
<1>5. CASE i + 1 \notin S
  <2>1. B = A
    BY <1>2, <1>5
  <2>2. b = a
    BY <1>5
  <2> QED
    BY <1>1, <1>2, <2>1, <2>2 DEF Listed
<1> QED
  BY <1>4, <1>5

\* f lists the members of S.
Lists(f, S, n) ==
    f = [i \in 0..n |-> IF i < 1 THEN <<>> ELSE IF i \in S THEN Append(f[i - 1], i) ELSE f[i - 1]]

\* There is such a function.
LEMMA ListsAre == ASSUME NEW S, NEW n \in Nat PROVE \E f : Lists(f, S, n)
<1>1. PICK T : T = Seq(Nat)
  OBVIOUS
<1>2. PICK next : next = [i \in Nat |-> [s \in T |-> IF i \in S THEN Append(s, i) ELSE s]]
  OBVIOUS
<1>3. \A i \in Nat, s \in T : Append(s, i) \in T
  BY <1>1
<1>4. next \in [Nat -> [T -> T]]
  BY <1>2, <1>3
<1>5. <<>> \in T /\ 1 \in Nat \ {0}
  BY <1>1
<1>6. PICK f : Made(f, T, <<>>, next, 1, n)
  BY <1>4, <1>5, Recursion
<1>7. f \in [0..n -> T] /\ \A i \in 0..n : f[i] = IF i < 1 THEN <<>> ELSE next[i][f[i - 1]]
  BY <1>6 DEF Made
<1>8. ASSUME NEW i \in 0..n
      PROVE  f[i] = IF i < 1 THEN <<>> ELSE IF i \in S THEN Append(f[i - 1], i) ELSE f[i - 1]
  <2>1. CASE i < 1
    BY <1>7, <2>1
  <2>2. CASE ~(i < 1)
    <3>1. i - 1 \in 0..n /\ i \in Nat
      BY <2>2
    <3>2. f[i - 1] \in T
      BY <1>7, <3>1
    <3> QED
      BY <1>2, <1>7, <2>2, <3>1, <3>2
  <2> QED
    BY <2>1, <2>2
<1>9. f = [i \in 0..n |-> f[i]]
  BY <1>7
<1>10. f = [i \in 0..n |-> IF i < 1 THEN <<>> ELSE IF i \in S THEN Append(f[i - 1], i) ELSE f[i - 1]]
  BY <1>8, <1>9
<1> QED
  BY <1>10 DEF Lists

\* Ascending lists them.
LEMMA AscendingIs == ASSUME NEW S, NEW n \in Nat PROVE Listed(Paged!Ascending(S, n), S, n)
<1>1. PICK f : f = CHOOSE h : Lists(h, S, n)
  OBVIOUS
<1>2. Lists(f, S, n)
  BY <1>1, ListsAre
<1> DEFINE X == {i \in Nat : i <= n => Listed(f[i], S, i)}
<1>3. 0 \in X
  <2>1. f[0] = <<>>
    BY <1>2 DEF Lists
  <2>2. 1..0 = {} /\ Len(<<>>) = 0 /\ <<>> \in Seq(Nat) /\ Cardinality({}) = 0
    BY FS_EmptySet
  <2>3. S \cap 1..0 = {}
    BY <2>2
  <2>4. Listed(<<>>, S, 0)
    BY <2>2, <2>3 DEF Listed
  <2> QED
    BY <2>1, <2>4
<1>4. ASSUME NEW i \in Nat, i \in X PROVE i + 1 \in X
  <2> SUFFICES ASSUME i + 1 <= n PROVE Listed(f[i + 1], S, i + 1)
    OBVIOUS
  <2>1. i + 1 \in 0..n /\ ~(i + 1 < 1) /\ (i + 1) - 1 = i
    OBVIOUS
  <2>2. f[i + 1] = IF i + 1 \in S THEN Append(f[i], i + 1) ELSE f[i]
    BY <1>2, <2>1 DEF Lists
  <2>3. Listed(f[i], S, i)
    BY <1>4
  <2> QED
    BY <2>2, <2>3, ListedOn
<1>5. n \in X
  <2> HIDE DEF X
  <2> QED
    BY <1>3, <1>4, Inductive
<1>6. Paged!Ascending(S, n) = f[n]
  BY <1>1 DEF Paged!Ascending, Lists
<1> QED
  BY <1>5, <1>6

-----------------------------------------------------------------------------
(* The search of a transcript and of the sessions.                         *)

\* foldFindAll says whether the query stands in a text.
LEMMA FoundIs ==
    ASSUME NEW hay \in Seq(Glyph), NEW q \in Seq(Letters), q # <<>>
    PROVE  Paged!foldFindAll(hay, q)[1] >= 0 <=> Hits(hay, q) # {}
<1>1. PICK n, l : n = Len(hay) /\ l = Len(q)
  OBVIOUS
<1>2. n \in Nat /\ l \in Nat \ {0}
  BY <1>1
<1>3. PICK H : H = Hits(hay, q)
  OBVIOUS
<1>4. PICK s : Placed(H, l, n, s) /\ Paged!foldFindAll(hay, q) = <<s.first, s.count>>
  BY <1>1, <1>2, <1>3, FoundAll
<1>5. PICK a, c : a = s.first /\ c = s.count
  OBVIOUS
<1>6. a = s.first /\ Paged!foldFindAll(hay, q)[1] = a
  <2>1. <<a, c>>[1] = a
    OBVIOUS
  <2> QED
    BY <1>4, <1>5, <2>1
<1>7. a \in Int /\ (a < 0 => \A k \in H : k >= n) /\ (a >= 0 => a \in H)
  BY <1>4, <1>6 DEF Placed
<1>8. \A k \in H : k \in Nat /\ k + l <= n
  BY <1>1, <1>2, <1>3 DEF Hits
<1>9. a < 0 => H = {}
  BY <1>2, <1>7, <1>8
<1> QED
  BY <1>3, <1>6, <1>7, <1>9

\* The turns the query stands in.
Holding(ts, q) == {i \in 1..Len(ts) : \E k \in 1..Len(ts[i]) : Hits(ts[i][k], q) # {}}

\* A scan counts the turns that match and shows so many of them.
LEMMA ScanTold ==
    ASSUME NEW ts \in Seq(Seq(PagePart)), NEW q \in Seq(Letters), q # <<>>, NEW maxHits \in Nat, NEW ctx, NEW r,
           r = Paged!scanTurnsForQuery(ts, q, maxHits, ctx)
    PROVE  /\ r[2] = Cardinality(Holding(ts, q)) /\ r[2] \in 0..Len(ts)
           /\ Len(r[1]) = (IF r[2] > maxHits THEN maxHits ELSE r[2])
<1>1. PICK n : n = Len(ts) /\ n \in Nat
  OBVIOUS
<1>2. PICK text : text = [i \in 1..n |-> Paged!flattenTurnText(ts[i], FALSE)]
  OBVIOUS
<1>3. PICK S : S = {i \in 1..n : Paged!foldFindAll(text[i], q)[1] >= 0}
  OBVIOUS
<1>4. S = Holding(ts, q)
  <2>1. ASSUME NEW i \in 1..n
        PROVE  Paged!foldFindAll(text[i], q)[1] >= 0 <=> \E k \in 1..Len(ts[i]) : Hits(ts[i][k], q) # {}
    <3>1. PICK t, x : t = ts[i] /\ x = text[i]
      OBVIOUS
    <3>2. t \in Seq(PagePart)
      BY <1>1, <3>1, ElementOfSeq
    <3>3. x = Paged!flattenTurnText(t, FALSE)
      BY <1>2, <3>1
    <3>4. TextIs(x, t, q, Len(t))
      BY <3>2, <3>3, TurnHits
    <3>5. x \in Seq(Glyph) /\ (Hits(x, q) # {} <=> \E k \in 1..Len(t) : Hits(t[k], q) # {})
      BY <3>4 DEF TextIs
    <3>6. Paged!foldFindAll(x, q)[1] >= 0 <=> Hits(x, q) # {}
      BY <3>5, FoundIs
    <3> QED
      BY <3>1, <3>5, <3>6
  <2> QED
    BY <1>1, <1>3, <2>1 DEF Holding
<1>5. PICK a : a = Paged!Ascending(S, n)
  OBVIOUS
<1>6. Listed(a, S, n)
  BY <1>1, <1>5, AscendingIs
<1>7. S \cap 1..n = S
  BY <1>3
<1>8. a \in Seq(Nat) /\ Len(a) = Cardinality(S)
  BY <1>6, <1>7 DEF Listed
<1>9. Len(a) \in Nat /\ Len(a) <= n
  <2>1. IsFiniteSet(1..n) /\ Cardinality(1..n) = n
    <3>1. 1 \in Int /\ n \in Int
      BY <1>1
    <3>2. IsFiniteSet(1..n) /\ Cardinality(1..n) = IF 1 > n THEN 0 ELSE n - 1 + 1
      BY <3>1, FS_Interval
    <3> QED
      BY <1>1, <3>2
  <2>2. Cardinality(S) <= n
    BY <1>3, <2>1, FS_Subset
  <2> QED
    BY <1>8, <2>2
<1>10. PICK m : m = Paged!AtMost(Len(a), Paged!AtLeast(0, maxHits))
  OBVIOUS
<1>11. m = (IF Len(a) > maxHits THEN maxHits ELSE Len(a)) /\ m \in Nat /\ m <= Len(a)
  BY <1>9, <1>10 DEF Paged!AtMost, Paged!AtLeast
<1>12. PICK shown : shown = SubSeq(a, 1, m)
  OBVIOUS
<1>13. Len(shown) = m
  BY <1>8, <1>11, <1>12
<1>14. PICK hits : hits = [k \in 1..m |->
            [turn |-> shown[k], count |-> Paged!foldFindAll(text[shown[k]], q)[2],
             snippet |-> Paged!snippetAround(text[shown[k]], Paged!foldFindAll(text[shown[k]], q)[1], Len(q), ctx)]]
  OBVIOUS
<1>15. Len(hits) = m
  <2>1. hits = [k \in 1..m |-> hits[k]]
    BY <1>14
  <2> QED
    BY <1>11, <2>1, FunctionSeq
<1>16. r = <<hits, Len(a)>>
  <2>1. r = <<[k \in 1..Len(shown) |->
                [turn |-> shown[k], count |-> Paged!foldFindAll(text[shown[k]], q)[2],
                 snippet |-> Paged!snippetAround(text[shown[k]], Paged!foldFindAll(text[shown[k]], q)[1],
                                                 Len(q), ctx)]],
              Len(a)>>
    BY ONLY r = Paged!scanTurnsForQuery(ts, q, maxHits, ctx), <1>1, <1>2, <1>3, <1>5, <1>10, <1>12, ZenonT(60)
       DEF Paged!scanTurnsForQuery
  <2> QED
    BY ONLY <1>13, <1>14, <2>1
<1> QED
  BY <1>1, <1>4, <1>8, <1>9, <1>11, <1>15, <1>16

\* The first sessions of the ranking, the best first and each of them once: those with
\* more than n - i matches.
Ranked(a, g, n, i) ==
    /\ a \in Seq(1..n)
    /\ \A k \in 1..Len(a) : g[a[k]] >= n + 1 - i
    /\ \A j, k \in 1..Len(a) : j < k => g[a[j]] >= g[a[k]] /\ a[j] # a[k]

\* The sessions with one match less go behind them.
LEMMA RankedOn ==
    ASSUME NEW n \in Nat, NEW g \in [1..n -> Nat], NEW i \in Nat, NEW a, Ranked(a, g, n, i), NEW S,
           S = {k \in 1..n : g[k] = n - i}, NEW b, b = a \o Paged!Ascending(S, n)
    PROVE  Ranked(b, g, n, i + 1)
<1>1. PICK c : c = Paged!Ascending(S, n)
  OBVIOUS
<1>2. Listed(c, S, n)
  BY <1>1, AscendingIs
<1>3. PICK x, y : x = Len(a) /\ y = Len(c)
  OBVIOUS
<1>4. /\ a \in Seq(1..n) /\ x \in Nat
      /\ \A k \in 1..x : g[a[k]] >= n + 1 - i /\ a[k] \in 1..n
      /\ \A j, k \in 1..x : j < k => g[a[j]] >= g[a[k]] /\ a[j] # a[k]
  <2>1. a \in Seq(1..n)
    BY DEF Ranked
  <2>2. x \in Nat /\ \A k \in 1..x : a[k] \in 1..n
    BY <1>3, <2>1
  <2> QED
    BY <1>3, <2>1, <2>2 DEF Ranked
<1>5. /\ c \in Seq(Nat) /\ y \in Nat
      /\ \A k \in 1..y : c[k] \in 1..n /\ g[c[k]] = n - i
      /\ \A j, k \in 1..y : j < k => c[j] < c[k]
  <2>1. c \in Seq(Nat)
    BY <1>2 DEF Listed
  <2>2. y \in Nat
    BY <1>3, <2>1
  <2>3. \A k \in 1..y : c[k] \in S
    BY <1>2, <1>3 DEF Listed
  <2>4. \A j, k \in 1..y : j < k => c[j] < c[k]
    BY <1>2, <1>3 DEF Listed
  <2> QED
    BY <2>1, <2>2, <2>3, <2>4
<1>6. c \in Seq(1..n)
  <2>1. DOMAIN c = 1..y /\ c = [k \in 1..y |-> c[k]]
    BY <1>3, <1>5
  <2>2. c \in [1..y -> 1..n]
    BY <1>5, <2>1
  <2> QED
    BY <1>5, <2>2
<1>7. /\ b \in Seq(1..n) /\ Len(b) = x + y
      /\ \A k \in 1..x : b[k] = a[k]
      /\ \A k \in 1..(x + y) : k > x => b[k] = c[k - x] /\ k - x \in 1..y
  <2>1. PICK d : d = a \o c
    OBVIOUS
  <2>2. /\ d \in Seq(1..n) /\ Len(d) = Len(a) + Len(c)
        /\ \A k \in 1..Len(a) + Len(c) : d[k] = IF k <= Len(a) THEN a[k] ELSE c[k - Len(a)]
    BY <1>4, <1>6, <2>1, ConcatProperties
  <2>3. b = d
    BY <1>1, <2>1
  <2>4. \A k \in 1..x : b[k] = a[k]
    BY <1>3, <1>4, <1>5, <2>2, <2>3
  <2>5. ASSUME NEW k \in 1..(x + y), k > x PROVE b[k] = c[k - x] /\ k - x \in 1..y
    <3>1. ~(k <= x) /\ k - x \in 1..y /\ k \in 1..Len(a) + Len(c)
      BY <1>3, <1>4, <1>5, <2>5
    <3>2. d[k] = IF k <= x THEN a[k] ELSE c[k - x]
      BY <1>3, <2>2, <3>1
    <3> QED
      BY <2>3, <3>1, <3>2
  <2> QED
    BY <1>3, <2>2, <2>3, <2>4, <2>5
<1>8. ASSUME NEW k \in 1..Len(b)
      PROVE  g[b[k]] \in Nat /\ g[b[k]] >= n + 1 - (i + 1) /\ (k <= x => k \in 1..x) /\ (k > x => g[b[k]] = n - i)
  <2>0. k \in Nat /\ k >= 1 /\ k <= x + y
    BY <1>4, <1>5, <1>7
  <2>1. CASE k <= x
    <3>1. k \in 1..x
      BY <1>4, <2>0, <2>1
    <3>2. b[k] = a[k] /\ a[k] \in 1..n /\ g[a[k]] >= n + 1 - i
      BY <1>4, <1>7, <3>1
    <3>3. PICK v : v = g[b[k]]
      OBVIOUS
    <3>4. v \in Nat /\ v >= n + 1 - i
      BY <3>2, <3>3
    <3>5. v >= n + 1 - (i + 1)
      BY <3>4
    <3>6. ~(k > x)
      BY <1>4, <2>0, <2>1
    <3> QED
      BY <3>1, <3>3, <3>4, <3>5, <3>6
  <2>2. CASE ~(k <= x)
    <3>1. k > x /\ k \in 1..(x + y)
      BY <1>4, <1>5, <2>0, <2>2
    <3>2. b[k] = c[k - x] /\ k - x \in 1..y
      BY <1>7, <3>1
    <3>3. PICK z : z = c[k - x]
      OBVIOUS
    <3>4. z \in 1..n /\ g[z] = n - i
      BY <1>5, <3>2, <3>3
    <3>5. g[z] \in Nat /\ n - i >= n + 1 - (i + 1)
      BY <3>4
    <3> QED
      BY <2>2, <3>2, <3>3, <3>4, <3>5
  <2> QED
    BY <2>1, <2>2
<1>9. ASSUME NEW j \in 1..Len(b), NEW k \in 1..Len(b), j < k
      PROVE  g[b[j]] >= g[b[k]] /\ b[j] # b[k]
  <2>1. j \in Nat /\ k \in Nat
    BY <1>4, <1>5, <1>7
  <2>2. CASE k <= x
    <3>1. j \in 1..x /\ k \in 1..x
      BY <1>4, <1>8, <1>9, <2>1, <2>2
    <3> QED
      BY <1>4, <1>7, <1>9, <3>1
  <2>3. CASE ~(k <= x) /\ j <= x
    <3>1. j \in 1..x
      BY <1>4, <1>8, <2>3
    <3>2. k > x
      BY <1>4, <2>1, <2>3
    <3>3. PICK v, w : v = g[b[j]] /\ w = g[b[k]]
      OBVIOUS
    <3>4. v \in Nat /\ w \in Nat /\ w = n - i
      BY <1>8, <3>2, <3>3
    <3>5. v >= n + 1 - i
      BY <1>4, <1>7, <3>1, <3>3
    <3>6. v > w
      BY <3>4, <3>5
    <3>7. v # w /\ v >= w
      BY <3>4, <3>6
    <3> QED
      BY <3>3, <3>7
  <2>4. CASE ~(k <= x) /\ ~(j <= x)
    <3>1. j > x /\ k > x
      BY <1>4, <2>1, <2>4
    <3>2. b[j] = c[j - x] /\ b[k] = c[k - x] /\ j - x \in 1..y /\ k - x \in 1..y
      BY <1>7, <3>1
    <3>3. j - x < k - x
      BY <1>4, <1>9, <2>1
    <3>4. c[j - x] < c[k - x] /\ c[j - x] \in 1..n /\ c[k - x] \in 1..n
      BY <1>5, <3>2, <3>3
    <3>5. b[j] # b[k]
      BY <3>2, <3>4
    <3>6. PICK v, w : v = g[b[j]] /\ w = g[b[k]]
      OBVIOUS
    <3>7. v = n - i /\ w = n - i /\ v \in Nat
      BY <1>8, <3>1, <3>6
    <3>8. v >= w
      BY <3>7
    <3> QED
      BY <3>5, <3>6, <3>8
  <2> QED
    BY <2>2, <2>3, <2>4
<1> QED
  BY <1>7, <1>8, <1>9 DEF Ranked

\* How many turns of a session match is a number.
LEMMA MatchingIs ==
    ASSUME PageInv, NEW q \in Seq(Letters), q # <<>>, NEW k \in 1..Len(transcript)
    PROVE  Paged!Matching(q, k) \in Nat
<1>1. PICK ts : ts = SubSeq(transcript, k, Len(transcript))
  OBVIOUS
<1>2. ts \in Seq(Seq(PagePart)) /\ Len(ts) \in Nat
  BY <1>1 DEF PageInv
<1>3. PICK r : r = Paged!scanTurnsForQuery(ts, q, 1, 0)
  OBVIOUS
<1>4. r[2] \in 0..Len(ts)
  <2>1. 1 \in Nat
    OBVIOUS
  <2> QED
    BY <1>2, <1>3, <2>1, ScanTold
<1>5. Paged!Matching(q, k) = r[2]
  BY <1>1, <1>3 DEF Paged!Matching
<1> QED
  BY <1>2, <1>4, <1>5

\* The sessions with m matches, in order.
With(q, n, m) == Paged!Ascending({k \in 1..n : Paged!Matching(q, k) = m}, n)

\* f ranks the sessions.
Bests(f, q, n) == f = [i \in 0..n |-> IF i < 1 THEN <<>> ELSE f[i - 1] \o With(q, n, n + 1 - i)]

\* There is such a function.
LEMMA BestsAre == ASSUME NEW q, NEW n \in Nat PROVE \E f : Bests(f, q, n)
<1>1. PICK T : T = Seq(Nat)
  OBVIOUS
<1>2. PICK next : next = [i \in Nat |-> [s \in T |-> s \o With(q, n, n + 1 - i)]]
  OBVIOUS
<1>3. ASSUME NEW i \in Nat, NEW s \in T PROVE s \o With(q, n, n + 1 - i) \in T
  <2>1. With(q, n, n + 1 - i) \in Seq(Nat)
    BY AscendingIs DEF With, Listed
  <2> QED
    BY <1>1, <2>1, ConcatProperties
<1>4. next \in [Nat -> [T -> T]]
  BY <1>2, <1>3
<1>5. <<>> \in T /\ 1 \in Nat \ {0}
  BY <1>1
<1>6. PICK f : Made(f, T, <<>>, next, 1, n)
  BY <1>4, <1>5, Recursion
<1>7. f \in [0..n -> T] /\ \A i \in 0..n : f[i] = IF i < 1 THEN <<>> ELSE next[i][f[i - 1]]
  BY <1>6 DEF Made
<1>8. ASSUME NEW i \in 0..n
      PROVE  f[i] = IF i < 1 THEN <<>> ELSE f[i - 1] \o With(q, n, n + 1 - i)
  <2>1. CASE i < 1
    BY <1>7, <2>1
  <2>2. CASE ~(i < 1)
    <3>1. i - 1 \in 0..n /\ i \in Nat
      BY <2>2
    <3>2. f[i - 1] \in T
      BY <1>7, <3>1
    <3> QED
      BY <1>2, <1>7, <2>2, <3>1, <3>2
  <2> QED
    BY <2>1, <2>2
<1>9. f = [i \in 0..n |-> f[i]]
  BY <1>7
<1>10. f = [i \in 0..n |-> IF i < 1 THEN <<>> ELSE f[i - 1] \o With(q, n, n + 1 - i)]
  BY <1>8, <1>9
<1> QED
  BY <1>10 DEF Bests

\* The answer is the ranking, or its first m sessions.
Answered(r, a, m) == r = IF m > 0 /\ Len(a) > m THEN <<SubSeq(a, 1, m), TRUE>> ELSE <<a, FALSE>>

\* The sessions that match, ranked, cut where the answer ends.
LEMMA SessionsRanked ==
    ASSUME PageInv, NEW q \in Seq(Letters), q # <<>>, NEW n \in Nat, n = Len(transcript), NEW g,
           g = [k \in 1..n |-> Paged!Matching(q, k)], NEW m \in Nat
    PROVE  \E a : Ranked(a, g, n, n) /\ Answered(Paged!SearchAllSessions(q, m), a, m)
<1>1. PICK f : f = CHOOSE h : Bests(h, q, n)
  OBVIOUS
<1>2. Bests(f, q, n)
  BY <1>1, BestsAre
<1>3. g \in [1..n -> Nat]
  BY MatchingIs
<1> DEFINE S == {i \in Nat : i <= n => Ranked(f[i], g, n, i)}
<1>4. 0 \in S
  <2>1. f[0] = <<>>
    BY <1>2 DEF Bests
  <2>2. <<>> \in Seq(1..n) /\ Len(<<>>) = 0 /\ 1..0 = {}
    OBVIOUS
  <2>3. Ranked(<<>>, g, n, 0)
    BY <2>2 DEF Ranked
  <2> QED
    BY <2>1, <2>3
<1>5. ASSUME NEW i \in Nat, i \in S PROVE i + 1 \in S
  <2> SUFFICES ASSUME i + 1 <= n PROVE Ranked(f[i + 1], g, n, i + 1)
    OBVIOUS
  <2>1. i + 1 \in 0..n /\ ~(i + 1 < 1) /\ (i + 1) - 1 = i /\ n + 1 - (i + 1) = n - i
    OBVIOUS
  <2>2. f[i + 1] = f[i] \o With(q, n, n - i)
    BY <1>2, <2>1 DEF Bests
  <2>3. PICK a, b : a = f[i] /\ b = f[i + 1]
    OBVIOUS
  <2>4. Ranked(a, g, n, i)
    BY <1>5, <2>3
  <2>5. PICK B : B = {k \in 1..n : g[k] = n - i}
    OBVIOUS
  <2>6. B = {k \in 1..n : Paged!Matching(q, k) = n - i}
    BY <2>5
  <2>7. b = a \o Paged!Ascending(B, n)
    BY <2>2, <2>3, <2>6 DEF With
  <2>8. Ranked(b, g, n, i + 1)
    BY <1>3, <2>4, <2>5, <2>7, RankedOn
  <2> QED
    BY <2>3, <2>8
<1>6. n \in S
  <2> HIDE DEF S
  <2> QED
    BY <1>4, <1>5, Inductive
<1>7. Ranked(f[n], g, n, n)
  <2>1. n <= n
    OBVIOUS
  <2> QED
    BY <1>6, <2>1
<1>8. Answered(Paged!SearchAllSessions(q, m), f[n], m)
  BY <1>1 DEF Answered, Paged!SearchAllSessions, Bests, With
<1> QED
  BY <1>7, <1>8

\* What a search of the sessions answers.
LEMMA SessionsFound ==
    ASSUME PageInv, NEW q \in Seq(Letters), q # <<>>, NEW n \in Nat, n = Len(transcript), NEW m \in Nat,
           NEW r, r = Paged!SearchAllSessions(q, m)
    PROVE  /\ \A k, j \in 1..Len(r[1]) : k < j => Paged!Matching(q, r[1][k]) >= Paged!Matching(q, r[1][j])
           /\ r[2] => \E i \in 1..n : i \notin Paged!ToSet(r[1]) /\ Paged!Matching(q, i) > 0
<1>1. PICK g : g = [k \in 1..n |-> Paged!Matching(q, k)]
  OBVIOUS
<1>2. PICK a : Ranked(a, g, n, n) /\ Answered(r, a, m)
  BY <1>1, SessionsRanked
<1>3. /\ a \in Seq(1..n) /\ Len(a) \in Nat
      /\ \A k \in 1..Len(a) : a[k] \in 1..n /\ g[a[k]] >= n + 1 - n
      /\ \A j, k \in 1..Len(a) : j < k => g[a[j]] >= g[a[k]] /\ a[j] # a[k]
  <2>1. a \in Seq(1..n)
    BY <1>2 DEF Ranked
  <2>2. Len(a) \in Nat /\ \A k \in 1..Len(a) : a[k] \in 1..n
    BY <2>1
  <2> QED
    BY <1>2, <2>1, <2>2 DEF Ranked
<1>4. ASSUME NEW j \in 1..Len(a), NEW k \in 1..Len(a), j < k
      PROVE  Paged!Matching(q, a[j]) >= Paged!Matching(q, a[k])
  BY <1>1, <1>3, <1>4
<1>5. CASE m > 0 /\ Len(a) > m
  <2>1. PICK s : s = SubSeq(a, 1, m)
    OBVIOUS
  <2>2. s \in Seq(1..n) /\ Len(s) = m /\ \A k \in 1..m : s[k] = a[k]
    BY <1>3, <1>5, <2>1
  <2>3. r = <<s, TRUE>>
    BY <1>2, <1>5, <2>1 DEF Answered
  <2>4. ASSUME NEW k \in 1..m PROVE k \in 1..Len(a)
    BY <1>3, <1>5
  <2>5. \A k, j \in 1..Len(s) : k < j => Paged!Matching(q, s[k]) >= Paged!Matching(q, s[j])
    BY <1>4, <2>2, <2>4
  <2>6. PICK x : x = a[m + 1]
    OBVIOUS
  <2>7. m + 1 \in 1..Len(a) /\ x \in 1..n
    BY <1>3, <1>5, <2>6
  <2>8. Paged!Matching(q, x) > 0
    <3>1. g[x] >= n + 1 - n /\ g[x] \in Nat
      BY <1>1, <1>3, <2>6, <2>7, MatchingIs
    <3>2. g[x] > 0
      BY <3>1
    <3> QED
      BY <1>1, <2>7, <3>2
  <2>9. \A k \in 1..m : s[k] # x
    <3> SUFFICES ASSUME NEW k \in 1..m PROVE s[k] # x
      OBVIOUS
    <3>1. k \in 1..Len(a) /\ k < m + 1
      BY <2>4
    <3> QED
      BY <1>3, <2>2, <2>6, <2>7, <3>1
  <2>10. x \notin Paged!ToSet(s)
    BY <2>2, <2>9 DEF Paged!ToSet
  <2> QED
    BY <2>3, <2>5, <2>7, <2>8, <2>10
<1>6. CASE ~(m > 0 /\ Len(a) > m)
  BY <1>2, <1>4, <1>6 DEF Answered
<1> QED
  BY <1>5, <1>6

\* What a search of a text finds.
TextHolds(hay, q) ==
    LET r == Paged!foldFindAll(hay, q)
        sites == SUBSET {k \in 0..(Len(hay) - Len(q)) : Paged!EqualAt(hay, q, k)}
    IN /\ \A S \in sites : Paged!Disjoint(hay, q, S) => Cardinality(S) <= r[2]
       /\ \E S \in sites : Paged!Disjoint(hay, q, S) /\ Cardinality(S) = r[2]
       /\ r[1] >= 0 => Paged!EqualAt(hay, q, r[1]) /\ \A k \in 0..(r[1] - 1) : ~Paged!EqualAt(hay, q, k)
       /\ r[1] >= 0 =>
            LET s == Paged!snippetAround(hay, r[1], Len(q), 1) IN
            /\ \E k \in 0..Len(s) : Paged!EqualAt(s, q, k)
            /\ Len(s) <= Len(q) + 4

\* It finds the first occurrence, as many as fit side by side, and shows one.
LEMMA TextFound ==
    ASSUME NEW hay \in Seq(Glyph), NEW q \in Seq(Letters), q # <<>>
    PROVE  TextHolds(hay, q)
<1>1. PICK r : r = Paged!foldFindAll(hay, q)
  OBVIOUS
<1>2. PICK n, l : n = Len(hay) /\ l = Len(q)
  OBVIOUS
<1>3. n \in Nat /\ l \in Nat \ {0}
  BY <1>2
<1>4. PICK H : H = Hits(hay, q)
  OBVIOUS
<1>5. PICK s : Placed(H, l, n, s) /\ r = <<s.first, s.count>>
  BY <1>1, <1>2, <1>3, <1>4, FoundAll
<1>6. PICK a, c : a = s.first /\ c = s.count
  OBVIOUS
<1>7. r[1] = a /\ r[2] = c
  <2>1. <<a, c>>[1] = a /\ <<a, c>>[2] = c
    OBVIOUS
  <2> QED
    BY <1>5, <1>6, <2>1
<1>8. \A k \in H : k \in Nat /\ k + l <= n /\ k < n /\ Paged!EqualAt(hay, q, k)
  BY <1>2, <1>3, <1>4 DEF Hits
<1>9. ASSUME NEW S \in SUBSET H, Paged!Disjoint(hay, q, S) PROVE Cardinality(S) <= c
  <2>1. Apart(S, l)
    BY <1>2, <1>9 DEF Apart, Paged!Disjoint
  <2>2. \A k \in S : k < n
    BY <1>8
  <2> QED
    BY <1>5, <1>6, <2>1, <2>2 DEF Placed
<1>10. \E S \in SUBSET H : Paged!Disjoint(hay, q, S) /\ Cardinality(S) = c
  <2>1. PICK S \in SUBSET H : Apart(S, l) /\ Cardinality(S) = c
    BY <1>5, <1>6 DEF Placed
  <2>2. Paged!Disjoint(hay, q, S)
    BY <1>2, <1>8, <2>1 DEF Apart, Paged!Disjoint
  <2> QED
    BY <2>1, <2>2
<1>11. a \in Int /\ (a >= 0 => a \in H /\ \A k \in H : k >= a)
  BY <1>5, <1>6 DEF Placed
<1>12. ASSUME a >= 0 PROVE Paged!EqualAt(hay, q, a) /\ \A k \in 0..(a - 1) : ~Paged!EqualAt(hay, q, k)
  <2>1. a \in H /\ a + l <= n /\ Paged!EqualAt(hay, q, a)
    BY <1>8, <1>11, <1>12
  <2>2. ASSUME NEW k \in 0..(a - 1), Paged!EqualAt(hay, q, k) PROVE FALSE
    <3>1. k \in 0..(n - l) /\ k < a
      BY <1>3, <1>11, <2>1
    <3>2. k \in H
      BY <1>2, <1>4, <2>2, <3>1 DEF Hits
    <3> QED
      BY <1>11, <1>12, <3>1, <3>2
  <2> QED
    BY <2>1, <2>2
<1>13. ASSUME a >= 0
       PROVE  /\ \E k \in 0..Len(Paged!snippetAround(hay, a, l, 1)) :
                   Paged!EqualAt(Paged!snippetAround(hay, a, l, 1), q, k)
              /\ Len(Paged!snippetAround(hay, a, l, 1)) <= l + 4
  <2>1. a \in Hits(hay, q)
    BY <1>4, <1>11, <1>13
  <2>2. q \in Seq(Glyph) /\ Paged!Cut \in Glyph
    BY DEF Glyph
  <2> QED
    BY <1>2, <1>3, <2>1, <2>2, SnippetShows
<1>14. H = {k \in 0..(Len(hay) - Len(q)) : Paged!EqualAt(hay, q, k)}
  BY <1>4 DEF Hits
<1> QED
  BY <1>1, <1>2, <1>7, <1>9, <1>10, <1>12, <1>13, <1>14 DEF TextHolds

\* What a search of the transcript answers, and one of the sessions.
ScanHolds(q, n) ==
    LET r == Paged!SearchSessionTranscript(q, n, 1) IN
    /\ Len(r[1]) <= n
    /\ r[2] <=> Len(r[1]) < Cardinality({i \in 1..Len(transcript) :
                                            \E k \in 1..Len(transcript[i]) : Paged!SearchedIn(transcript[i][k])})

SessionsHold(q, n) ==
    LET r == Paged!SearchAllSessions(q, n)[1] IN
    /\ \A k, m \in 1..Len(r) : k < m => Paged!Matching(q, r[k]) >= Paged!Matching(q, r[m])
    /\ Paged!SearchAllSessions(q, n)[2] =>
         \E i \in 1..Len(transcript) : i \notin Paged!ToSet(r) /\ Paged!Matching(q, i) > 0

\* The cardinality of Pages is that of this module.
LEMMA SameCardinality == \A S : Paged!Cardinality(S) = Cardinality(S)
  BY DEF Paged!Cardinality, Cardinality

\* A search of a transcript and of the sessions finds what is there.
LEMMA SearchesFind == PageInv => Paged!SearchFinds
<1> SUFFICES ASSUME PageInv, query # <<>> PROVE Paged!SearchFinds
  BY DEF Paged!SearchFinds
<1>1. PICK q, N : q = query /\ N = Len(transcript)
  OBVIOUS
<1>2. q \in Seq(Letters) /\ q # <<>> /\ transcript \in Seq(Seq(PagePart)) /\ N \in Nat
  BY <1>1 DEF PageInv
<1>3. ASSUME NEW i \in 1..N PROVE TextHolds(Paged!flattenTurnText(transcript[i], FALSE), q)
  <2>1. PICK hay : hay = Paged!flattenTurnText(transcript[i], FALSE)
    OBVIOUS
  <2>2. hay \in Seq(Glyph)
    <3>1. transcript[i] \in Seq(PagePart)
      BY <1>1, <1>2, ElementOfSeq
    <3> QED
      BY <1>2, <2>1, <3>1, TurnHits DEF TextIs
  <2> QED
    BY <1>2, <2>1, <2>2, TextFound
<1>4. ASSUME NEW n \in 0..2 PROVE ScanHolds(q, n)
  <2>1. PICK r : r = Paged!scanTurnsForQuery(transcript, q, n, 1)
    OBVIOUS
  <2>2. n \in Nat
    OBVIOUS
  <2>3. /\ r[2] = Cardinality(Holding(transcript, q)) /\ r[2] \in 0..N
        /\ Len(r[1]) = (IF r[2] > n THEN n ELSE r[2])
    BY <1>1, <1>2, <2>1, <2>2, ScanTold
  <2>4. Holding(transcript, q)
          = {i \in 1..N : \E k \in 1..Len(transcript[i]) : Paged!SearchedIn(transcript[i][k])}
    BY <1>1 DEF Holding, Hits, Paged!SearchedIn
  <2>5. Paged!SearchSessionTranscript(q, n, 1) = <<r[1], r[2] > Len(r[1])>>
    BY <2>1 DEF Paged!SearchSessionTranscript
  <2>6. PICK x, y, c : x = r[1] /\ y = Len(x) /\ c = r[2]
    OBVIOUS
  <2>7. c \in Nat /\ y = (IF c > n THEN n ELSE c) /\ c = Cardinality(Holding(transcript, q))
    BY <1>2, <2>3, <2>6
  <2>8. y <= n /\ (c > y <=> y < c)
    BY <2>2, <2>7
  <2>9. Paged!SearchSessionTranscript(q, n, 1)[1] = x /\ (Paged!SearchSessionTranscript(q, n, 1)[2] <=> c > y)
    <3>1. PICK b : b = (c > y)
      OBVIOUS
    <3>2. <<x, b>>[1] = x /\ <<x, b>>[2] = b
      OBVIOUS
    <3> QED
      BY <2>5, <2>6, <3>1, <3>2
  <2> QED
    BY <1>1, <2>4, <2>6, <2>7, <2>8, <2>9 DEF ScanHolds
<1>5. ASSUME NEW n \in 0..N PROVE SessionsHold(q, n)
  <2>1. n \in Nat
    BY <1>2
  <2> QED
    BY <1>1, <1>2, <2>1, SessionsFound DEF SessionsHold
<1> QED
  <2>1. \A i \in 1..Len(transcript) : TextHolds(Paged!flattenTurnText(transcript[i], FALSE), query)
    BY <1>1, <1>3
  <2>2. \A n \in 0..2 : ScanHolds(query, n)
    BY <1>1, <1>4
  <2>3. \A n \in 0..Len(transcript) : SessionsHold(query, n)
    BY <1>1, <1>5
  <2> QED
    BY <2>1, <2>2, <2>3, SameCardinality, Zenon DEF Paged!SearchFinds, TextHolds, ScanHolds, SessionsHold

-----------------------------------------------------------------------------
(* The theorem.                                                            *)

\* Turns and queries are of letters and tools.
LEMMA PageGrows == PageInv /\ Paged!Next => PageInv'
<1> SUFFICES ASSUME PageInv, Paged!Next PROVE PageInv'
  OBVIOUS
<1>1. \A n \in Int : Paged!Words(n) \subseteq Seq(Letters)
  BY DEF Paged!Words
<1>2. CASE Paged!AddTurn
  <2>1. PICK t \in Paged!Turns : transcript' = Append(transcript, t)
    BY <1>2 DEF Paged!AddTurn
  <2>2. \A w \in Paged!Words(MaxText) \cup Paged!Words(1) : w \in PagePart
    <3>1. \A n : \A w \in Paged!Words(n) : w \in Seq(Letters)
      BY DEF Paged!Words
    <3> QED
      BY <3>1 DEF PagePart
  <2>3. Paged!Tool \in PagePart
    BY DEF PagePart
  <2>4. t \in Seq(PagePart)
    <3>1. CASE \E w \in Paged!Words(MaxText) : t = <<w>>
      BY <2>2, <3>1
    <3>2. CASE \E v, w \in Paged!Words(1) : t = <<v, Paged!Tool, w>>
      BY <2>2, <2>3, <3>2
    <3> QED
      BY <2>1, <3>1, <3>2 DEF Paged!Turns
  <2> QED
    BY <1>2, <2>1, <2>4 DEF PageInv, Paged!AddTurn
<1>3. CASE Paged!Ask
  BY <1>1, <1>3 DEF PageInv, Paged!Ask
<1> QED
  BY <1>2, <1>3 DEF Paged!Next

\* There is nothing to read at first.
LEMMA PageStarts == Paged!Init => PageInv
  BY DEF Paged!Init, PageInv

\* Pages cover the transcript and a search finds what is there (router.go), whatever
\* the letters, the turns and the query.
THEOREM PagesAreTheTranscript == LogsSpec => []PagesHold
<1>1. LogsInit => PageInv
  BY PageStarts DEF LogsInit
<1>2. PageInv /\ [LogsNext]_logsVars => PageInv'
  <2> SUFFICES ASSUME PageInv, [LogsNext]_logsVars PROVE PageInv'
    OBVIOUS
  <2>1. CASE PageStep
    BY <2>1, PageGrows DEF PageStep
  <2>2. CASE UNCHANGED pageVars
    BY <2>2 DEF PageInv, pageVars
  <2> QED
    BY <2>1, <2>2 DEF LogsNext, StreamStep, ClaudeStep, CodexStep, RoleStep, DshStep, logsVars
<1>3. PageInv => PagesHold
  BY PagesAreAll, SearchesFind DEF PagesHold
<1> QED
  BY <1>1, <1>2, <1>3, PTL DEF LogsSpec
=============================================================================
