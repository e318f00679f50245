---------------------------- MODULE PcieIfProofs ----------------------------
(***************************************************************************)
(* Proofs about the parts of pcie/tb/pcie_if.py.                           *)
(***************************************************************************)
EXTENDS MCPcieIf, SequenceTheorems, FiniteSetTheorems, FunctionTheorems,
        WellFoundedInduction, TLAPS

-----------------------------------------------------------------------------
(* Sequences, induction and recursion over the natural numbers.            *)

\* One in front.
LEMMA InFront ==
  ASSUME NEW E, NEW e \in E, NEW s \in Seq(E)
  PROVE  /\ <<e>> \o s \in Seq(E) /\ Len(<<e>> \o s) = Len(s) + 1
         /\ \A i \in 1 .. Len(s) + 1 : (<<e>> \o s)[i] = IF i = 1 THEN e ELSE s[i - 1]
<1>1. <<e>> \in Seq(E) /\ Len(<<e>>) = 1 /\ <<e>>[1] = e /\ Len(s) \in Nat
  OBVIOUS
<1>2. \A i \in 1 .. Len(<<e>>) + Len(s) :
         (<<e>> \o s)[i] = IF i <= Len(<<e>>) THEN <<e>>[i] ELSE s[i - Len(<<e>>)]
  BY <1>1, ConcatProperties
<1>3. <<e>> \o s \in Seq(E) /\ Len(<<e>> \o s) = Len(<<e>>) + Len(s)
  BY <1>1, ConcatProperties
<1>4. QED
  BY <1>1, <1>2, <1>3

\* A set of numbers has a smallest.
LEMMA Smallest ==
  ASSUME NEW X \in SUBSET Nat, X # {}
  PROVE  \E x \in X : \A y \in X : x <= y
<1> DEFINE R == {p \in Nat \X Nat : p[1] < p[2]}
<1>1. R = OpToRel(<, Nat)
  BY DEF OpToRel
<1>2. IsWellFoundedOn(R, Nat)
  BY <1>1, NatLessThanWellFounded
<1> HIDE DEF R
<1>3. PICK x \in X : \A y \in X : ~(<<y, x>> \in R)
  BY <1>2, WFMin
<1>4. \A y \in X : x <= y
  <2> TAKE y \in X
  <2>1. ~(<<y, x>> \in R) /\ x \in Nat /\ y \in Nat
    BY <1>3
  <2>2. QED
    BY <2>1 DEF R
<1>5. QED
  BY <1>4

LEMMA Induct ==
  ASSUME NEW X \in SUBSET Nat, 0 \in X, \A n \in X : n + 1 \in X
  PROVE  X = Nat
<1>1. SUFFICES ASSUME Nat \ X # {} PROVE FALSE
  OBVIOUS
<1>2. PICK x \in Nat \ X : \A y \in Nat \ X : x <= y
  BY <1>1, Smallest
<1>3. x # 0 /\ x - 1 \in X
  BY <1>2
<1>4. QED
  BY <1>2, <1>3

\* From N downwards, in steps: what holds at N and is handed down by every
\* step holds everywhere.
LEMMA Downwards ==
  ASSUME NEW N \in Nat, NEW step \in [0 .. N - 1 -> Nat \ {0}],
         \A n \in 0 .. N - 1 : n + step[n] <= N,
         NEW X, N \in X,
         \A n \in 0 .. N - 1 : n + step[n] \in X => n \in X
  PROVE  \A n \in 0 .. N : n \in X
<1> DEFINE Bad == {d \in Nat : d <= N /\ N - d \notin X}
<1>1. SUFFICES ASSUME Bad # {} PROVE FALSE
  <2>1. ASSUME NEW n \in 0 .. N, n \notin X PROVE Bad # {}
    <3>1. N - n \in Bad
      <4>1. N - n \in Nat /\ N - n <= N /\ N - (N - n) = n
        OBVIOUS
      <4>2. QED
        BY <2>1, <4>1
    <3>2. QED
      BY <3>1
  <2>2. QED
    BY <2>1
<1>2. PICK d \in Bad : \A e \in Bad : d <= e
  <2>1. Bad \in SUBSET Nat
    OBVIOUS
  <2> HIDE DEF Bad
  <2>2. QED
    BY <1>1, <2>1, Smallest
<1>3. d \in Nat /\ d <= N /\ N - d \notin X
  BY <1>2
<1>4. d # 0
  BY <1>3
<1>5. N - d \in 0 .. N - 1
  BY <1>3, <1>4
<1>6. N - d + step[N - d] \notin X
  BY <1>3, <1>5
<1> DEFINE e == d - step[N - d]
<1>7. step[N - d] \in Nat \ {0} /\ N - d + step[N - d] <= N
  BY <1>5
<1>8. e \in Nat /\ e < d /\ N - e = N - d + step[N - d]
  BY <1>3, <1>7
<1>9. e \in Bad
  BY <1>3, <1>6, <1>8
<1> HIDE DEF Bad, e
<1>10. QED
  BY <1>2, <1>3, <1>8, <1>9

\* A function that puts a piece in front of what it gives a step further on;
\* there is one.
InPieces(f, N, step, piece) ==
  f = [n \in 0 .. N |-> IF n = N THEN <<>> ELSE <<piece[n]>> \o f[n + step[n]]]

LEMMA PiecesExist ==
  ASSUME NEW N \in Nat, NEW step \in [0 .. N - 1 -> Nat \ {0}],
         \A n \in 0 .. N - 1 : n + step[n] <= N,
         NEW E, NEW piece \in [0 .. N - 1 -> E]
  PROVE  \E f : InPieces(f, N, step, piece)
<1> DEFINE Good(d, f) == \A n \in N - d .. N :
                            f[n] = IF n = N THEN <<>> ELSE <<piece[n]>> \o f[n + step[n]]
           Has(d) == \E f \in [N - d .. N -> Seq(E)] : Good(d, f)
           X == {d \in Nat : d <= N => Has(d)}
<1>1. 0 \in X
  <2> DEFINE f == [n \in N - 0 .. N |-> <<>>]
  <2>1. f \in [N - 0 .. N -> Seq(E)] /\ Good(0, f)
    OBVIOUS
  <2>2. QED
    BY <2>1
<1>2. ASSUME NEW d \in X PROVE d + 1 \in X
  <2>1. SUFFICES ASSUME d + 1 <= N
                 PROVE  \E g \in [N - (d + 1) .. N -> Seq(E)] : Good(d + 1, g)
    <3>1. d \in Nat
      OBVIOUS
    <3>2. (d + 1 <= N => Has(d + 1)) => d + 1 \in X
      <4> HIDE DEF Has
      <4>1. QED
        BY <3>1
    <3>3. QED
      BY <3>2
  <2>2. d \in Nat /\ d <= N
    BY <1>2, <2>1
  <2>3. PICK f \in [N - d .. N -> Seq(E)] : Good(d, f)
    <3>1. Has(d)
      <4> HIDE DEF Has
      <4>1. QED
        BY <1>2, <2>2
    <3>2. QED
      BY <3>1
  <2> DEFINE a == N - (d + 1)
             new == <<piece[a]>> \o f[a + step[a]]
             g == [n \in a .. N |-> IF n = a THEN new ELSE f[n]]
  <2>4. a \in 0 .. N - 1 /\ step[a] \in Nat \ {0} /\ a + step[a] <= N /\ piece[a] \in E
    BY <2>1, <2>2
  <2>5. a + step[a] \in N - d .. N
    BY <2>2, <2>4
  <2>6. f[a + step[a]] \in Seq(E)
    BY <2>3, <2>5
  <2>7. new \in Seq(E)
    BY <2>4, <2>6
  <2>8. \A n \in a .. N : n = a \/ n \in N - d .. N
    BY <2>2, <2>4
  <2> HIDE DEF new
  <2>9. g \in [a .. N -> Seq(E)]
    BY <2>3, <2>7, <2>8
  <2>10. \A n \in a .. N : g[n] = IF n = N THEN <<>> ELSE <<piece[n]>> \o g[n + step[n]]
    <3> TAKE n \in a .. N
    <3>1. CASE n = a
      <4>1. a # N /\ a + step[a] # a /\ a + step[a] \in a .. N
        BY <2>4
      <4>2. g[a + step[a]] = f[a + step[a]]
        BY <4>1
      <4>5. g[a] = new
        BY <2>4
      <4>3. QED
        BY <3>1, <4>1, <4>2, <4>5 DEF new
    <3>2. CASE n # a
      <4>1. n \in N - d .. N
        BY <2>8, <3>2
      <4>2. f[n] = IF n = N THEN <<>> ELSE <<piece[n]>> \o f[n + step[n]]
        BY <2>3, <4>1
      <4>3. CASE n = N
        BY <3>2, <4>2, <4>3
      <4>4. CASE n # N
        <5>1. n \in 0 .. N - 1 /\ n > a
          BY <2>2, <2>4, <3>2, <4>1, <4>4
        <5>2. n + step[n] <= N /\ step[n] \in Nat \ {0}
          BY <5>1
        <5>3. n + step[n] \in a .. N /\ n + step[n] # a
          <6> DEFINE s == step[n]
          <6>1. s \in Nat /\ s # 0 /\ n + s <= N /\ n \in Nat /\ n > a /\ a \in Nat /\ N \in Nat
            BY <2>4, <5>1, <5>2
          <6> HIDE DEF s, a
          <6>2. n + s \in a .. N /\ n + s # a
            BY <6>1
          <6>3. QED
            BY <6>2 DEF s
        <5>4. g[n + step[n]] = f[n + step[n]] /\ g[n] = f[n]
          BY <3>2, <5>3
        <5>5. QED
          BY <4>2, <4>4, <5>4
      <4>5. QED
        BY <4>3, <4>4
    <3>3. QED
      BY <3>1, <3>2
  <2> HIDE DEF g
  <2>11. QED
    BY <2>9, <2>10
<1>3. N \in X
  <2> HIDE DEF X
  <2>1. X \in SUBSET Nat
    BY DEF X
  <2>2. QED
    BY <1>1, <1>2, <2>1, Induct
<1>4. N - N = 0
  OBVIOUS
<1>5. PICK f \in [N - N .. N -> Seq(E)] : Good(N, f)
  <2>1. Has(N)
    <3> HIDE DEF Has
    <3>1. QED
      BY <1>3
  <2>2. QED
    BY <2>1
<1>6. QED
  BY <1>4, <1>5 DEF InPieces

\* The pieces are those at the positions from the first on, a step apart, up
\* to the end.
Positions(p, s, N, step, piece, n) ==
  /\ p \in Seq(0 .. N - 1) /\ Len(p) = Len(s)
  /\ n = N <=> p = <<>>
  /\ p # <<>> => p[1] = n
  /\ \A k \in 1 .. Len(p) :
        /\ s[k] = piece[p[k]]
        /\ p[k] + step[p[k]] = IF k < Len(p) THEN p[k + 1] ELSE N

LEMMA PiecesInOrder ==
  ASSUME NEW N \in Nat, NEW step \in [0 .. N - 1 -> Nat \ {0}],
         \A n \in 0 .. N - 1 : n + step[n] <= N,
         NEW E, NEW piece \in [0 .. N - 1 -> E],
         NEW F, InPieces(F, N, step, piece)
  PROVE  F[0] \in Seq(E) /\ \E p : Positions(p, F[0], N, step, piece, 0)
<1> DEFINE X == {n \in 0 .. N : F[n] \in Seq(E) /\ \E p : Positions(p, F[n], N, step, piece, n)}
<1>1. N \in X
  <2>1. N \in 0 .. N /\ <<>> \in Seq(E)
    OBVIOUS
  <2>a. F[N] = <<>>
    <3> HIDE DEF X
    <3>1. F[N] = IF N = N THEN <<>> ELSE <<piece[N]>> \o F[N + step[N]]
      BY <2>1, Zenon DEF InPieces
    <3>2. QED
      BY <3>1, Zenon
  <2>2. Positions(<<>>, <<>>, N, step, piece, N)
    BY DEF Positions
  <2>3. QED
    BY <2>1, <2>2, <2>a, Zenon
<1>2. ASSUME NEW n \in 0 .. N - 1, n + step[n] \in X PROVE n \in X
  <2> DEFINE m == n + step[n]
             s == F[m]
  <2>1. m \in 0 .. N /\ s \in Seq(E) /\ m > n
    BY <1>2
  <2>2. PICK p : Positions(p, s, N, step, piece, m)
    BY <1>2
  <2>3. p \in Seq(0 .. N - 1) /\ Len(p) = Len(s) /\ Len(p) \in Nat
    BY <2>2 DEF Positions
  <2>4. n # N /\ n \in 0 .. N /\ F[n] = <<piece[n]>> \o s
    <3>1. n # N /\ n \in 0 .. N
      OBVIOUS
    <3> HIDE DEF X
    <3>2. F[n] = IF n = N THEN <<>> ELSE <<piece[n]>> \o F[n + step[n]]
      BY <3>1, Zenon DEF InPieces
    <3>3. QED
      BY <3>1, <3>2, Zenon
  <2>5. piece[n] \in E
    OBVIOUS
  <2> DEFINE q == <<n>> \o p
             r == <<piece[n]>> \o s
  <2>6. /\ q \in Seq(0 .. N - 1) /\ Len(q) = Len(p) + 1
        /\ \A k \in 1 .. Len(p) + 1 : q[k] = IF k = 1 THEN n ELSE p[k - 1]
    BY <2>3, InFront
  <2>7. /\ r \in Seq(E) /\ Len(r) = Len(s) + 1
        /\ \A k \in 1 .. Len(s) + 1 : r[k] = IF k = 1 THEN piece[n] ELSE s[k - 1]
    BY <2>1, <2>5, InFront
  <2>8. n + step[n] = m
    OBVIOUS
  <2> HIDE DEF q, r, m, s
  <2>9. \A k \in 1 .. Len(q) :
           /\ r[k] = piece[q[k]]
           /\ q[k] + step[q[k]] = IF k < Len(q) THEN q[k + 1] ELSE N
    <3> TAKE k \in 1 .. Len(q)
    <3>1. k \in 1 .. Len(p) + 1 /\ k \in 1 .. Len(s) + 1 /\ k \in Nat
      BY <2>3, <2>6
    <3>2. CASE k = 1
      <4>1. q[1] = n /\ r[1] = piece[n]
        BY <2>6, <2>7, <3>1, <3>2
      <4>2. CASE p = <<>>
        <5>1. m = N /\ Len(p) = 0 /\ Len(q) = 1
          BY <2>2, <2>6, <4>2 DEF Positions
        <5>2. QED
          BY <2>8, <3>2, <4>1, <5>1
      <4>3. CASE p # <<>>
        <5>1. p[1] = m /\ Len(p) > 0
          BY <2>2, <2>3, <4>3, EmptySeq DEF Positions
        <5>2. q[2] = p[1] /\ Len(q) > 1
          <6>1. 2 \in 1 .. Len(p) + 1
            BY <2>3, <5>1
          <6>2. q[2] = p[2 - 1]
            BY <2>6, <6>1
          <6>3. QED
            BY <2>3, <2>6, <5>1, <6>2
        <5>3. QED
          BY <2>8, <3>2, <4>1, <5>1, <5>2
      <4>4. QED
        BY <4>2, <4>3
    <3>3. CASE k # 1
      <4> DEFINE j == k - 1
      <4>1. j \in 1 .. Len(p) /\ q[k] = p[j] /\ r[k] = s[j] /\ j + 1 = k
        <5>1. j \in 1 .. Len(p) /\ j + 1 = k
          BY <2>3, <3>1, <3>3
        <5>2. q[k] = p[k - 1] /\ r[k] = s[k - 1]
          BY <2>6, <2>7, <3>1, <3>3
        <5>3. QED
          BY <5>1, <5>2
      <4> HIDE DEF j
      <4>2. s[j] = piece[p[j]] /\ p[j] + step[p[j]] = IF j < Len(p) THEN p[j + 1] ELSE N
        BY <2>2, <4>1 DEF Positions
      <4>3. CASE j < Len(p)
        <5>1. k < Len(q) /\ k + 1 \in 1 .. Len(p) + 1 /\ k + 1 # 1
          <6> DEFINE lp == Len(p)
                     lq == Len(q)
          <6>1. lp \in Nat /\ lq = lp + 1 /\ j \in 1 .. lp /\ j + 1 = k /\ j < lp
            BY <2>3, <2>6, <4>1, <4>3
          <6> HIDE DEF lp, lq
          <6>2. k < lq /\ k + 1 \in 1 .. lp + 1 /\ k + 1 # 1
            BY ONLY <6>1
          <6>3. QED
            BY <6>2 DEF lp, lq
        <5>2. q[k + 1] = p[k]
          <6>1. q[k + 1] = p[(k + 1) - 1]
            BY <2>6, <5>1
          <6>2. QED
            BY <3>1, <6>1
        <5>3. QED
          BY <4>1, <4>2, <4>3, <5>1, <5>2
      <4>4. CASE ~(j < Len(p))
        <5>1. ~(k < Len(q))
          BY <2>3, <2>6, <3>1, <4>1, <4>4
        <5>2. QED
          BY <4>1, <4>2, <4>4, <5>1
      <4>5. QED
        BY <4>3, <4>4
    <3>4. QED
      BY <3>2, <3>3
  <2>10. q # <<>> /\ q[1] = n
    <3>1. Len(q) # 0 /\ 1 \in 1 .. Len(p) + 1
      BY <2>3, <2>6
    <3>2. QED
      BY <2>6, <3>1
  <2>11. Positions(q, r, N, step, piece, n)
    BY <2>3, <2>4, <2>6, <2>7, <2>9, <2>10 DEF Positions
  <2>12. QED
    BY <2>4, <2>7, <2>11 DEF r
<1>3. \A n \in 0 .. N : n \in X
  <2> HIDE DEF X
  <2>1. QED
    BY <1>1, <1>2, Downwards
<1>4. QED
  BY <1>3

-----------------------------------------------------------------------------
(* Quotients and remainders.                                               *)

\* Quotient and remainder.
LEMMA DivMod ==
  ASSUME NEW a \in Nat, NEW s \in Nat \ {0}
  PROVE  a = s * (a \div s) + (a % s) /\ a % s \in 0 .. (s - 1) /\ a \div s \in Nat
OBVIOUS

\* A number written with a quotient and a remainder has that remainder.
LEMMA ModUnique ==
  ASSUME NEW a \in Nat, NEW s \in Nat \ {0}, NEW k \in Nat, NEW r \in 0 .. (s - 1),
         a = s * k + r
  PROVE  a % s = r
OBVIOUS

\* It also has that quotient.
LEMMA DivUnique ==
  ASSUME NEW a \in Nat, NEW s \in Nat \ {0}, NEW k \in Nat, NEW r \in 0 .. (s - 1),
         a = s * k + r
  PROVE  a \div s = k
OBVIOUS

\* to find the slot of the smaller.
LEMMA ModMod ==
  ASSUME NEW m \in Nat \ {0}, NEW s \in Nat \ {0}, m % s = 0, NEW a \in Nat
  PROVE  (a % m) % s = a % s
<1> DEFINE q == a \div m
           l == m \div s
           b == a % m
           t == b \div s
           r == b % s
<1>1. a = m * q + b /\ q \in Nat /\ b \in Nat
  BY DivMod
<1>2. m = s * l /\ l \in Nat
  BY DivMod
<1>3. b = s * t + r /\ t \in Nat /\ r \in 0 .. (s - 1)
  BY <1>1, DivMod
<1>4. l * q \in Nat /\ l * q + t \in Nat
  BY <1>1, <1>2, <1>3
<1>5. m * q = s * (l * q)
  BY <1>1, <1>2
<1>6. s * (l * q + t) = s * (l * q) + s * t
  BY <1>3, <1>4
<1>7. a = s * (l * q + t) + r
  BY <1>1, <1>3, <1>5, <1>6
<1> HIDE DEF q, l, t, r, b
<1>8. a % s = r
  BY <1>3, <1>4, <1>7, ModUnique
<1>9. QED
  BY <1>8 DEF r, b

-----------------------------------------------------------------------------
(* Counting the elements of a sequence that carry an id.                   *)

At(s, id) == {i \in DOMAIN s : s[i].id = id}
Count(s, id) == Cardinality(At(s, id))
One(e, id) == IF e.id = id THEN 1 ELSE 0

LEMMA CountType ==
  ASSUME NEW E, NEW s \in Seq(E), NEW id
  PROVE  IsFiniteSet(At(s, id)) /\ Count(s, id) \in Nat
<1>1. IsFiniteSet(1 .. Len(s))
  BY FS_Interval, LenProperties
<1>2. At(s, id) \in SUBSET (1 .. Len(s))
  BY LenProperties DEF At
<1>3. QED
  BY <1>1, <1>2, FS_Subset, FS_CardinalityType DEF Count

LEMMA CountEmpty == ASSUME NEW id PROVE Count(<<>>, id) = 0
  BY FS_EmptySet DEF Count, At

LEMMA CountAppend ==
  ASSUME NEW E, NEW s \in Seq(E), NEW e \in E, NEW id
  PROVE  Count(Append(s, e), id) = Count(s, id) + One(e, id)
<1>1. At(Append(s, e), id) = IF e.id = id THEN At(s, id) \cup {Len(s) + 1} ELSE At(s, id)
  BY DEF At
<1>2. ~(Len(s) + 1 \in At(s, id))
  BY DEF At
<1>3. IsFiniteSet(At(s, id)) /\ Count(s, id) \in Nat
  BY CountType
<1>4. Cardinality(At(s, id) \cup {Len(s) + 1}) = Count(s, id) + 1
  BY <1>2, <1>3, FS_AddElement DEF Count
<1>5. QED
  BY <1>1, <1>3, <1>4 DEF Count, One

LEMMA CountSingle ==
  ASSUME NEW E, NEW e \in E, NEW id
  PROVE  Count(<<e>>, id) = One(e, id)
<1>1. <<>> \in Seq(E) /\ Append(<<>>, e) = <<e>>
  OBVIOUS
<1>2. One(e, id) \in Nat
  BY DEF One
<1>3. Count(Append(<<>>, e), id) = Count(<<>>, id) + One(e, id)
  BY <1>1, CountAppend
<1>4. QED
  BY <1>1, <1>2, <1>3, CountEmpty

LEMMA CountTail ==
  ASSUME NEW E, NEW s \in Seq(E), s # <<>>, NEW id
  PROVE  Count(s, id) = Count(Tail(s), id) + One(Head(s), id)
<1> DEFINE A == At(s, id) \ {1}
           B == At(Tail(s), id)
           f == [i \in B |-> i + 1]
<1>1. Tail(s) \in Seq(E) /\ Len(Tail(s)) = Len(s) - 1 /\ Len(s) \in Nat /\ Len(s) >= 1
  BY HeadTailProperties, LenProperties
<1>2. \A i \in 1 .. Len(s) - 1 : Tail(s)[i] = s[i + 1]
  BY HeadTailProperties
<1>3. B = {i \in 1 .. Len(s) - 1 : s[i + 1].id = id} /\ A = {i \in 2 .. Len(s) : s[i].id = id}
  BY <1>1, <1>2 DEF At
<1>4. f \in Bijection(B, A)
  <2>1. f \in [B -> A]
    BY <1>1, <1>3
  <2>2. \A a, b \in B : f[a] = f[b] => a = b
    BY <1>3
  <2>3. \A t \in A : \E b \in B : f[b] = t
    <3> TAKE t \in A
    <3>1. t - 1 \in B /\ f[t - 1] = t
      BY <1>1, <1>3
    <3>2. QED
      BY <3>1
  <2> HIDE DEF f, A, B
  <2>4. QED
    BY <2>1, <2>2, <2>3, Fun_IsBij, Fun_IsInj, Fun_IsSurj DEF IsInjective
<1>5. Cardinality(A) = Cardinality(B)
  <2>1. IsFiniteSet(B)
    BY <1>1, CountType
  <2> HIDE DEF f, A, B
  <2>2. QED
    BY <1>4, <2>1, FS_Bijection DEF ExistsBijection
<1>6. 1 \in At(s, id) <=> Head(s).id = id
  BY <1>1 DEF At
<1>7. IsFiniteSet(At(s, id)) /\ Count(s, id) \in Nat
  BY CountType
<1>8. Cardinality(A) = IF 1 \in At(s, id) THEN Count(s, id) - 1 ELSE Count(s, id)
  BY <1>7, FS_RemoveElement DEF Count
<1>9. Cardinality(A) = Count(Tail(s), id)
  BY <1>5 DEF Count
<1> HIDE DEF A, B, f
<1>10. QED
  BY <1>6, <1>7, <1>8, <1>9 DEF One

-----------------------------------------------------------------------------
(* PcieIfDevice: what its variables hold.                                  *)

Kinds == {"MRd", "MWr", "IO", "Cpl", "Cfg0", "Cfg1"}

\* A TLP from the host has an id exactly when it wants an answer.
Tlp == {t \in [kind : Kinds, tgt : Int, id : V!Ids \cup {V!None}] :
          t.kind \in V!NonPosted <=> t.id # V!None}
Frame == [kind : V!Tx, id : V!Ids \cup {V!None}, seq : Int]

\* The variables of the device, the link, the host and the user; a coroutine
\* sends one frame at a time.
VTypeOK ==
  /\ open \subseteq V!Ids /\ owing \in Int /\ credit \in Int
  /\ down \in Seq(Tlp)
  /\ reply \in Seq(Frame) /\ Len(reply) <= 1
  /\ rxq \in [req : Seq(Tlp), cpl : Seq(Tlp)]
  /\ rx_bus \in [req : Seq(Tlp), cpl : Seq(Tlp)]
  /\ user \in Seq(V!Ids)
  /\ sink \in [V!Tx -> Seq(Frame)]
  /\ busy \in [V!Tx -> Seq(Frame)] /\ \A k \in V!Tx : Len(busy[k]) <= 1
  /\ fc \in [{"P", "NP", "CPL"} -> Int]
  /\ up \in Seq(Frame)
  /\ seqq \in [V!Numbered -> Seq(Int)] /\ owed \in [V!Numbered -> Seq(Int)]

LEMMA DeviceConstants ==
  /\ HostTlps \subseteq [kind : Kinds, tgt : 0 .. PfCount]
  /\ UserKinds \subseteq {"rd", "wr", "msi"}
  /\ PfCount \in Nat /\ HostMax \in Nat \ {0} /\ RxCredits \in Nat \ {0} /\ TxCredits \in Nat \ {0}
  /\ BusCap \in Nat /\ UserCap \in Nat /\ UserRequests \in Nat \ {0} /\ SeqPorts \in Nat \ {0}
BY PartsAssumption DEF V!DeviceAssumption, Kinds

\* With fewer numbers under way than there are, one is free.
LEMMA NumberFree ==
  ASSUME NEW q \in Seq(Int), NEW n \in Nat, Len(q) < n
  PROVE  \E s \in 0 .. n : \A i \in DOMAIN q : q[i] # s
<1> DEFINE D == 1 .. Len(q)
           I == {q[i] : i \in D}
<1>1. Len(q) \in Nat /\ DOMAIN q = D
  OBVIOUS
<1>2. IsFiniteSet(D) /\ Cardinality(D) = Len(q)
  <2>1. 1 \in Int /\ Len(q) \in Int
    BY <1>1
  <2>2. IsFiniteSet(D) /\ Cardinality(D) = IF 1 > Len(q) THEN 0 ELSE Len(q) - 1 + 1
    BY <2>1, FS_Interval
  <2>3. QED
    BY <1>1, <2>2
<1>3. IsFiniteSet(I) /\ Cardinality(I) <= Len(q)
  <2>1. \A x \in D : q[x] \in I
    OBVIOUS
  <2>2. [i \in D |-> q[i]] \in Surjection(D, I)
    BY <2>1, Fun_IsSurj
  <2>3. QED
    BY <1>2, <2>2, FS_Surjection DEF ExistsSurjection
<1>4. IsFiniteSet(0 .. n) /\ Cardinality(0 .. n) = n + 1
  BY FS_Interval
<1>5. ~(0 .. n \subseteq I)
  <2>1. ASSUME 0 .. n \subseteq I PROVE FALSE
    <3>1. Cardinality(0 .. n) <= Cardinality(I)
      BY <1>3, <2>1, FS_Subset
    <3>2. Cardinality(I) \in Nat
      BY <1>3, FS_CardinalityType
    <3>3. QED
      BY <1>1, <1>3, <1>4, <3>1, <3>2
  <2>2. QED
    BY <2>1
<1>6. QED
  BY <1>1, <1>5

LEMMA DeviceTypesInit == V!Init => VTypeOK
<1>1. <<>> \in Seq(Tlp) /\ <<>> \in Seq(Frame) /\ <<>> \in Seq(V!Ids) /\ <<>> \in Seq(Int) /\ Len(<<>>) = 0
  OBVIOUS
<1> HIDE DEF Tlp, Frame, V!Ids
<1>2. QED
  BY <1>1, DeviceConstants DEF V!Init, VTypeOK, V!Tx, V!Numbered

LEMMA DeviceTypesNext == VTypeOK /\ [V!Next]_(V!vars) => VTypeOK'
<1> SUFFICES ASSUME VTypeOK, [V!Next]_(V!vars) PROVE VTypeOK'
  OBVIOUS
<1>0. /\ HostMax \in Nat /\ V!None = -1 /\ V!Ids = 0 .. HostMax - 1
      /\ \A k \in V!Tx : V!Class[k] \in {"P", "NP", "CPL"}
  BY DeviceConstants DEF V!None, V!Ids, V!Tx, V!Class
<1>1. ASSUME NEW t \in HostTlps, V!HostSend(t) PROVE VTypeOK'
  <2> DEFINE id == IF t.kind \in V!NonPosted THEN CHOOSE i \in V!Free : TRUE ELSE V!None
  <2>1. id \in V!Ids \cup {V!None} /\ (t.kind \in V!NonPosted <=> id # V!None)
    BY <1>0, <1>1 DEF V!HostSend, V!Free
  <2>2. t.kind \in Kinds /\ t.tgt \in Int
    BY DeviceConstants
  <2>3. [kind |-> t.kind, tgt |-> t.tgt, id |-> id] \in Tlp
    BY <2>1, <2>2 DEF Tlp
  <2>4. open' = open \cup ({id} \ {V!None})
    BY <1>1 DEF V!HostSend
  <2>5. down' = Append(down, [kind |-> t.kind, tgt |-> t.tgt, id |-> id])
    BY <1>1 DEF V!HostSend
  <2> HIDE DEF id
  <2>6. QED
    BY <1>1, <2>1, <2>3, <2>4, <2>5 DEF V!HostSend, V!txVars, VTypeOK
<1>2. CASE V!HostComplete
  <2>1. [kind |-> "Cpl", tgt |-> 0, id |-> V!None] \in Tlp
    BY DEF Tlp, Kinds, V!NonPosted
  <2>2. QED
    BY <1>2, <2>1 DEF V!HostComplete, V!txVars, VTypeOK
<1>3. CASE V!HostTake
  <2>1. Head(up) \in Frame
    BY <1>3 DEF V!HostTake, VTypeOK
  <2>2. Head(up).kind \in V!Tx
    BY <2>1 DEF Frame
  <2>3. fc' = [fc EXCEPT ![V!Class[Head(up).kind]] = @ + 1] /\ V!Class[Head(up).kind] \in {"P", "NP", "CPL"}
    BY <1>0, <1>3, <2>2 DEF V!HostTake
  <2>4. \A c \in {"P", "NP", "CPL"} : fc[c] + 1 \in Int
    BY DEF VTypeOK
  <2>5. fc' \in [{"P", "NP", "CPL"} -> Int]
    BY <2>3, <2>4 DEF VTypeOK
  <2>6. up' = Tail(up) /\ up # <<>> /\ up \in Seq(Frame)
    BY <1>3 DEF V!HostTake, VTypeOK
  <2>7. up' \in Seq(Frame)
    BY ONLY <2>6, HeadTailProperties
  <2>8. QED
    BY <1>3, <2>5, <2>7, SMTT(30) DEF V!HostTake, VTypeOK
<1>4. CASE V!UpstreamRecv
  <2>1. PICK t \in {Head(down)} :
           /\ down' = Tail(down)
           /\ credit' = credit + V!Released(t)
           /\ reply' = IF V!Route(t) \in {"function", "ur"}
                       THEN <<[kind |-> "cpl", id |-> t.id, seq |-> 0]>> ELSE <<>>
           /\ rxq' = IF V!Route(t) \in {"req", "cpl"} THEN [rxq EXCEPT ![V!Route(t)] = Append(@, t)] ELSE rxq
    BY <1>4 DEF V!UpstreamRecv
  <2>2. t \in Tlp
    BY <1>4, <2>1 DEF V!UpstreamRecv, VTypeOK
  <2>3. [kind |-> "cpl", id |-> t.id, seq |-> 0] \in Frame
    BY <2>2 DEF Frame, Tlp, V!Tx
  <2>4. reply' \in Seq(Frame) /\ Len(reply') <= 1
    BY <2>1, <2>3
  <2>5. rxq' \in [req : Seq(Tlp), cpl : Seq(Tlp)]
    <3>1. rxq.req \in Seq(Tlp) /\ rxq.cpl \in Seq(Tlp)
      BY DEF VTypeOK
    <3>2. Append(rxq.req, t) \in Seq(Tlp) /\ Append(rxq.cpl, t) \in Seq(Tlp)
      BY <2>2, <3>1
    <3>3. QED
      BY <2>1, <3>1, <3>2 DEF VTypeOK
  <2>6. QED
    BY <1>4, <2>1, <2>4, <2>5 DEF V!UpstreamRecv, V!Released, V!txVars, VTypeOK
<1>5. CASE V!SendReply
  <2>1. reply[1] \in Frame
    BY <1>5 DEF V!SendReply, VTypeOK
  <2>2. up' \in Seq(Frame) /\ reply' \in Seq(Frame) /\ Len(reply') <= 1
    BY <1>5, <2>1 DEF V!SendReply, VTypeOK
  <2>3. fc' \in [{"P", "NP", "CPL"} -> Int]
    BY <1>5 DEF V!SendReply, VTypeOK
  <2>4. QED
    BY <1>5, <2>2, <2>3 DEF V!SendReply, VTypeOK
<1>6. ASSUME NEW q \in {"req", "cpl"}, V!RunRx(q) PROVE VTypeOK'
  <2>1. Head(rxq[q]) \in Tlp /\ rxq[q] \in Seq(Tlp) /\ rx_bus[q] \in Seq(Tlp) /\ rxq[q] # <<>>
    BY <1>6 DEF V!RunRx, VTypeOK
  <2>2. Append(rx_bus[q], Head(rxq[q])) \in Seq(Tlp) /\ Tail(rxq[q]) \in Seq(Tlp)
    BY <2>1
  <2>3. QED
    BY <1>6, <2>2 DEF V!RunRx, V!txVars, VTypeOK
<1>7. CASE V!UserTake
  <2>1. Head(rx_bus.req) \in Tlp /\ Tail(rx_bus.req) \in Seq(Tlp)
    BY <1>7 DEF V!UserTake, VTypeOK
  <2>2. Head(rx_bus.req).id \in V!Ids \cup {V!None}
    BY <2>1 DEF Tlp
  <2>3. user' \in Seq(V!Ids)
    BY <1>7, <2>2 DEF V!UserTake, VTypeOK
  <2>4. QED
    BY <1>7, <2>1, <2>3 DEF V!UserTake, V!rxVars, V!txVars, VTypeOK
<1>8. CASE V!UserTakeCpl
  <2>1. Tail(rx_bus.cpl) \in Seq(Tlp)
    BY <1>8 DEF V!UserTakeCpl, VTypeOK
  <2>2. QED
    BY <1>8, <2>1 DEF V!UserTakeCpl, V!rxVars, V!txVars, VTypeOK
<1>9. CASE V!UserAnswer
  <2>1. Head(user) \in V!Ids /\ Tail(user) \in Seq(V!Ids)
    BY <1>9 DEF V!UserAnswer, VTypeOK
  <2>2. [kind |-> "cpl", id |-> Head(user), seq |-> 0] \in Frame
    BY <2>1 DEF Frame, V!Tx
  <2>3. "cpl" \in V!Tx
    BY DEF V!Tx
  <2>4. QED
    BY <1>9, <2>1, <2>2, <2>3, SMTT(30) DEF V!UserAnswer, V!rxVars, VTypeOK
<1>10. ASSUME NEW k \in UserKinds, V!UserRequest(k) PROVE VTypeOK'
  <2>1. PICK s \in {IF k \in V!Numbered THEN V!NextSeq(k) ELSE 0} :
          /\ sink' = [sink EXCEPT ![k] = Append(@, [kind |-> k, id |-> V!None, seq |-> s])]
          /\ owed' = IF k \in V!Numbered THEN [owed EXCEPT ![k] = Append(@, s)] ELSE owed
    BY <1>10 DEF V!UserRequest
  <2>2. k \in V!Tx
    BY DeviceConstants DEF V!Tx
  <2>3. s \in Int
    <3>1. CASE k \in V!Numbered
      <4>1. owed[k] \in Seq(Int) /\ Len(owed[k]) < UserRequests /\ UserRequests \in Nat
        BY <1>10, <3>1, DeviceConstants DEF V!UserRequest, VTypeOK
      <4>2. \E n \in 0 .. UserRequests : \A i \in DOMAIN owed[k] : owed[k][i] # n
        BY <4>1, NumberFree
      <4>3. V!NextSeq(k) \in 0 .. UserRequests
        BY <4>2 DEF V!NextSeq
      <4>4. QED
        BY <2>1, <3>1, <4>3
    <3>2. QED
      BY <2>1, <3>1
  <2>4. [kind |-> k, id |-> V!None, seq |-> s] \in Frame
    BY <2>2, <2>3 DEF Frame
  <2>5. QED
    BY <1>10, <2>1, <2>2, <2>3, <2>4, SMTT(30) DEF V!UserRequest, V!rxVars, VTypeOK
<1>11. ASSUME NEW k \in V!Tx, V!TakeFrame(k) PROVE VTypeOK'
  <2>1. Head(sink[k]) \in Frame /\ Tail(sink[k]) \in Seq(Frame)
    BY <1>11 DEF V!TakeFrame, VTypeOK
  <2>2. <<Head(sink[k])>> \in Seq(Frame) /\ Len(<<Head(sink[k])>>) = 1
    BY <2>1
  <2>3. QED
    BY <1>11, <2>1, <2>2, SMTT(30) DEF V!TakeFrame, V!rxVars, VTypeOK
<1>12. ASSUME NEW k \in V!Tx, V!SendFrame(k) PROVE VTypeOK'
  <2>1. busy[k][1] \in Frame
    BY <1>12 DEF V!SendFrame, VTypeOK
  <2>2. busy[k][1].seq \in Int
    BY <2>1 DEF Frame
  <2>3. <<>> \in Seq(Frame) /\ Len(<<>>) = 0
    OBVIOUS
  <2>4. seqq' \in [V!Numbered -> Seq(Int)]
    BY <1>12, <2>2, SMTT(30) DEF V!SendFrame, VTypeOK
  <2>5. up' \in Seq(Frame)
    BY <1>12, <2>1 DEF V!SendFrame, VTypeOK
  <2>6. busy' \in [V!Tx -> Seq(Frame)] /\ \A j \in V!Tx : Len(busy'[j]) <= 1
    BY <1>12, <2>3, SMTT(30) DEF V!SendFrame, VTypeOK
  <2>7. fc' \in [{"P", "NP", "CPL"} -> Int]
    <3>1. fc' = [fc EXCEPT ![V!Class[k]] = @ - 1] /\ V!Class[k] \in {"P", "NP", "CPL"}
      BY <1>0, <1>12 DEF V!SendFrame
    <3>2. \A c \in {"P", "NP", "CPL"} : fc[c] - 1 \in Int
      BY DEF VTypeOK
    <3>3. QED
      BY <3>1, <3>2 DEF VTypeOK
  <2>8. QED
    BY <1>12, <2>4, <2>5, <2>6, <2>7 DEF V!SendFrame, V!rxVars, VTypeOK
<1>13. ASSUME NEW k \in V!Numbered, V!ReportSeq(k) PROVE VTypeOK'
  <2>1. V!Taken(k) \in Nat
    BY DeviceConstants DEF V!Taken, VTypeOK
  <2>2. \A q \in Seq(Int) : SubSeq(q, V!Taken(k) + 1, Len(q)) \in Seq(Int)
    BY <2>1
  <2>3. QED
    BY <1>13, <2>2 DEF V!ReportSeq, V!rxVars, VTypeOK
<1>14. CASE UNCHANGED V!vars
  BY <1>14 DEF V!vars, VTypeOK
<1>15. QED
  BY <1>1, <1>2, <1>3, <1>4, <1>5, <1>6, <1>7, <1>8, <1>9, <1>10, <1>11, <1>12, <1>13, <1>14 DEF V!Next

-----------------------------------------------------------------------------
(* PcieIfDevice: its books.                                                *)

\* The user's requests, as records that carry an id.
Recs(s) == [i \in 1 .. Len(s) |-> [id |-> s[i]]]

LEMMA RecsSteps ==
  ASSUME NEW E, NEW s \in Seq(E)
  PROVE  /\ Recs(s) \in Seq([id : E])
         /\ \A e \in E : Recs(Append(s, e)) = Append(Recs(s), [id |-> e])
         /\ s # <<>> => /\ Recs(s) # <<>> /\ Head(Recs(s)) = [id |-> Head(s)]
                        /\ Recs(Tail(s)) = Tail(Recs(s))
<1>1. Recs(s) \in Seq([id : E]) /\ Len(Recs(s)) = Len(s)
  BY DEF Recs
<1>2. ASSUME NEW e \in E PROVE Recs(Append(s, e)) = Append(Recs(s), [id |-> e])
  BY <1>1 DEF Recs
<1>3. ASSUME s # <<>>
      PROVE  /\ Recs(s) # <<>> /\ Head(Recs(s)) = [id |-> Head(s)]
             /\ Recs(Tail(s)) = Tail(Recs(s))
  BY <1>1, <1>3 DEF Recs
<1>4. QED
  BY <1>1, <1>2, <1>3


\* The answers and duties to answer for a request, by place.
Places(id) ==
  Count(down, id) + Count(reply, id) + Count(rxq.req, id) + Count(rx_bus.req, id)
  + Count(Recs(user), id) + Count(sink["cpl"], id) + Count(busy["cpl"], id) + Count(up, id)

\* PcieIfDevice's cardinality is everybody's.
LEMMA SameCardinality == \A s : V!Cardinality(s) = Cardinality(s)
BY DEF V!Cardinality, Cardinality

LEMMA HoldersArePlaces == VTypeOK => \A id : V!Holders(id) = Places(id)
<1> SUFFICES ASSUME VTypeOK, NEW id PROVE V!Holders(id) = Places(id)
  OBVIOUS
<1>1. {i \in DOMAIN user : user[i] = id} = At(Recs(user), id)
  BY DEF Recs, At, VTypeOK
<1>2. V!Holders(id) =
        Cardinality(At(down, id)) + Cardinality(At(reply, id)) + Cardinality(At(rxq.req, id))
        + Cardinality(At(rx_bus.req, id)) + Cardinality({i \in DOMAIN user : user[i] = id})
        + Cardinality(At(sink["cpl"], id)) + Cardinality(At(busy["cpl"], id)) + Cardinality(At(up, id))
  BY SameCardinality DEF V!Holders, At
<1>3. QED
  BY <1>1, <1>2 DEF Count, Places

LEMMA HoldersArePlacesNext == (VTypeOK => \A id : V!Holders(id) = Places(id))'
BY HoldersArePlaces, PTL

\* All the counts are numbers.
LEMMA CountsAreNat ==
  ASSUME VTypeOK, NEW id
  PROVE  /\ Count(down, id) \in Nat /\ Count(reply, id) \in Nat /\ Count(rxq.req, id) \in Nat
         /\ Count(rx_bus.req, id) \in Nat /\ Count(Recs(user), id) \in Nat
         /\ Count(sink["cpl"], id) \in Nat /\ Count(busy["cpl"], id) \in Nat /\ Count(up, id) \in Nat
<1>1. /\ rxq.req \in Seq(Tlp) /\ rx_bus.req \in Seq(Tlp)
      /\ sink["cpl"] \in Seq(Frame) /\ busy["cpl"] \in Seq(Frame)
      /\ Recs(user) \in Seq([id : V!Ids])
  BY RecsSteps DEF VTypeOK, V!Tx
<1>2. QED
  BY <1>1, CountType DEF VTypeOK

\* A sequence of at most one frame is empty or that frame.
LEMMA OneFrame ==
  ASSUME NEW E, NEW s \in Seq(E), Len(s) <= 1, s # <<>>, NEW id
  PROVE  s[1] \in E /\ Count(s, id) = One(s[1], id)
<1>1. Len(s) = 1 /\ s[1] \in E
  <2> DEFINE n == Len(s)
  <2>1. n \in Nat /\ n # 0 /\ n <= 1
    BY LenProperties, EmptySeq
  <2> HIDE DEF n
  <2>2. n = 1
    BY ONLY <2>1
  <2>3. QED
    BY <2>2, ElementOfSeq DEF n
<1>2. <<s[1]>> \in Seq(E) /\ Len(<<s[1]>>) = 1 /\ <<s[1]>>[1] = s[1]
  BY <1>1
<1>3. s = <<s[1]>>
  BY <1>1, <1>2, SeqEqual
<1>4. QED
  BY <1>1, <1>3, CountSingle

\* Only the user's completions answer anything.
Unasked ==
  \A k \in V!Tx \ {"cpl"} :
    /\ \A i \in DOMAIN sink[k] : sink[k][i].id = V!None
    /\ \A i \in DOMAIN busy[k] : busy[k][i].id = V!None

LEMMA UnaskedInit == V!Init => Unasked
BY DEF V!Init, Unasked, V!Tx

LEMMA UnaskedNext ==
  ASSUME VTypeOK, VTypeOK', Unasked, [V!Next]_(V!vars)
  PROVE  Unasked'
<1>1. CASE UNCHANGED <<sink, busy>>
  BY <1>1 DEF Unasked
<1>2. CASE V!UserAnswer
  <2>1. busy' = busy /\ \A k \in V!Tx \ {"cpl"} : sink'[k] = sink[k]
    BY <1>2 DEF V!UserAnswer, VTypeOK
  <2>2. QED
    BY <2>1 DEF Unasked
<1>3. ASSUME NEW k \in UserKinds, V!UserRequest(k) PROVE Unasked'
  <2>1. PICK s : sink' = [sink EXCEPT ![k] = Append(@, [kind |-> k, id |-> V!None, seq |-> s])]
    BY <1>3 DEF V!UserRequest
  <2>2. busy' = busy /\ k \in V!Tx
    BY <1>3, DeviceConstants DEF V!UserRequest, V!rxVars, V!Tx
  <2>3. sink[k] \in Seq(Frame)
    BY <2>2 DEF VTypeOK
  <2> DEFINE f == [kind |-> k, id |-> V!None, seq |-> s]
  <2>4. f.id = V!None
    OBVIOUS
  <2>5. \A j \in V!Tx : sink'[j] = IF j = k THEN Append(sink[k], f) ELSE sink[j]
    BY <2>1 DEF VTypeOK
  <2> HIDE DEF f
  <2>6. \A i \in DOMAIN Append(sink[k], f) :
           Append(sink[k], f)[i] = IF i \in DOMAIN sink[k] THEN sink[k][i] ELSE f
    BY <2>3
  <2>7. ASSUME NEW j \in V!Tx \ {"cpl"}, NEW i \in DOMAIN sink'[j] PROVE sink'[j][i].id = V!None
    <3>1. CASE j = k
      <4>1. sink'[j] = Append(sink[k], f)
        BY <2>5, <3>1
      <4>2. sink'[j][i] = IF i \in DOMAIN sink[k] THEN sink[k][i] ELSE f
        BY <2>6, <4>1
      <4>3. QED
        BY <2>4, <3>1, <4>2 DEF Unasked
    <3>2. CASE j # k
      BY <2>5, <3>2 DEF Unasked
    <3>3. QED
      BY <3>1, <3>2
  <2>8. QED
    BY <2>2, <2>7 DEF Unasked
<1>4. ASSUME NEW k \in V!Tx, V!TakeFrame(k) PROVE Unasked'
  <2>1. sink[k] \in Seq(Frame) /\ sink[k] # <<>>
    BY <1>4 DEF V!TakeFrame, VTypeOK
  <2>2. \A j \in V!Tx : /\ sink'[j] = IF j = k THEN Tail(sink[k]) ELSE sink[j]
                        /\ busy'[j] = IF j = k THEN <<Head(sink[k])>> ELSE busy[j]
    BY <1>4 DEF V!TakeFrame, VTypeOK
  <2>3. /\ Head(sink[k]) = sink[k][1] /\ 1 \in DOMAIN sink[k]
        /\ \A i \in DOMAIN Tail(sink[k]) : i + 1 \in DOMAIN sink[k] /\ Tail(sink[k])[i] = sink[k][i + 1]
    BY <2>1
  <2>4. DOMAIN <<Head(sink[k])>> = {1} /\ <<Head(sink[k])>>[1] = Head(sink[k])
    OBVIOUS
  <2>5. ASSUME NEW j \in V!Tx \ {"cpl"}
        PROVE  /\ \A i \in DOMAIN sink'[j] : sink'[j][i].id = V!None
               /\ \A i \in DOMAIN busy'[j] : busy'[j][i].id = V!None
    <3>1. CASE j = k
      <4>1. sink'[j] = Tail(sink[k]) /\ busy'[j] = <<Head(sink[k])>>
        BY <2>2, <3>1
      <4>2. \A i \in DOMAIN sink[k] : sink[k][i].id = V!None
        BY <3>1 DEF Unasked
      <4>3. QED
        BY <2>3, <2>4, <4>1, <4>2
    <3>2. CASE j # k
      <4>1. sink'[j] = sink[j] /\ busy'[j] = busy[j]
        BY <2>2, <3>2
      <4>2. QED
        BY <4>1 DEF Unasked
    <3>3. QED
      BY <3>1, <3>2
  <2>6. QED
    BY <2>5 DEF Unasked
<1>5. ASSUME NEW k \in V!Tx, V!SendFrame(k) PROVE Unasked'
  <2>1. sink' = sink /\ \A j \in V!Tx : busy'[j] = IF j = k THEN <<>> ELSE busy[j]
    BY <1>5 DEF V!SendFrame, V!rxVars, VTypeOK
  <2>2. DOMAIN <<>> = {}
    OBVIOUS
  <2>3. QED
    BY <2>1, <2>2 DEF Unasked
<1>6. QED
  BY <1>1, <1>2, <1>3, <1>4, <1>5
    DEF V!Next, V!vars, V!HostSend, V!HostComplete, V!HostTake, V!UpstreamRecv, V!SendReply, V!RunRx,
        V!UserTake, V!UserTakeCpl, V!ReportSeq, V!rxVars, V!txVars

LEMMA AnsweredInit == V!Init => V!AnsweredOnce
<1> SUFFICES ASSUME V!Init, NEW id \in V!Ids
             PROVE  V!Holders(id) = (IF id \in open THEN 1 ELSE 0)
  BY DEF V!AnsweredOnce
<1>1. Recs(<<>>) = <<>>
  BY DEF Recs
<1>2. Places(id) = 0
  BY <1>1, CountEmpty DEF V!Init, Places, V!Tx
<1>3. QED
  BY <1>2, DeviceTypesInit, HoldersArePlaces DEF V!Init

LEMMA AnsweredNext ==
  ASSUME VTypeOK, VTypeOK', Unasked, V!AnsweredOnce, [V!Next]_(V!vars)
  PROVE  V!AnsweredOnce'
<1> SUFFICES ASSUME NEW id \in V!Ids
             PROVE  Places(id)' = (IF id \in open' THEN 1 ELSE 0)
  BY HoldersArePlacesNext DEF V!AnsweredOnce
<1>a. Places(id) = (IF id \in open THEN 1 ELSE 0)
  BY HoldersArePlaces DEF V!AnsweredOnce
<1>b. id # V!None /\ V!None = -1 /\ id \in Nat
  BY DeviceConstants DEF V!Ids, V!None
<1>c. /\ Count(down, id) \in Nat /\ Count(reply, id) \in Nat /\ Count(rxq.req, id) \in Nat
      /\ Count(rx_bus.req, id) \in Nat /\ Count(Recs(user), id) \in Nat
      /\ Count(sink["cpl"], id) \in Nat /\ Count(busy["cpl"], id) \in Nat /\ Count(up, id) \in Nat
  BY CountsAreNat
<1>1. ASSUME NEW t \in HostTlps, V!HostSend(t) PROVE Places(id)' = (IF id \in open' THEN 1 ELSE 0)
  <2> DEFINE new == IF t.kind \in V!NonPosted THEN CHOOSE i \in V!Free : TRUE ELSE V!None
             tlp == [kind |-> t.kind, tgt |-> t.tgt, id |-> new]
  <2>1. /\ t.kind \in V!NonPosted => new \in V!Ids \ open
        /\ ~(t.kind \in V!NonPosted) => new = V!None
    BY <1>1 DEF V!HostSend, V!Free
  <2>2. down' = Append(down, tlp) /\ open' = open \cup ({new} \ {V!None})
    BY <1>1 DEF V!HostSend
  <2>3. tlp \in {tlp} \cup Tlp /\ down \in Seq({tlp} \cup Tlp) /\ tlp.id = new
    BY DEF VTypeOK
  <2>4. UNCHANGED <<reply, rxq, rx_bus, user, sink, busy, up>>
    BY <1>1 DEF V!HostSend, V!txVars
  <2> HIDE DEF tlp, new
  <2>5. Count(down', id) = Count(down, id) + One(tlp, id)
    BY <2>2, <2>3, CountAppend
  <2>6. One(tlp, id) = IF new = id THEN 1 ELSE 0
    BY <2>3 DEF One
  <2>7. Places(id)' = Places(id) + One(tlp, id)
    BY <1>c, <2>4, <2>5, <2>6 DEF Places
  <2>8. QED
    BY <1>a, <1>b, <2>1, <2>2, <2>6, <2>7
<1>2. CASE V!HostComplete
  <2> DEFINE tlp == [kind |-> "Cpl", tgt |-> 0, id |-> V!None]
  <2>1. tlp \in {tlp} \cup Tlp /\ down \in Seq({tlp} \cup Tlp) /\ One(tlp, id) = 0
    BY <1>b DEF VTypeOK, One
  <2>2. Count(down', id) = Count(down, id) + One(tlp, id)
    BY <1>2, <2>1, CountAppend DEF V!HostComplete
  <2>3. Places(id)' = Places(id) /\ open' = open
    BY <1>c, <1>2, <2>1, <2>2 DEF V!HostComplete, V!txVars, Places
  <2>4. QED
    BY <1>a, <2>3
<1>3. CASE V!HostTake
  <2>1. Count(up, id) = Count(up', id) + One(Head(up), id)
    BY <1>3, CountTail DEF V!HostTake, VTypeOK
  <2>2. Count(up', id) \in Nat
    BY CountType DEF VTypeOK
  <2>3. Places(id) = Places(id)' + One(Head(up), id)
    BY <1>c, <1>3, <2>1, <2>2 DEF V!HostTake, Places, One
  <2>4. open' = open \ {Head(up).id}
    BY <1>3 DEF V!HostTake
  <2>5. Places(id)' \in Nat
    BY <1>c, <1>3, <2>2, SMTT(30) DEF V!HostTake, Places
  <2>6. CASE Head(up).id = id
    BY <1>a, <2>3, <2>4, <2>5, <2>6 DEF One
  <2>7. CASE Head(up).id # id
    BY <1>a, <2>3, <2>4, <2>5, <2>7 DEF One
  <2>8. QED
    BY <2>6, <2>7
<1>4. CASE V!UpstreamRecv
  <2>1. PICK t \in {Head(down)} :
           /\ down' = Tail(down)
           /\ reply' = IF V!Route(t) \in {"function", "ur"}
                       THEN <<[kind |-> "cpl", id |-> t.id, seq |-> 0]>> ELSE <<>>
           /\ rxq' = IF V!Route(t) \in {"req", "cpl"} THEN [rxq EXCEPT ![V!Route(t)] = Append(@, t)] ELSE rxq
    BY <1>4 DEF V!UpstreamRecv
  <2>2. t \in Tlp /\ down # <<>> /\ down \in Seq(Tlp)
    BY <1>4, <2>1, SMTT(30) DEF V!UpstreamRecv, VTypeOK
  <2>3. Count(down, id) = Count(down', id) + One(t, id) /\ Count(down', id) \in Nat
    BY <2>1, <2>2, CountTail, CountType DEF VTypeOK
  <2>4. Count(reply, id) = 0 /\ UNCHANGED <<open, rx_bus, user, sink, busy, up>>
    BY <1>4, CountEmpty DEF V!UpstreamRecv, V!txVars
  <2>5. /\ V!Route(t) \in {"function", "ur", "req", "cpl", "drop"}
        /\ V!Route(t) \in {"cpl", "drop"} => t.id = V!None
    BY <2>2 DEF V!Route, Tlp, Kinds, V!NonPosted
  <2>6. rxq.req \in Seq(Tlp)
    BY DEF VTypeOK
  <2>7. CASE V!Route(t) \in {"function", "ur"}
    <3> DEFINE f == [kind |-> "cpl", id |-> t.id, seq |-> 0]
    <3>1. reply' = <<f>> /\ rxq' = rxq
      BY <2>1, <2>7
    <3>2. Count(<<f>>, id) = One(f, id)
      BY CountSingle
    <3>3. One(f, id) = One(t, id)
      BY DEF One
    <3> HIDE DEF f
    <3>4. Places(id)' = Places(id)
      BY <1>c, <2>3, <2>4, <3>1, <3>2, <3>3 DEF Places, One
    <3>5. QED
      BY <1>a, <2>4, <3>4
  <2>8. CASE V!Route(t) = "req"
    <3>1. reply' = <<>> /\ rxq'.req = Append(rxq.req, t)
      BY <2>1, <2>8 DEF VTypeOK
    <3>2. Count(rxq'.req, id) = Count(rxq.req, id) + One(t, id) /\ Count(reply', id) = 0
      BY <2>2, <2>6, <3>1, CountAppend, CountEmpty
    <3>3. Places(id)' = Places(id)
      BY <1>c, <2>3, <2>4, <3>2 DEF Places, One
    <3>4. QED
      BY <1>a, <2>4, <3>3
  <2>9. CASE V!Route(t) \in {"cpl", "drop"}
    <3>1. reply' = <<>> /\ rxq'.req = rxq.req
      BY <2>1, <2>9 DEF VTypeOK
    <3>2. One(t, id) = 0 /\ Count(reply', id) = 0
      BY <1>b, <2>5, <2>9, <3>1, CountEmpty DEF One
    <3>3. Places(id)' = Places(id)
      BY <1>c, <2>3, <2>4, <3>1, <3>2 DEF Places
    <3>4. QED
      BY <1>a, <2>4, <3>3
  <2>10. QED
    BY <2>5, <2>7, <2>8, <2>9
<1>5. CASE V!SendReply
  <2>1. reply[1] \in Frame /\ Count(reply, id) = One(reply[1], id)
    BY <1>5, OneFrame DEF V!SendReply, VTypeOK
  <2>2. Count(up', id) = Count(up, id) + One(reply[1], id)
    BY <1>5, <2>1, CountAppend DEF V!SendReply, VTypeOK
  <2>3. Count(reply', id) = 0 /\ UNCHANGED <<open, down, rxq, rx_bus, user, sink, busy>>
    BY <1>5, CountEmpty DEF V!SendReply
  <2>4. Places(id)' = Places(id)
    BY <1>c, <2>1, <2>2, <2>3 DEF Places
  <2>5. QED
    BY <1>a, <2>3, <2>4
<1>6. ASSUME NEW q \in {"req", "cpl"}, V!RunRx(q) PROVE Places(id)' = (IF id \in open' THEN 1 ELSE 0)
  <2>1. UNCHANGED <<open, down, reply, user, sink, busy, up>>
    BY <1>6 DEF V!RunRx, V!txVars
  <2>2. rxq[q] \in Seq(Tlp) /\ rx_bus[q] \in Seq(Tlp) /\ rxq[q] # <<>> /\ Head(rxq[q]) \in Tlp
    <3>1. rxq[q] \in Seq(Tlp) /\ rx_bus[q] \in Seq(Tlp) /\ rxq[q] # <<>>
      BY <1>6 DEF V!RunRx, VTypeOK
    <3>2. QED
      BY <3>1, HeadTailProperties
  <2>3. CASE q = "req"
    <3>1. rxq'.req = Tail(rxq.req) /\ rx_bus'.req = Append(rx_bus.req, Head(rxq.req))
      BY <1>6, <2>3 DEF V!RunRx, VTypeOK
    <3>2. /\ Count(rxq.req, id) = Count(rxq'.req, id) + One(Head(rxq.req), id)
          /\ Count(rx_bus'.req, id) = Count(rx_bus.req, id) + One(Head(rxq.req), id)
          /\ Count(rxq'.req, id) \in Nat
      <4>1. /\ rxq.req \in Seq(Tlp) /\ rxq.req # <<>> /\ rx_bus.req \in Seq(Tlp)
            /\ Head(rxq.req) \in Tlp /\ Tail(rxq.req) \in Seq(Tlp)
        BY <2>2, <2>3
      <4>2. Count(rxq.req, id) = Count(rxq'.req, id) + One(Head(rxq.req), id)
        BY <3>1, <4>1, CountTail
      <4>3. Count(rx_bus'.req, id) = Count(rx_bus.req, id) + One(Head(rxq.req), id)
        BY <3>1, <4>1, CountAppend
      <4>4. QED
        BY <3>1, <4>1, <4>2, <4>3, CountType
    <3>3. Places(id)' = Places(id)
      BY <1>c, <2>1, <3>2 DEF Places, One
    <3>4. QED
      BY <1>a, <2>1, <3>3
  <2>4. CASE q = "cpl"
    <3>1. rxq'.req = rxq.req /\ rx_bus'.req = rx_bus.req
      BY <1>6, <2>4 DEF V!RunRx, VTypeOK
    <3>2. Places(id)' = Places(id)
      BY <2>1, <3>1 DEF Places
    <3>3. QED
      BY <1>a, <2>1, <3>2
  <2>5. QED
    BY <2>3, <2>4
<1>7. CASE V!UserTake
  <2> DEFINE t == Head(rx_bus.req)
  <2>1. /\ rx_bus.req \in Seq(Tlp) /\ rx_bus.req # <<>> /\ rx_bus'.req = Tail(rx_bus.req)
        /\ UNCHANGED <<open, down, reply, rxq, sink, busy, up>>
    BY <1>7 DEF V!UserTake, V!rxVars, V!txVars, VTypeOK
  <2>2. Count(rx_bus.req, id) = Count(rx_bus'.req, id) + One(t, id) /\ Count(rx_bus'.req, id) \in Nat
    BY <2>1, CountTail, CountType DEF VTypeOK
  <2>3. user \in Seq(V!Ids) /\ t.id \in V!Ids \cup {V!None}
    <3>1. t \in Tlp
      BY <2>1, HeadTailProperties
    <3>2. QED
      BY <3>1 DEF VTypeOK, Tlp
  <2>4. Count(Recs(user'), id) = Count(Recs(user), id) + One(t, id)
    <3>1. CASE t.id = V!None
      BY <1>b, <1>c, <1>7, <3>1 DEF V!UserTake, One
    <3>2. CASE t.id # V!None
      <4>1. user' = Append(user, t.id) /\ t.id \in V!Ids
        BY <1>7, <2>3, <3>2 DEF V!UserTake
      <4>2. Recs(user') = Append(Recs(user), [id |-> t.id]) /\ Recs(user) \in Seq([id : V!Ids])
        BY <2>3, <4>1, RecsSteps
      <4>3. [id |-> t.id] \in [id : V!Ids]
        BY <4>1
      <4>4. Count(Append(Recs(user), [id |-> t.id]), id) = Count(Recs(user), id) + One([id |-> t.id], id)
        BY <4>2, <4>3, CountAppend
      <4>5. QED
        BY <4>2, <4>4 DEF One
    <3>3. QED
      BY <3>1, <3>2
  <2> HIDE DEF t
  <2>5. Places(id)' = Places(id)
    BY <1>c, <2>1, <2>2, <2>4, SMTT(30) DEF Places, One
  <2>6. QED
    BY <1>a, <2>1, <2>5
<1>8. CASE V!UserTakeCpl
  <2>1. rx_bus'.req = rx_bus.req /\ UNCHANGED <<open, down, reply, rxq, user, sink, busy, up>>
    BY <1>8 DEF V!UserTakeCpl, V!rxVars, V!txVars, VTypeOK
  <2>2. QED
    BY <1>a, <2>1 DEF Places
<1>9. CASE V!UserAnswer
  <2> DEFINE f == [kind |-> "cpl", id |-> Head(user), seq |-> 0]
  <2>1. /\ user \in Seq(V!Ids) /\ user # <<>> /\ user' = Tail(user) /\ sink["cpl"] \in Seq(Frame)
        /\ sink'["cpl"] = Append(sink["cpl"], f)
        /\ UNCHANGED <<open, down, reply, rxq, rx_bus, busy, up>>
    BY <1>9 DEF V!UserAnswer, V!rxVars, VTypeOK, V!Tx
  <2>2. f \in Frame
    BY <2>1 DEF Frame, V!Tx
  <2>3. Count(sink'["cpl"], id) = Count(sink["cpl"], id) + One(f, id)
    BY <2>1, <2>2, CountAppend
  <2>4. /\ Recs(user) \in Seq([id : V!Ids]) /\ Recs(user) # <<>>
        /\ Head(Recs(user)) = [id |-> Head(user)] /\ Recs(user') = Tail(Recs(user))
    BY <2>1, RecsSteps
  <2>5. Count(Recs(user), id) = Count(Recs(user'), id) + One([id |-> Head(user)], id)
    BY <2>4, CountTail
  <2>6. One([id |-> Head(user)], id) = One(f, id) /\ Count(Recs(user'), id) \in Nat
    <3>1. Tail(Recs(user)) \in Seq([id : V!Ids])
      BY <2>4
    <3>2. QED
      BY <2>4, <3>1, CountType DEF One
  <2> HIDE DEF f
  <2>7. Places(id)' = Places(id)
    BY <1>c, <2>1, <2>3, <2>5, <2>6 DEF Places, One
  <2>8. QED
    BY <1>a, <2>1, <2>7
<1>10. ASSUME NEW k \in UserKinds, V!UserRequest(k) PROVE Places(id)' = (IF id \in open' THEN 1 ELSE 0)
  <2>1. sink'["cpl"] = sink["cpl"] /\ UNCHANGED <<open, down, reply, rxq, rx_bus, user, busy, up>>
    BY <1>10, DeviceConstants DEF V!UserRequest, V!rxVars, VTypeOK, V!Tx
  <2>2. QED
    BY <1>a, <2>1 DEF Places
<1>11. ASSUME NEW k \in V!Tx, V!TakeFrame(k) PROVE Places(id)' = (IF id \in open' THEN 1 ELSE 0)
  <2>1. UNCHANGED <<open, down, reply, rxq, rx_bus, user, up>>
    BY <1>11 DEF V!TakeFrame, V!rxVars
  <2>2. CASE k = "cpl"
    <3>1. /\ sink["cpl"] \in Seq(Frame) /\ sink["cpl"] # <<>> /\ sink'["cpl"] = Tail(sink["cpl"])
          /\ busy["cpl"] = <<>> /\ busy'["cpl"] = <<Head(sink["cpl"])>>
      BY <1>11, <2>2 DEF V!TakeFrame, VTypeOK, V!Tx
    <3>2. Count(sink["cpl"], id) = Count(sink'["cpl"], id) + One(Head(sink["cpl"]), id)
      BY <3>1, CountTail
    <3>3. Count(busy["cpl"], id) = 0 /\ Count(busy'["cpl"], id) = One(Head(sink["cpl"]), id)
      BY <3>1, CountEmpty, CountSingle
    <3>4. Count(sink'["cpl"], id) \in Nat
      <4>1. Tail(sink["cpl"]) \in Seq(Frame)
        BY <3>1
      <4>2. QED
        BY <3>1, <4>1, CountType
    <3>5. Places(id)' = Places(id)
      BY <1>c, <2>1, <3>2, <3>3, <3>4 DEF Places, One
    <3>6. QED
      BY <1>a, <2>1, <3>5
  <2>3. CASE k # "cpl"
    <3>1. sink'["cpl"] = sink["cpl"] /\ busy'["cpl"] = busy["cpl"]
      BY <1>11, <2>3 DEF V!TakeFrame, VTypeOK, V!Tx
    <3>2. QED
      BY <1>a, <2>1, <3>1 DEF Places
  <2>4. QED
    BY <2>2, <2>3
<1>12. ASSUME NEW k \in V!Tx, V!SendFrame(k) PROVE Places(id)' = (IF id \in open' THEN 1 ELSE 0)
  <2>1. UNCHANGED <<open, down, reply, rxq, rx_bus, user, sink>>
    BY <1>12 DEF V!SendFrame, V!rxVars
  <2>2. busy[k] \in Seq(Frame) /\ busy[k] # <<>> /\ Len(busy[k]) <= 1
    BY <1>12 DEF V!SendFrame, VTypeOK
  <2>3. busy[k][1] \in Frame /\ Count(busy[k], id) = One(busy[k][1], id)
    BY <2>2, OneFrame
  <2>4. Count(up', id) = Count(up, id) + One(busy[k][1], id)
    <3>1. up \in Seq(Frame) /\ up' = Append(up, busy[k][1])
      BY <1>12 DEF V!SendFrame, VTypeOK
    <3>2. QED
      BY <2>3, <3>1, CountAppend
  <2>5. CASE k = "cpl"
    <3>1. Count(busy'["cpl"], id) = 0
      BY <1>12, <2>5, CountEmpty DEF V!SendFrame, VTypeOK, V!Tx
    <3>2. Places(id)' = Places(id)
      BY <1>c, <2>1, <2>3, <2>4, <2>5, <3>1 DEF Places, One
    <3>3. QED
      BY <1>a, <2>1, <3>2
  <2>6. CASE k # "cpl"
    <3>1. busy'["cpl"] = busy["cpl"]
      BY <1>12, <2>6 DEF V!SendFrame, VTypeOK, V!Tx
    <3>2. One(busy[k][1], id) = 0
      <4>1. 1 \in DOMAIN busy[k]
        BY <2>2
      <4>2. busy[k][1].id = V!None
        BY <2>6, <4>1 DEF Unasked
      <4>3. QED
        BY <1>b, <4>2 DEF One
    <3>3. Places(id)' = Places(id)
      BY <1>c, <2>1, <2>4, <3>1, <3>2 DEF Places
    <3>4. QED
      BY <1>a, <2>1, <3>3
  <2>7. QED
    BY <2>5, <2>6
<1>13. ASSUME NEW k \in V!Numbered, V!ReportSeq(k) PROVE Places(id)' = (IF id \in open' THEN 1 ELSE 0)
  <2>1. UNCHANGED <<open, down, reply, rxq, rx_bus, user, sink, busy, up>>
    BY <1>13 DEF V!ReportSeq, V!rxVars
  <2>2. QED
    BY <1>a, <2>1 DEF Places
<1>14. CASE UNCHANGED V!vars
  BY <1>a, <1>14 DEF V!vars, Places
<1>15. QED
  BY <1>1, <1>2, <1>3, <1>4, <1>5, <1>6, <1>7, <1>8, <1>9, <1>10, <1>11, <1>12, <1>13, <1>14 DEF V!Next

\* Joining, and dropping some of the first of two.
LEMMA DropOfJoined ==
  ASSUME NEW E, NEW s \in Seq(E), NEW r \in Seq(E), NEW n \in 0 .. Len(s)
  PROVE  SubSeq(s \o r, n + 1, Len(s \o r)) = SubSeq(s, n + 1, Len(s)) \o r
<1> DEFINE x == SubSeq(s \o r, n + 1, Len(s \o r))
           y == SubSeq(s, n + 1, Len(s))
<1>1. s \o r \in Seq(E) /\ Len(s \o r) = Len(s) + Len(r) /\ Len(s) \in Nat /\ Len(r) \in Nat /\ n \in Nat /\ n <= Len(s)
  BY ConcatProperties
<1>2. \A i \in 1 .. Len(s) + Len(r) : (s \o r)[i] = IF i <= Len(s) THEN s[i] ELSE r[i - Len(s)]
  BY ConcatProperties
<1>3. /\ x \in Seq(E) /\ Len(x) = Len(s) + Len(r) - n
      /\ \A i \in 1 .. Len(s) + Len(r) - n : x[i] = (s \o r)[n + i]
  <2>1. \A i \in n + 1 .. Len(s \o r) : (s \o r)[i] \in E
    BY <1>1, ElementOfSeq
  <2> DEFINE m == n + 1
             z == Len(s \o r)
  <2>2. m \in Int /\ z \in Int /\ z = Len(s) + Len(r) /\ m = n + 1
    BY <1>1
  <2>3. \A i \in m .. z : (s \o r)[i] \in E
    BY <2>1
  <2> HIDE DEF m, z
  <2>4. /\ SubSeq(s \o r, m, z) \in Seq(E)
        /\ Len(SubSeq(s \o r, m, z)) = IF m <= z THEN z - m + 1 ELSE 0
        /\ \A i \in 1 .. z - m + 1 : SubSeq(s \o r, m, z)[i] = (s \o r)[m + i - 1]
    BY <2>2, <2>3, SubSeqProperties
  <2>5. SubSeq(s \o r, m, z) = x
    BY DEF m, z
  <2>6. \A i \in 1 .. Len(s) + Len(r) - n : m + i - 1 = n + i
    BY <1>1, <2>2
  <2>7. z - m + 1 = Len(s) + Len(r) - n
    BY <1>1, <2>2
  <2>8. Len(x) = Len(s) + Len(r) - n
    BY <1>1, <2>2, <2>4, <2>5, <2>7
  <2> HIDE DEF x
  <2>9. QED
    BY <2>4, <2>5, <2>6, <2>7, <2>8
<1>4. /\ y \in Seq(E) /\ Len(y) = Len(s) - n
      /\ \A i \in 1 .. Len(s) - n : y[i] = s[n + i]
  BY <1>1
<1> HIDE DEF x, y
<1>5. /\ y \o r \in Seq(E) /\ Len(y \o r) = Len(s) + Len(r) - n
      /\ \A i \in 1 .. Len(s) + Len(r) - n : (y \o r)[i] = IF i <= Len(s) - n THEN y[i] ELSE r[i - (Len(s) - n)]
  <2>1. /\ y \o r \in Seq(E) /\ Len(y \o r) = Len(y) + Len(r)
        /\ \A i \in 1 .. Len(y) + Len(r) : (y \o r)[i] = IF i <= Len(y) THEN y[i] ELSE r[i - Len(y)]
    BY <1>4, ConcatProperties
  <2>2. Len(y) + Len(r) = Len(s) + Len(r) - n
    BY <1>1, <1>4
  <2>3. QED
    BY <1>4, <2>1, <2>2
<1>6. \A i \in 1 .. Len(x) : x[i] = (y \o r)[i]
  <2> TAKE i \in 1 .. Len(x)
  <2>1. i \in 1 .. Len(s) + Len(r) - n /\ n + i \in 1 .. Len(s) + Len(r) /\ i \in Nat
    BY <1>1, <1>3
  <2>2. x[i] = IF n + i <= Len(s) THEN s[n + i] ELSE r[n + i - Len(s)]
    BY <1>2, <1>3, <2>1
  <2>3. (y \o r)[i] = IF i <= Len(s) - n THEN y[i] ELSE r[i - (Len(s) - n)]
    BY <1>5, <2>1
  <2>4. CASE n + i <= Len(s)
    <3>1. i <= Len(s) - n /\ i \in 1 .. Len(s) - n
      BY <1>1, <2>1, <2>4
    <3>2. QED
      BY <1>4, <2>2, <2>3, <2>4, <3>1
  <2>5. CASE ~(n + i <= Len(s))
    <3>1. ~(i <= Len(s) - n) /\ i - (Len(s) - n) = n + i - Len(s)
      BY <1>1, <2>1, <2>5
    <3>2. QED
      BY <2>2, <2>3, <2>5, <3>1
  <2>6. QED
    BY <2>4, <2>5
<1>7. x = y \o r
  BY <1>3, <1>5, <1>6, SeqEqual
<1>8. QED
  BY <1>7 DEF x, y

\* The frames' numbers.
Seqs(s) == [i \in 1 .. Len(s) |-> s[i].seq]

LEMMA SeqsSteps ==
  ASSUME NEW s \in Seq(Frame)
  PROVE  /\ Seqs(s) \in Seq(Int) /\ Len(Seqs(s)) = Len(s)
         /\ \A f \in Frame : Seqs(Append(s, f)) = Append(Seqs(s), f.seq)
         /\ s # <<>> => Seqs(s) = <<Head(s).seq>> \o Seqs(Tail(s))
<1>1. \A i \in 1 .. Len(s) : s[i] \in Frame /\ s[i].seq \in Int
  <2>1. \A f \in Frame : f.seq \in Int
    BY DEF Frame
  <2> HIDE DEF Frame
  <2>2. QED
    BY <2>1
<1>2. Seqs(s) \in Seq(Int) /\ Len(Seqs(s)) = Len(s)
  BY <1>1 DEF Seqs
<1>3. ASSUME NEW f \in Frame PROVE Seqs(Append(s, f)) = Append(Seqs(s), f.seq)
  <2>1. f.seq \in Int
    BY DEF Frame
  <2> HIDE DEF Frame
  <2>2. QED
    BY <1>2, <2>1 DEF Seqs
<1>4. ASSUME s # <<>> PROVE Seqs(s) = <<Head(s).seq>> \o Seqs(Tail(s))
  <2> HIDE DEF Frame
  <2>1. Tail(s) \in Seq(Frame) /\ Len(Tail(s)) = Len(s) - 1 /\ Head(s) = s[1] /\ Len(s) >= 1 /\ Len(s) \in Nat
    BY <1>4
  <2>2. \A i \in 1 .. Len(s) - 1 : Tail(s)[i] = s[i + 1]
    BY <1>4
  <2>3. /\ Len(Seqs(Tail(s))) = Len(s) - 1 /\ Seqs(Tail(s)) \in Seq(Int)
        /\ \A i \in 1 .. Len(s) - 1 : Seqs(Tail(s))[i] = s[i + 1].seq
    BY <1>1, <2>1, <2>2 DEF Seqs
  <2>4. s[1].seq \in Int
    BY <1>1, <2>1
  <2> DEFINE u == Seqs(Tail(s))
             r == <<s[1].seq>> \o u
  <2>5. /\ r \in Seq(Int) /\ Len(r) = Len(u) + 1
        /\ \A i \in 1 .. Len(u) + 1 : r[i] = IF i = 1 THEN s[1].seq ELSE u[i - 1]
    BY <2>3, <2>4, InFront
  <2> HIDE DEF r
  <2>6. \A i \in 1 .. Len(s) : r[i] = s[i].seq
    <3> TAKE i \in 1 .. Len(s)
    <3>0. i \in 1 .. Len(u) + 1
      BY <2>1, <2>3
    <3>1. CASE i = 1
      BY <2>5, <3>0, <3>1
    <3>2. CASE i # 1
      <4>1. i - 1 \in 1 .. Len(s) - 1 /\ (i - 1) + 1 = i
        BY <2>1, <3>2
      <4>2. QED
        BY <2>3, <2>5, <3>0, <3>2, <4>1
    <3>3. QED
      BY <3>1, <3>2
  <2>7. \A i \in 1 .. Len(s) : Seqs(s)[i] = r[i]
    BY <2>6 DEF Seqs
  <2>8. Len(r) = Len(Seqs(s))
    BY <1>2, <2>1, <2>3, <2>5
  <2>9. Seqs(s) = r
    BY <1>2, <2>5, <2>7, <2>8, SeqEqual
  <2>10. QED
    BY <2>1, <2>9 DEF r
<1>5. QED
  BY <1>2, <1>3, <1>4

\* The numbers on their way, in the order of the user's requests.
Numbers(k) == seqq[k] \o Seqs(busy[k]) \o Seqs(sink[k])

LEMMA SeqMeansNumbers == VTypeOK => (V!SeqMeansSent <=> \A k \in V!Numbered : owed[k] = Numbers(k))
<1> SUFFICES ASSUME VTypeOK PROVE V!SeqMeansSent <=> \A k \in V!Numbered : owed[k] = Numbers(k)
  OBVIOUS
<1>1. \A k \in V!Numbered : busy[k] \in Seq(Frame) /\ sink[k] \in Seq(Frame)
  BY DEF VTypeOK, V!Numbered, V!Tx
<1>2. \A k \in V!Numbered : DOMAIN busy[k] = 1 .. Len(busy[k]) /\ DOMAIN sink[k] = 1 .. Len(sink[k])
  BY <1>1
<1>3. QED
  BY <1>2 DEF V!SeqMeansSent, Numbers, Seqs

LEMMA SeqMeansNumbersNext == (VTypeOK => (V!SeqMeansSent <=> \A k \in V!Numbered : owed[k] = Numbers(k)))'
BY SeqMeansNumbers, PTL

\* Joining can be read either way.
LEMMA Joined ==
  ASSUME NEW a, NEW b, NEW c, a \in Seq(Int), b \in Seq(Int), c \in Seq(Int)
  PROVE  /\ a \o b \in Seq(Int) /\ a \o <<>> = a
         /\ (a \o b) \o c = a \o (b \o c)
<1>1. a \o b \in Seq(Int)
  BY ConcatProperties
<1>2. a \o <<>> = a
  BY ConcatEmptySeq
<1>3. (a \o b) \o c = a \o (b \o c)
  BY ConcatAssociative
<1>4. QED
  BY <1>1, <1>2, <1>3

LEMMA NumbersNext ==
  ASSUME VTypeOK, VTypeOK', V!SeqMeansSent, [V!Next]_(V!vars)
  PROVE  V!SeqMeansSent'
<1> SUFFICES ASSUME NEW k \in V!Numbered PROVE owed'[k] = Numbers(k)'
  BY SeqMeansNumbersNext
<1>a. owed[k] = seqq[k] \o Seqs(busy[k]) \o Seqs(sink[k])
  BY SeqMeansNumbers DEF Numbers
<1>b. /\ seqq[k] \in Seq(Int) /\ busy[k] \in Seq(Frame) /\ Len(busy[k]) <= 1 /\ sink[k] \in Seq(Frame)
      /\ k \in V!Tx
  BY DEF VTypeOK, V!Numbered, V!Tx
<1>c. Seqs(busy[k]) \in Seq(Int) /\ Seqs(sink[k]) \in Seq(Int)
  BY <1>b, SeqsSteps
<1>d. Seqs(<<>>) = <<>>
  BY DEF Seqs
<1>1. ASSUME NEW j \in UserKinds, V!UserRequest(j) PROVE owed'[k] = Numbers(k)'
  <2>1. PICK s \in {IF j \in V!Numbered THEN V!NextSeq(j) ELSE 0} :
          /\ sink' = [sink EXCEPT ![j] = Append(@, [kind |-> j, id |-> V!None, seq |-> s])]
          /\ owed' = IF j \in V!Numbered THEN [owed EXCEPT ![j] = Append(@, s)] ELSE owed
    BY <1>1 DEF V!UserRequest
  <2>2. UNCHANGED <<busy, seqq>>
    BY <1>1 DEF V!UserRequest, V!rxVars
  <2>3. CASE j = k
    <3> DEFINE f == [kind |-> j, id |-> V!None, seq |-> s]
    <3>1. sink'[k] = Append(sink[k], f) /\ owed'[k] = Append(owed[k], s)
      BY <1>b, <2>1, <2>3 DEF VTypeOK
    <3>2. f \in Frame /\ s \in Int /\ f.seq = s
      <4>1. sink'[k] \in Seq(Frame) /\ Len(sink'[k]) = Len(sink[k]) + 1 /\ sink'[k][Len(sink[k]) + 1] = f
        <5>1. sink'[k] \in Seq(Frame)
          BY <1>b DEF VTypeOK
        <5> HIDE DEF f
        <5>2. QED
          BY <1>b, <3>1, <5>1
      <4>2. Len(sink[k]) + 1 \in 1 .. Len(sink'[k])
        BY <1>b, <4>1
      <4>3. f \in Frame
        BY <4>1, <4>2, ElementOfSeq
      <4>4. QED
        BY <4>3 DEF Frame
    <3>3. Seqs(sink'[k]) = Append(Seqs(sink[k]), s)
      BY <1>b, <3>1, <3>2, SeqsSteps
    <3> DEFINE a == seqq[k] \o Seqs(busy[k])
               b == Seqs(sink[k])
    <3>4. a \in Seq(Int) /\ b \in Seq(Int)
      BY <1>b, <1>c
    <3>5. owed[k] = a \o b /\ Numbers(k)' = a \o Append(b, s)
      BY <1>a, <2>2, <3>3 DEF Numbers
    <3> HIDE DEF a, b, f
    <3>6. Append(a \o b, s) = a \o Append(b, s)
      <4>1. a \o b \in Seq(Int) /\ <<s>> \in Seq(Int)
        BY <3>2, <3>4
      <4>2. Append(a \o b, s) = (a \o b) \o <<s>>
        BY <3>2, <4>1, AppendIsConcat
      <4>3. Append(b, s) = b \o <<s>>
        BY <3>2, <3>4, AppendIsConcat
      <4>4. (a \o b) \o <<s>> = a \o (b \o <<s>>)
        BY <3>4, <4>1, ConcatAssociative, SMTT(30)
      <4>5. QED
        BY <4>2, <4>3, <4>4
    <3>7. QED
      BY <3>1, <3>5, <3>6
  <2>4. CASE j # k
    <3>1. sink'[k] = sink[k] /\ owed'[k] = owed[k]
      BY <1>b, <2>1, <2>4 DEF VTypeOK
    <3>2. QED
      BY <1>a, <2>2, <3>1 DEF Numbers
  <2>5. QED
    BY <2>3, <2>4
<1>2. ASSUME NEW j \in V!Tx, V!TakeFrame(j) PROVE owed'[k] = Numbers(k)'
  <2>1. UNCHANGED <<seqq, owed>>
    BY <1>2 DEF V!TakeFrame
  <2>2. CASE j = k
    <3>1. /\ busy[k] = <<>> /\ sink[k] # <<>>
          /\ busy'[k] = <<Head(sink[k])>> /\ sink'[k] = Tail(sink[k])
      BY <1>2, <1>b, <2>2 DEF V!TakeFrame, VTypeOK
    <3>2. Seqs(sink[k]) = <<Head(sink[k]).seq>> \o Seqs(sink'[k]) /\ Seqs(busy[k]) = <<>>
      BY <1>b, <1>d, <3>1, SeqsSteps
    <3>3. Seqs(busy'[k]) = <<Head(sink[k]).seq>>
      BY <3>1 DEF Seqs
    <3>4. Head(sink[k]).seq \in Int /\ Seqs(sink'[k]) \in Seq(Int)
      <4>1. Head(sink[k]) \in Frame /\ Tail(sink[k]) \in Seq(Frame)
        BY <1>b, <3>1, HeadTailProperties
      <4>2. QED
        BY <3>1, <4>1, SeqsSteps DEF Frame
    <3> DEFINE e == <<Head(sink[k]).seq>>
               r == Seqs(sink'[k])
    <3>5. e \in Seq(Int) /\ r \in Seq(Int)
      BY <3>4
    <3>6. owed[k] = (seqq[k] \o <<>>) \o (e \o r) /\ Numbers(k)' = (seqq[k] \o e) \o r
      BY <1>a, <2>1, <3>2, <3>3 DEF Numbers
    <3> HIDE DEF e, r
    <3>7. seqq[k] \o <<>> = seqq[k] /\ (seqq[k] \o e) \o r = seqq[k] \o (e \o r)
      <4> DEFINE q == seqq[k]
      <4>1. q \in Seq(Int)
        BY <1>b
      <4> HIDE DEF q
      <4>2. q \o <<>> = q /\ (q \o e) \o r = q \o (e \o r)
        BY <3>5, <4>1, Joined, SMTT(30)
      <4>3. QED
        BY <4>2 DEF q
    <3>8. QED
      BY <2>1, <3>6, <3>7
  <2>3. CASE j # k
    <3>1. busy'[k] = busy[k] /\ sink'[k] = sink[k]
      BY <1>2, <1>b, <2>3 DEF V!TakeFrame, VTypeOK
    <3>2. QED
      BY <1>a, <2>1, <3>1 DEF Numbers
  <2>4. QED
    BY <2>2, <2>3
<1>3. ASSUME NEW j \in V!Tx, V!SendFrame(j) PROVE owed'[k] = Numbers(k)'
  <2>1. UNCHANGED <<sink, owed>>
    BY <1>3 DEF V!SendFrame
  <2>2. CASE j = k
    <3>1. /\ busy[k] # <<>> /\ busy'[k] = <<>>
          /\ seqq'[k] = Append(seqq[k], busy[k][1].seq)
      BY <1>3, <1>b, <2>2 DEF V!SendFrame, VTypeOK
    <3>2. Len(busy[k]) = 1 /\ busy[k][1] \in Frame
      <4> DEFINE n == Len(busy[k])
      <4>1. n \in Nat /\ n # 0 /\ n <= 1
        BY <1>b, <3>1, LenProperties, EmptySeq
      <4> HIDE DEF n
      <4>2. n = 1
        BY ONLY <4>1
      <4>3. QED
        BY <1>b, <4>2, ElementOfSeq DEF n
    <3>3. Seqs(busy[k]) = <<busy[k][1].seq>> /\ busy[k][1].seq \in Int
      BY <3>2 DEF Seqs, Frame
    <3> DEFINE x == busy[k][1].seq
    <3>4. Append(seqq[k], x) = seqq[k] \o <<x>> /\ <<x>> \in Seq(Int)
      BY <1>b, <3>3, AppendIsConcat, SMTT(30)
    <3>5. Seqs(busy'[k]) = <<>>
      BY <1>d, <3>1
    <3>6. Numbers(k)' = (seqq[k] \o <<x>>) \o <<>> \o Seqs(sink[k])
      BY <2>1, <3>1, <3>4, <3>5 DEF Numbers
    <3>7. (seqq[k] \o <<x>>) \o <<>> = seqq[k] \o <<x>>
      <4>1. seqq[k] \o <<x>> \in Seq(Int)
        BY <1>b, <3>4
      <4>2. QED
        BY <4>1, ConcatEmptySeq
    <3> HIDE DEF x
    <3>8. QED
      BY <1>a, <2>1, <3>3, <3>6, <3>7 DEF x
  <2>3. CASE j # k
    <3>1. busy'[k] = busy[k] /\ seqq'[k] = seqq[k]
      BY <1>3, <1>b, <2>3 DEF V!SendFrame, VTypeOK
    <3>2. QED
      BY <1>a, <2>1, <3>1 DEF Numbers
  <2>4. QED
    BY <2>2, <2>3
<1>4. ASSUME NEW j \in V!Numbered, V!ReportSeq(j) PROVE owed'[k] = Numbers(k)'
  <2>1. UNCHANGED <<sink, busy>>
    BY <1>4 DEF V!ReportSeq
  <2>2. CASE j = k
    <3> DEFINE n == V!Taken(k)
               v == Seqs(busy[k]) \o Seqs(sink[k])
    <3>1. /\ seqq'[k] = SubSeq(seqq[k], n + 1, Len(seqq[k]))
          /\ owed'[k] = SubSeq(owed[k], n + 1, Len(owed[k]))
      BY <1>4, <2>2 DEF V!ReportSeq, VTypeOK
    <3>2. n \in 0 .. Len(seqq[k])
      BY <1>b, DeviceConstants DEF V!Taken
    <3>3. v \in Seq(Int) /\ owed[k] = seqq[k] \o v
      <4> DEFINE q == seqq[k]
                 b == Seqs(busy[k])
                 s == Seqs(sink[k])
      <4>1. q \in Seq(Int) /\ b \in Seq(Int) /\ s \in Seq(Int)
        BY <1>b, <1>c
      <4>2. owed[k] = (q \o b) \o s
        BY <1>a
      <4>3. v = b \o s
        OBVIOUS
      <4> HIDE DEF q, b, s, v
      <4>4. b \o s \in Seq(Int) /\ (q \o b) \o s = q \o (b \o s)
        BY <4>1, Joined, SMTT(30)
      <4>5. QED
        BY <4>2, <4>3, <4>4 DEF q
    <3>4. seqq'[k] \in Seq(Int)
      BY DEF VTypeOK
    <3>5. Numbers(k)' = seqq'[k] \o v
      <4>1. Numbers(k)' = seqq'[k] \o Seqs(busy[k]) \o Seqs(sink[k])
        BY <2>1 DEF Numbers
      <4> DEFINE q == seqq'[k]
                 b == Seqs(busy[k])
                 s == Seqs(sink[k])
      <4>2. q \in Seq(Int) /\ b \in Seq(Int) /\ s \in Seq(Int)
        BY <1>c, <3>4
      <4>3. Numbers(k)' = (q \o b) \o s /\ v = b \o s
        BY <4>1
      <4> HIDE DEF q, b, s, v
      <4>4. (q \o b) \o s = q \o (b \o s)
        BY <4>2, Joined, SMTT(30)
      <4>5. QED
        BY <4>3, <4>4 DEF q
    <3> HIDE DEF n, v
    <3>6. QED
      BY <1>b, <3>1, <3>2, <3>3, <3>5, DropOfJoined
  <2>3. CASE j # k
    <3>1. seqq'[k] = seqq[k] /\ owed'[k] = owed[k]
      BY <1>4, <2>3 DEF V!ReportSeq, VTypeOK
    <3>2. QED
      BY <1>a, <2>1, <3>1 DEF Numbers
  <2>4. QED
    BY <2>2, <2>3
<1>5. CASE UNCHANGED <<sink, busy, seqq, owed>>
  BY <1>a, <1>5 DEF Numbers
<1>6. CASE V!UserAnswer
  <2>1. sink'[k] = sink[k] /\ UNCHANGED <<busy, seqq, owed>>
    BY <1>6 DEF V!UserAnswer, VTypeOK, V!Numbered
  <2>2. QED
    BY <1>a, <2>1 DEF Numbers
<1>7. QED
  BY <1>1, <1>2, <1>3, <1>4, <1>5, <1>6
    DEF V!Next, V!vars, V!HostSend, V!HostComplete, V!HostTake, V!UpstreamRecv, V!SendReply, V!RunRx,
        V!UserTake, V!UserTakeCpl, V!rxVars, V!txVars

\* A credit leaves with a TLP and comes back when upstream_recv has it.
LEMMA CreditsNext ==
  ASSUME VTypeOK, V!CreditsConserved, [V!Next]_(V!vars)
  PROVE  V!CreditsConserved'
<1>0. Len(down) \in Nat /\ credit \in Int /\ credit + Len(down) = RxCredits
  BY DEF VTypeOK, V!CreditsConserved
<1>1. ASSUME NEW t, down' = Append(down, t), credit' = credit - 1 PROVE V!CreditsConserved'
  <2>1. Len(down') = Len(down) + 1
    BY <1>1 DEF VTypeOK
  <2>2. QED
    BY <1>0, <1>1, <2>1 DEF V!CreditsConserved
<1>2. CASE V!UpstreamRecv
  <2>1. down # <<>> /\ down' = Tail(down) /\ credit' = credit + 1
    BY <1>2 DEF V!UpstreamRecv, V!Released
  <2>2. Len(down') = Len(down) - 1
    BY <2>1 DEF VTypeOK
  <2>3. QED
    BY <1>0, <2>1, <2>2 DEF V!CreditsConserved
<1>3. CASE UNCHANGED <<down, credit>>
  BY <1>3 DEF V!CreditsConserved
<1>4. QED
  BY <1>1, <1>2, <1>3
    DEF V!Next, V!vars, V!HostSend, V!HostComplete, V!HostTake, V!SendReply, V!RunRx, V!UserTake,
        V!UserTakeCpl, V!UserAnswer, V!UserRequest, V!TakeFrame, V!SendFrame, V!ReportSeq,
        V!rxVars, V!txVars

VInv == VTypeOK /\ Unasked /\ V!DeviceAccounts

\* The device's books balance, whatever the host, the user and the link do:
\* every request of the host that wants an answer is at one place between
\* upstream_recv, the user and the link, every TLP gives its credit back once,
\* and sequence numbers come back in the order of the requests, once sent.
THEOREM DeviceBalances == V!Spec => []DeviceAccounts
<1>1. V!Init => VInv
  <2> SUFFICES ASSUME V!Init PROVE VInv
    OBVIOUS
  <2>1. V!CreditsConserved
    BY DeviceConstants DEF V!Init, V!CreditsConserved
  <2>2. V!SeqMeansSent
    <3>1. \A k \in V!Numbered : Numbers(k) = <<>> /\ owed[k] = <<>>
      BY DEF V!Init, Numbers, Seqs, V!Numbered, V!Tx
    <3>2. QED
      BY <3>1, DeviceTypesInit, SeqMeansNumbers
  <2>3. QED
    BY <2>1, <2>2, DeviceTypesInit, UnaskedInit, AnsweredInit DEF VInv, V!DeviceAccounts
<1>2. VInv /\ [V!Next]_(V!vars) => VInv'
  <2> SUFFICES ASSUME VInv, [V!Next]_(V!vars) PROVE VInv'
    OBVIOUS
  <2>1. VTypeOK /\ Unasked /\ V!AnsweredOnce /\ V!CreditsConserved /\ V!SeqMeansSent
    BY DEF VInv, V!DeviceAccounts
  <2>2. VTypeOK'
    BY <2>1, DeviceTypesNext
  <2>3. Unasked' /\ V!AnsweredOnce' /\ V!CreditsConserved' /\ V!SeqMeansSent'
    BY <2>1, <2>2, UnaskedNext, AnsweredNext, CreditsNext, NumbersNext
  <2>4. QED
    BY <2>2, <2>3 DEF VInv, V!DeviceAccounts
<1>3. VInv => DeviceAccounts
  BY DEF VInv, DeviceAccounts
<1>4. QED
  BY <1>1, <1>2, <1>3, PTL DEF V!Spec

-----------------------------------------------------------------------------
(* PcieIfDma: the cuts dma_mem_read and the completer make.                *)

LEMMA DmaConstants ==
  /\ Rcb \in Nat \ {0} /\ MaxReadReq \in Nat \ {0} /\ MaxPayload \in Nat \ {0} /\ Page \in Nat \ {0}
  /\ TagCount \in Nat \ {0} /\ DW = 4
  /\ Rcb % 4 = 0 /\ MaxReadReq % Rcb = 0 /\ MaxPayload % Rcb = 0
  /\ MaxReadReq % 4 = 0 /\ MaxPayload % 4 = 0 /\ Rcb <= MaxReadReq /\ Rcb <= MaxPayload
<1>1. /\ Rcb \in Nat \ {0} /\ MaxReadReq \in Nat \ {0} /\ MaxPayload \in Nat \ {0} /\ Page \in Nat \ {0}
      /\ TagCount \in Nat \ {0} /\ DW = 4
      /\ Rcb % 4 = 0 /\ MaxReadReq % Rcb = 0 /\ MaxPayload % Rcb = 0
  BY DmaAssumption DEF Divides, DW
<1>2. ASSUME NEW b \in Nat \ {0}, b % Rcb = 0 PROVE b % 4 = 0 /\ Rcb <= b
  <2>1. (b % Rcb) % 4 = b % 4
    <3>1. 4 \in Nat \ {0} /\ b \in Nat
      OBVIOUS
    <3>2. QED
      BY ONLY <1>1, <3>1, ModMod, ZenonT(30)
  <2>2. b = Rcb * (b \div Rcb) + (b % Rcb) /\ b \div Rcb \in Nat
    BY <1>1, DivMod
  <2>3. 0 % 4 = 0
    OBVIOUS
  <2> DEFINE q == b \div Rcb
  <2>4. b = Rcb * q /\ q \in Nat
    BY <1>1, <1>2, <2>2
  <2> HIDE DEF q
  <2>5. q # 0
    BY <1>1, <2>4
  <2>6. Rcb <= Rcb * q
    BY <1>1, <2>4, <2>5
  <2>7. QED
    BY <1>2, <2>1, <2>3, <2>4, <2>6
<1>3. QED
  BY <1>1, <1>2

\* What remains of an address within a dword, a completion boundary, a page.
LEMMA Offsets ==
  ASSUME NEW a \in Nat
  PROVE  /\ a % 4 \in 0 .. 3 /\ a % Rcb \in 0 .. Rcb - 1 /\ a % Page \in 0 .. Page - 1
         /\ a % 4 <= a % Rcb /\ (a % Rcb) % 4 = a % 4
<1>1. a % 4 \in 0 .. 3 /\ a % Rcb \in 0 .. Rcb - 1 /\ a % Page \in 0 .. Page - 1
  BY DmaConstants, DivMod
<1>2. (a % Rcb) % 4 = a % 4
  <2>1. 4 \in Nat \ {0} /\ Rcb \in Nat \ {0} /\ Rcb % 4 = 0
    BY DmaConstants
  <2>2. QED
    BY ONLY <2>1, a \in Nat, ModMod
<1> DEFINE b == a % Rcb
<1>3. b \in Nat /\ b % 4 <= b
  <2>1. b \in Nat
    BY <1>1, DmaConstants
  <2> HIDE DEF b
  <2>2. b % 4 <= b
    BY <2>1
  <2>3. QED
    BY <2>1, <2>2
<1>4. QED
  BY <1>1, <1>2, <1>3

\* A request as dma_mem_read may send it.
LegalRequest ==
  {q \in [addr : Nat, len : Nat \ {0}] :
     q.addr \div Page = (q.addr + q.len - 1) \div Page /\ Dwords(q) * DW <= MaxReadReq}

LEMMA RequestLengthLegal ==
  ASSUME NEW addr \in Nat, NEW left \in Nat \ {0}
  PROVE  /\ RequestLength(addr, left) \in 1 .. left
         /\ [addr |-> addr, len |-> RequestLength(addr, left)] \in LegalRequest
<1> DEFINE len == RequestLength(addr, left)
           d == addr % 4
           b == addr % Rcb
           t == addr % Page
           q == addr \div Page
           most == IF left > MaxReadReq - d THEN Smaller(left, MaxReadReq - b) ELSE left
<1>1. len = Smaller(most, Page - t)
  BY DmaConstants DEF RequestLength
<1>2. /\ d \in 0 .. 3 /\ b \in 0 .. Rcb - 1 /\ t \in 0 .. Page - 1 /\ d <= b
      /\ addr = Page * q + t /\ q \in Nat
  BY Offsets, DmaConstants, DivMod
<1> HIDE DEF d, b, t, q
<1>3. most \in 1 .. left /\ d + most <= MaxReadReq
  BY <1>2, DmaConstants DEF Smaller
<1> HIDE DEF most
<1>4. len \in 1 .. left /\ d + len <= MaxReadReq /\ len <= Page - t
  BY <1>1, <1>2, <1>3, DmaConstants DEF Smaller
<1> HIDE DEF len
<1>5. addr \div Page = (addr + len - 1) \div Page
  <2>1. addr + len - 1 = Page * q + (t + len - 1) /\ t + len - 1 \in 0 .. Page - 1 /\ addr + len - 1 \in Nat
    BY <1>2, <1>4, DmaConstants
  <2>2. (addr + len - 1) \div Page = q
    BY <1>2, <2>1, DmaConstants, DivUnique
  <2>3. QED
    BY <2>2 DEF q
<1>6. Dwords([addr |-> addr, len |-> len]) * DW <= MaxReadReq
  <2>1. Dwords([addr |-> addr, len |-> len]) = (d + len + 3) \div 4
    BY <1>2, <1>4, DmaConstants DEF Dwords, d
  <2>2. MaxReadReq \in Nat /\ MaxReadReq % 4 = 0 /\ d + len \in Nat /\ d + len <= MaxReadReq
    BY <1>2, <1>4, DmaConstants
  <2> DEFINE x == d + len
  <2>3. ((x + 3) \div 4) * 4 <= MaxReadReq
    <3>1. x \in Nat /\ x <= MaxReadReq
      BY <2>2
    <3> HIDE DEF x
    <3>2. QED
      BY <2>2, <3>1
  <2>4. QED
    BY <2>1, <2>3, DmaConstants
<1>7. [addr |-> addr, len |-> len] \in LegalRequest
  BY <1>4, <1>5, <1>6 DEF LegalRequest
<1>8. QED
  BY <1>4, <1>7 DEF len

\* The requests of a read: legal ones, end to end, from its first byte to its
\* last.
LEMMA RequestsAreTheRead ==
  ASSUME NEW addr \in Nat, NEW length \in Nat \ {0}
  PROVE  LET s == Requests(addr, length)
         IN  /\ s \in Seq(LegalRequest) /\ s # <<>> /\ s[1].addr = addr
             /\ \A k \in 1 .. Len(s) :
                   s[k].addr + s[k].len = IF k < Len(s) THEN s[k + 1].addr ELSE addr + length
<1> DEFINE step == [n \in 0 .. length - 1 |-> RequestLength(addr + n, length - n)]
           piece == [n \in 0 .. length - 1 |->
                       [addr |-> addr + n, len |-> RequestLength(addr + n, length - n)]]
           F == CHOOSE F : F = [n \in 0 .. length |->
                  IF n = length THEN <<>>
                  ELSE LET len == RequestLength(addr + n, length - n)
                       IN <<[addr |-> addr + n, len |-> len]>> \o F[n + len]]
           s == F[0]
<1>1. Requests(addr, length) = s
  BY DEF Requests
<1>2. ASSUME NEW n \in 0 .. length - 1
      PROVE  /\ RequestLength(addr + n, length - n) \in 1 .. length - n
             /\ [addr |-> addr + n, len |-> RequestLength(addr + n, length - n)] \in LegalRequest
  <2>1. addr + n \in Nat /\ length - n \in Nat \ {0}
    OBVIOUS
  <2>2. QED
    BY <2>1, RequestLengthLegal
<1>3. /\ step \in [0 .. length - 1 -> Nat \ {0}]
      /\ \A n \in 0 .. length - 1 : n + step[n] <= length
      /\ piece \in [0 .. length - 1 -> LegalRequest]
  <2>1. \A n \in 0 .. length - 1 : step[n] \in 1 .. length - n
    BY <1>2
  <2>2. \A n \in 0 .. length - 1 : step[n] \in Nat \ {0} /\ n + step[n] <= length
    BY <2>1
  <2>3. piece \in [0 .. length - 1 -> LegalRequest]
    BY <1>2
  <2>4. QED
    BY <2>2, <2>3
<1>4. \E f : InPieces(f, length, step, piece)
  <2> HIDE DEF s, step, piece, F
  <2>1. length \in Nat
    OBVIOUS
  <2>2. QED
    BY <1>3, <2>1, PiecesExist
<1>5. F = [n \in 0 .. length |->
             IF n = length THEN <<>>
             ELSE LET len == RequestLength(addr + n, length - n)
                  IN <<[addr |-> addr + n, len |-> len]>> \o F[n + len]]
  <2>1. PICK f : InPieces(f, length, step, piece)
    BY <1>4
  <2>2. \A n \in 0 .. length :
          f[n] = IF n = length THEN <<>>
                 ELSE LET len == RequestLength(addr + n, length - n)
                      IN <<[addr |-> addr + n, len |-> len]>> \o f[n + len]
    <3> TAKE n \in 0 .. length
    <3>1. f[n] = IF n = length THEN <<>> ELSE <<piece[n]>> \o f[n + step[n]]
      <4> HIDE DEF piece, step
      <4>1. QED
        BY <2>1 DEF InPieces
    <3>2. CASE n = length
      BY <3>1, <3>2
    <3>3. CASE n # length
      <4>1. n \in 0 .. length - 1
        BY <3>3
      <4>2. /\ piece[n] = [addr |-> addr + n, len |-> RequestLength(addr + n, length - n)]
            /\ step[n] = RequestLength(addr + n, length - n)
        BY <4>1
      <4> HIDE DEF piece, step
      <4>3. QED
        BY <3>1, <3>3, <4>2
    <3>4. QED
      BY <3>2, <3>3
  <2>3. f = [n \in 0 .. length |->
             IF n = length THEN <<>>
             ELSE LET len == RequestLength(addr + n, length - n)
                  IN <<[addr |-> addr + n, len |-> len]>> \o f[n + len]]
    <3>1. f = [n \in 0 .. length |-> f[n]]
      <4> HIDE DEF piece, step
      <4>1. QED
        BY <2>1 DEF InPieces
    <3>2. QED
      BY <2>2, <3>1
  <2>4. QED
    BY <2>3
<1>6. InPieces(F, length, step, piece)
  <2> HIDE DEF F
  <2>1. ASSUME NEW n \in 0 .. length
        PROVE  F[n] = IF n = length THEN <<>> ELSE <<piece[n]>> \o F[n + step[n]]
    <3>1. F[n] = IF n = length THEN <<>>
                 ELSE LET len == RequestLength(addr + n, length - n)
                      IN <<[addr |-> addr + n, len |-> len]>> \o F[n + len]
      BY <1>5
    <3>2. CASE n = length
      BY <3>1, <3>2
    <3>3. CASE n # length
      <4>1. n \in 0 .. length - 1
        BY <3>3
      <4>2. /\ piece[n] = [addr |-> addr + n, len |-> RequestLength(addr + n, length - n)]
            /\ step[n] = RequestLength(addr + n, length - n)
        BY <4>1
      <4> HIDE DEF piece, step
      <4>3. QED
        BY <3>1, <3>3, <4>2
    <3>4. QED
      BY <3>2, <3>3
  <2>2. F = [n \in 0 .. length |-> F[n]]
    BY <1>5
  <2> HIDE DEF piece, step
  <2>3. QED
    BY <2>1, <2>2 DEF InPieces
<1>7. s \in Seq(LegalRequest) /\ \E p : Positions(p, s, length, step, piece, 0)
  <2> HIDE DEF step, piece, F
  <2>1. length \in Nat
    OBVIOUS
  <2>2. QED
    BY <1>3, <1>6, <2>1, PiecesInOrder
<1>8. PICK p : Positions(p, s, length, step, piece, 0)
  BY <1>7
<1> HIDE DEF F
<1>9. /\ p \in Seq(0 .. length - 1) /\ Len(p) = Len(s) /\ p # <<>> /\ p[1] = 0
      /\ \A k \in 1 .. Len(p) :
            /\ s[k] = piece[p[k]]
            /\ p[k] + step[p[k]] = IF k < Len(p) THEN p[k + 1] ELSE length
  BY <1>8 DEF Positions
<1>10. \A k \in 1 .. Len(p) : s[k].addr = addr + p[k] /\ s[k].len = step[p[k]] /\ p[k] \in 0 .. length - 1
  <2> TAKE k \in 1 .. Len(p)
  <2>1. p[k] \in 0 .. length - 1 /\ s[k] = piece[p[k]]
    BY <1>9, ElementOfSeq
  <2>2. QED
    BY <2>1
<1>11. Len(s) \in Nat /\ Len(s) # 0
  BY <1>9, EmptySeq, LenProperties
<1> HIDE DEF step, piece, s
<1>12. ASSUME NEW k \in 1 .. Len(s)
       PROVE  s[k].addr + s[k].len = IF k < Len(s) THEN s[k + 1].addr ELSE addr + length
  <2>1. /\ s[k].addr = addr + p[k] /\ s[k].len = step[p[k]] /\ p[k] \in Nat /\ step[p[k]] \in Nat
        /\ p[k] + step[p[k]] = IF k < Len(s) THEN p[k + 1] ELSE length
    <3>1. k \in 1 .. Len(p)
      BY <1>9
    <3>2. /\ s[k].addr = addr + p[k] /\ s[k].len = step[p[k]] /\ p[k] \in 0 .. length - 1
          /\ p[k] + step[p[k]] = IF k < Len(s) THEN p[k + 1] ELSE length
      BY <1>9, <1>10, <3>1
    <3>3. step[p[k]] \in Nat \ {0}
      BY <1>3, <3>2
    <3>4. QED
      BY <3>2, <3>3
  <2>2. CASE k < Len(s)
    <3>1. k + 1 \in 1 .. Len(p)
      BY <1>9, <1>11, <2>2
    <3>2. s[k + 1].addr = addr + p[k + 1] /\ p[k + 1] \in Nat
      BY <1>10, <3>1
    <3>3. QED
      BY <2>1, <2>2, <3>2
  <2>3. CASE ~(k < Len(s))
    <3> DEFINE x == p[k]
               y == step[p[k]]
    <3>1. s[k].addr + s[k].len = (addr + x) + y /\ x + y = length /\ x \in Nat /\ y \in Nat
      BY <2>1, <2>3
    <3> HIDE DEF x, y
    <3>2. (addr + x) + y = addr + length
      BY <3>1
    <3>3. QED
      BY <2>3, <3>1, <3>2
  <2>4. QED
    BY <2>2, <2>3
<1>13. s # <<>> /\ s[1].addr = addr
  <2>1. 1 \in 1 .. Len(p)
    BY <1>9, <1>11
  <2>2. s # <<>>
    BY <1>11, EmptySeq
  <2>3. QED
    BY <1>9, <1>10, <2>1, <2>2
<1>14. QED
  BY <1>1, <1>7, <1>12, <1>13

\* What the completer puts into one completion: never nothing, never more than
\* its payload, and if that is not all, up to a completion boundary.
LEMMA PayloadLegal ==
  ASSUME NEW a \in Nat, NEW dws \in Nat \ {0}
  PROVE  /\ Payload(a, dws) \in 1 .. dws /\ Payload(a, dws) * 4 <= MaxPayload
         /\ Payload(a, dws) < dws => Divides(Rcb, a - (a % 4) + Payload(a, dws) * 4)
<1> DEFINE M == MaxPayload \div 4
           b == a % Rcb
           c == b \div 4
           d == a % 4
<1>1. MaxPayload = 4 * M /\ M \in Nat /\ M > 0
  BY DmaConstants
<1>2. Payload(a, dws) = IF dws > M THEN M - c ELSE dws
  BY DmaConstants DEF Payload
<1>3. b \in 0 .. Rcb - 1 /\ b % 4 = d /\ d \in 0 .. 3
  BY Offsets
<1>4. b = 4 * c + d /\ c \in Nat
  <2> HIDE DEF b, d
  <2>1. b \in Nat
    BY <1>3, DmaConstants
  <2>2. QED
    BY <1>3, <2>1
<1>5. c < M
  <2> HIDE DEF b, c, d, M
  <2>1. 4 * c <= b /\ b < MaxPayload
    BY <1>3, <1>4, DmaConstants
  <2>2. QED
    BY <1>1, <1>4, <2>1
<1>6. CASE dws > M
  <2>1. Payload(a, dws) = M - c /\ M - c \in 1 .. dws
    <3> HIDE DEF M, c
    <3>1. QED
      BY <1>1, <1>2, <1>4, <1>5, <1>6
  <2>2. (M - c) * 4 <= MaxPayload
    <3> HIDE DEF M, c
    <3>1. QED
      BY <1>1, <1>4, <1>5
  <2> DEFINE q == a \div Rcb
             r == MaxPayload \div Rcb
  <2>3. a = Rcb * q + b /\ q \in Nat /\ MaxPayload = Rcb * r /\ r \in Nat
    BY DmaConstants, DivMod
  <2>4. a - d + (M - c) * 4 = a - b + MaxPayload
    <3> HIDE DEF M, b, c, d
    <3>1. QED
      BY <1>1, <1>3, <1>4, DmaConstants
  <2>5. a - b + MaxPayload = Rcb * (q + r) + 0
    <3> HIDE DEF b, q, r
    <3>1. Rcb * (q + r) = Rcb * q + Rcb * r
      BY <2>3, DmaConstants
    <3>2. QED
      BY <1>3, <2>3, <3>1, DmaConstants
  <2>6. a - b + MaxPayload \in Nat /\ q + r \in Nat /\ 0 \in 0 .. Rcb - 1
    <3> HIDE DEF b, q, r
    <3>1. Rcb * q \in Nat
      BY <2>3, DmaConstants
    <3>2. QED
      BY <1>3, <2>3, <3>1, DmaConstants
  <2>7. (a - b + MaxPayload) % Rcb = 0
    <3> HIDE DEF b, q, r
    <3>1. QED
      BY <2>5, <2>6, DmaConstants, ModUnique
  <2>8. QED
    BY <2>1, <2>2, <2>4, <2>7 DEF Divides
<1>7. CASE ~(dws > M)
  <2> HIDE DEF M
  <2>1. Payload(a, dws) = dws /\ dws * 4 <= MaxPayload
    BY <1>1, <1>2, <1>7
  <2>2. QED
    BY <2>1
<1>8. QED
  BY <1>6, <1>7

\* A completion, and how the completer cuts the answer to a request: from the
\* request's first dword to its last, off a completion boundary only at the
\* ends, with the bytes that are left counted from where each one starts.
Cpl == {c \in [ok : BOOLEAN, byte_count : Int, lower : Nat, length : Nat, first : Nat] :
          c.length * DW <= MaxPayload}
Starts(req, s, k) == IF k = 1 THEN req.addr ELSE s[k].first
Ends(s, k) == s[k].first + s[k].length * 4
Cut(req, s) ==
  /\ s \in Seq(Cpl) /\ s # <<>>
  /\ \A k \in 1 .. Len(s) :
        /\ s[k].ok
        /\ req.addr <= Starts(req, s, k)
        /\ Starts(req, s, k) \in Nat /\ s[k].first = Starts(req, s, k) - (Starts(req, s, k) % 4)
        /\ s[k].lower = Starts(req, s, k) % Rcb
        /\ s[k].byte_count = req.addr + req.len - Starts(req, s, k)
        /\ Starts(req, s, k) < Ends(s, k)
        /\ k < Len(s) => /\ Ends(s, k) < req.addr + req.len /\ Divides(Rcb, Ends(s, k))
                         /\ Starts(req, s, k + 1) = Ends(s, k)
        /\ k = Len(s) => Ends(s, k) \in req.addr + req.len .. req.addr + req.len + 3

LEMMA CompletionsCut ==
  ASSUME NEW req \in [addr : Nat, len : Nat \ {0}]
  PROVE  Cut(req, Completions(req))
<1> DEFINE N == Dwords(req)
           start(m) == IF m = 0 THEN req.addr ELSE FirstDword(req.addr) + m * DW
           rec(m) == [ok |-> TRUE, byte_count |-> req.len - (start(m) - req.addr),
                      lower |-> start(m) % Rcb, length |-> Payload(start(m), N - m),
                      first |-> FirstDword(start(m))]
           step == [m \in 0 .. N - 1 |-> Payload(start(m), N - m)]
           piece == [m \in 0 .. N - 1 |-> rec(m)]
           body(f, m) == IF m = N THEN <<>> ELSE <<rec(m)>> \o f[m + Payload(start(m), N - m)]
           F == CHOOSE F : F = [m \in 0 .. N |-> body(F, m)]
           s == F[0]
           d == req.addr % 4
           B == req.addr - d
<1>1. Completions(req) = s
  BY DEF Completions
<1>2. /\ req.addr \in Nat /\ req.len \in Nat \ {0} /\ d \in 0 .. 3 /\ B \in Nat /\ B % 4 = 0
      /\ FirstDword(req.addr) = B /\ FirstDword(B) = B /\ DW = 4
  <2>1. req.addr \in Nat /\ req.len \in Nat \ {0}
    OBVIOUS
  <2> DEFINE a == req.addr
  <2>2. a \in Nat
    BY <2>1
  <2> HIDE DEF a
  <2>3. a % 4 \in 0 .. 3 /\ a - (a % 4) \in Nat /\ (a - (a % 4)) % 4 = 0
    BY <2>2
  <2>4. FirstDword(a) = a - (a % 4) /\ FirstDword(a - (a % 4)) = a - (a % 4)
    BY <2>2, <2>3, DmaConstants DEF FirstDword
  <2>5. QED
    BY <2>1, <2>3, <2>4, DmaConstants DEF a
<1>3. N \in Nat \ {0} /\ B + N * 4 \in req.addr + req.len .. req.addr + req.len + 3
  <2>1. N = (d + req.len + 3) \div 4
    BY <1>2 DEF Dwords
  <2> DEFINE x == d + req.len
             n == N
  <2>2. x \in Nat \ {0} /\ n = (x + 3) \div 4 /\ B + x = req.addr + req.len
    BY <1>2, <2>1
  <2> HIDE DEF x, n, d, B
  <2>3. n \in Nat \ {0} /\ n * 4 \in x .. x + 3
    BY <2>2
  <2>4. B + n * 4 \in B + x .. B + x + 3 /\ n * 4 \in Nat
    BY <1>2, <2>2, <2>3
  <2>5. QED
    BY <2>2, <2>3, <2>4 DEF n
<1>4. ASSUME NEW m \in 0 .. N - 1
      PROVE  /\ start(m) \in Nat /\ FirstDword(start(m)) = B + m * 4 /\ start(m) = IF m = 0 THEN req.addr ELSE B + m * 4
             /\ start(m) - (start(m) % 4) = B + m * 4 /\ start(m) < B + m * 4 + 4
             /\ req.addr <= start(m)
  <2> HIDE DEF N, d, B
  <2>1. CASE m = 0
    <3>1. start(m) = req.addr
      BY <2>1
    <3>2. req.addr - (req.addr % 4) = B /\ req.addr < B + 4
      BY <1>2 DEF d, B
    <3>3. QED
      BY <1>2, <2>1, <3>1, <3>2
  <2>2. CASE m # 0
    <3> DEFINE x == B + m * 4
    <3>1. start(m) = x
      BY <1>2, <2>2
    <3>2. m \in Nat
      BY <1>3
    <3>3. x \in Nat /\ x % 4 = 0 /\ x - (x % 4) = x /\ x < x + 4
      BY <1>2, <3>2
    <3> HIDE DEF x
    <3>4. FirstDword(x) = x
      BY <1>2, <3>3 DEF FirstDword
    <3>5. req.addr < B + 4
      BY <1>2 DEF B, d
    <3>6. req.addr <= x
      BY <1>2, <2>2, <3>2, <3>5 DEF x
    <3> HIDE DEF start
    <3>7. QED
      BY <2>2, <3>1, <3>3, <3>4, <3>6 DEF x
  <2>3. QED
    BY <2>1, <2>2
<1>5. ASSUME NEW m \in 0 .. N - 1
      PROVE  LET P == Payload(start(m), N - m)
             IN  /\ P \in 1 .. N - m /\ P * 4 <= MaxPayload
                 /\ P < N - m => Divides(Rcb, B + m * 4 + P * 4)
  <2>1. N - m \in Nat \ {0} /\ start(m) \in Nat /\ start(m) - (start(m) % 4) = B + m * 4
    <3>1. start(m) \in Nat /\ start(m) - (start(m) % 4) = B + m * 4
      BY <1>4
    <3> HIDE DEF N, start
    <3>2. N - m \in Nat \ {0}
      BY <1>3
    <3>3. QED
      BY <3>1, <3>2
  <2> HIDE DEF start, N, B
  <2>2. QED
    BY <2>1, PayloadLegal
<1>6. ASSUME NEW m \in 0 .. N - 1 PROVE rec(m) \in Cpl
  <2>1. start(m) \in Nat /\ FirstDword(start(m)) \in Nat /\ start(m) % Rcb \in Nat
    <3>1. start(m) \in Nat /\ FirstDword(start(m)) = B + m * 4
      BY <1>4
    <3> HIDE DEF start, B
    <3>2. m \in Nat
      BY <1>3
    <3>3. QED
      <4> DEFINE a == start(m)
      <4>1. a \in Nat /\ FirstDword(a) = B + m * 4 /\ B + m * 4 \in Nat
        BY <1>2, <3>1, <3>2
      <4> HIDE DEF a
      <4>2. a % Rcb \in Nat
        BY <4>1, DmaConstants, Offsets
      <4>3. QED
        BY <4>1, <4>2 DEF a
  <2>2. Payload(start(m), N - m) \in Nat /\ Payload(start(m), N - m) * DW <= MaxPayload
    <3>1. Payload(start(m), N - m) \in 1 .. N - m /\ Payload(start(m), N - m) * 4 <= MaxPayload
      BY <1>5
    <3> HIDE DEF start, N
    <3>2. QED
      BY <1>2, <3>1
  <2>3. req.len - (start(m) - req.addr) \in Int
    BY <1>2, <2>1
  <2> HIDE DEF start, N
  <2>4. QED
    BY <2>1, <2>2, <2>3 DEF Cpl
<1>7. /\ step \in [0 .. N - 1 -> Nat \ {0}]
      /\ \A m \in 0 .. N - 1 : m + step[m] <= N
      /\ piece \in [0 .. N - 1 -> Cpl]
  <2>1. piece \in [0 .. N - 1 -> Cpl]
    <3> HIDE DEF rec, N
    <3>1. QED
      BY <1>6
  <2>2. \A m \in 0 .. N - 1 : step[m] \in 1 .. N - m
    <3> HIDE DEF start, N
    <3>1. QED
      BY <1>5
  <2>3. \A m \in 0 .. N - 1 : step[m] \in Nat \ {0} /\ m + step[m] <= N
    <3> HIDE DEF step, N
    <3>1. QED
      BY <1>3, <2>2
  <2>4. step \in [0 .. N - 1 -> Nat \ {0}]
    <3>1. step = [m \in 0 .. N - 1 |-> step[m]]
      OBVIOUS
    <3> HIDE DEF step, N
    <3>2. QED
      BY <2>3, <3>1
  <2>5. QED
    BY <2>1, <2>3, <2>4
<1>8. \E f : InPieces(f, N, step, piece)
  <2> HIDE DEF step, piece, F, N, s
  <2>1. N \in Nat
    BY <1>3
  <2>2. QED
    BY <1>7, <2>1, PiecesExist
<1>9. ASSUME NEW f, NEW m \in 0 .. N
      PROVE  body(f, m) = IF m = N THEN <<>> ELSE <<piece[m]>> \o f[m + step[m]]
  <2>1. CASE m = N
    <3> HIDE DEF rec, start, N
    <3>1. QED
      BY <2>1
  <2>2. CASE m # N
    <3>1. m \in 0 .. N - 1
      <4> HIDE DEF N
      <4>1. QED
        BY <1>3, <2>2
    <3>2. piece[m] = rec(m) /\ step[m] = Payload(start(m), N - m)
      <4> HIDE DEF rec, start, N
      <4>1. QED
        BY <3>1
    <3> HIDE DEF piece, step, rec, start, N
    <3>3. QED
      BY <2>2, <3>2
  <2>3. QED
    BY <2>1, <2>2
<1>10. InPieces(F, N, step, piece)
  <2> HIDE DEF body, step, piece, N, s
  <2>1. PICK f : InPieces(f, N, step, piece)
    BY <1>8
  <2>2. f = [m \in 0 .. N |-> body(f, m)]
    BY <1>9, <2>1 DEF InPieces
  <2>3. F = [m \in 0 .. N |-> body(F, m)]
    BY <2>2
  <2> HIDE DEF F
  <2>4. QED
    BY <1>9, <2>3 DEF InPieces
<1>11. s \in Seq(Cpl) /\ \E p : Positions(p, s, N, step, piece, 0)
  <2> HIDE DEF step, piece, F, N
  <2>1. N \in Nat
    BY <1>3
  <2>2. QED
    BY <1>7, <1>10, <2>1, PiecesInOrder
<1>12. PICK p : Positions(p, s, N, step, piece, 0)
  BY <1>11
<1> HIDE DEF F, s, N, start, rec, B, d
<1>13. /\ p \in Seq(0 .. N - 1) /\ Len(p) = Len(s) /\ p # <<>> /\ p[1] = 0
       /\ \A k \in 1 .. Len(p) :
             /\ s[k] = piece[p[k]]
             /\ p[k] + step[p[k]] = IF k < Len(p) THEN p[k + 1] ELSE N
  BY <1>3, <1>12 DEF Positions
<1>14. Len(s) \in Nat /\ Len(s) # 0 /\ s # <<>>
  BY <1>13, EmptySeq, LenProperties
\* the completion at position m
<1>15. ASSUME NEW k \in 1 .. Len(s)
       PROVE  /\ p[k] \in 0 .. N - 1 /\ s[k] = rec(p[k]) /\ (p[k] = 0 <=> k = 1)
              /\ p[k] + Payload(start(p[k]), N - p[k]) = IF k < Len(s) THEN p[k + 1] ELSE N
  <2>1. p[k] \in 0 .. N - 1
    BY <1>13, ElementOfSeq
  <2>2. s[k] = rec(p[k]) /\ step[p[k]] = Payload(start(p[k]), N - p[k])
    BY <1>13, <2>1
  <2>3. p[k] = 0 => k = 1
    <3>1. SUFFICES ASSUME k # 1 PROVE p[k] # 0
      OBVIOUS
    <3> DEFINE j == k - 1
    <3>2. j \in 1 .. Len(p) /\ j < Len(p) /\ j + 1 = k
      BY <1>13, <1>14, <3>1
    <3> HIDE DEF j
    <3>3. p[j] + step[p[j]] = p[k] /\ p[j] \in 0 .. N - 1
      BY <1>13, <3>2, ElementOfSeq
    <3>4. step[p[j]] \in Nat \ {0} /\ p[j] \in Nat
      BY <1>3, <1>7, <3>3
    <3> HIDE DEF step
    <3>5. QED
      BY <3>3, <3>4
  <2>4. QED
    BY <1>13, <2>1, <2>2, <2>3
<1>16. ASSUME NEW k \in 1 .. Len(s)
       PROVE  /\ Starts(req, s, k) = start(p[k]) /\ s[k].first = B + p[k] * 4
              /\ Ends(s, k) = B + (IF k < Len(s) THEN p[k + 1] ELSE N) * 4
              /\ p[k] < (IF k < Len(s) THEN p[k + 1] ELSE N)
  <2> DEFINE m == p[k]
             P == Payload(start(p[k]), N - p[k])
             n == IF k < Len(s) THEN p[k + 1] ELSE N
  <2>1. m \in 0 .. N - 1 /\ s[k] = rec(m) /\ (m = 0 <=> k = 1) /\ m + P = n
    BY <1>15
  <2>2. P \in 1 .. N - m
    BY <1>5, <2>1
  <2>3. s[k].first = B + m * 4 /\ s[k].length = P
    BY <1>4, <2>1 DEF rec
  <2>4. start(m) = IF m = 0 THEN req.addr ELSE B + m * 4
    BY <1>4, <2>1
  <2>5. Starts(req, s, k) = start(m)
    BY <2>1, <2>3, <2>4 DEF Starts
  <2>6. m \in Nat /\ P \in Nat \ {0} /\ m + P = n
    BY <1>3, <2>1, <2>2
  <2> HIDE DEF m, P, n
  <2>7. m < n /\ (B + m * 4) + P * 4 = B + n * 4
    BY <1>2, <2>6
  <2>8. Ends(s, k) = B + n * 4
    BY <2>3, <2>7 DEF Ends
  <2>9. QED
    BY <2>3, <2>5, <2>7, <2>8 DEF m, n
<1>17. ASSUME NEW k \in 1 .. Len(s)
       PROVE  /\ s[k].ok /\ req.addr <= Starts(req, s, k)
              /\ Starts(req, s, k) \in Nat /\ s[k].first = Starts(req, s, k) - (Starts(req, s, k) % 4)
              /\ s[k].lower = Starts(req, s, k) % Rcb
              /\ s[k].byte_count = req.addr + req.len - Starts(req, s, k)
              /\ Starts(req, s, k) < Ends(s, k)
  <2> DEFINE m == p[k]
             n == IF k < Len(s) THEN p[k + 1] ELSE N
             a == start(m)
  <2>1. /\ m \in 0 .. N - 1 /\ s[k] = rec(m) /\ Starts(req, s, k) = a
        /\ s[k].first = B + m * 4 /\ Ends(s, k) = B + n * 4 /\ m < n
    BY <1>15, <1>16
  <2>2. a \in Nat /\ B + m * 4 = a - (a % 4) /\ a < B + m * 4 + 4 /\ req.addr <= a
    BY <1>4, <2>1
  <2>3. s[k].ok /\ s[k].lower = a % Rcb /\ s[k].byte_count = req.len - (a - req.addr)
    BY <2>1 DEF rec
  <2>4. m \in Nat /\ n \in Nat
    <3>1. m \in Nat
      BY <1>3, <2>1
    <3>2. n \in Nat
      <4>1. CASE k < Len(s)
        <5>1. k + 1 \in 1 .. Len(s)
          BY <1>14, <4>1
        <5>2. p[k + 1] \in 0 .. N - 1
          BY <1>15, <5>1
        <5>3. QED
          BY <1>3, <4>1, <5>2
      <4>2. QED
        BY <1>3, <4>1
    <3>3. QED
      BY <3>1, <3>2
  <2> HIDE DEF m, n, a
  <2>5. B + m * 4 + 4 <= B + n * 4
    BY <1>2, <2>1, <2>4
  <2>6. a < B + n * 4
    BY <1>2, <2>2, <2>4, <2>5
  <2>7. req.len - (a - req.addr) = req.addr + req.len - a
    BY <1>2, <2>2
  <2>8. QED
    BY <2>1, <2>2, <2>3, <2>6, <2>7
<1>18. ASSUME NEW k \in 1 .. Len(s), k < Len(s)
       PROVE  /\ Ends(s, k) < req.addr + req.len /\ Divides(Rcb, Ends(s, k))
              /\ Starts(req, s, k + 1) = Ends(s, k)
  <2> DEFINE m == p[k]
             n == p[k + 1]
             P == Payload(start(p[k]), N - p[k])
  <2>1. k + 1 \in 1 .. Len(s) /\ k + 1 # 1
    BY <1>14, <1>18
  <2>2. Ends(s, k) = B + n * 4 /\ s[k + 1].first = B + n * 4 /\ n \in 0 .. N - 1
    BY <1>15, <1>16, <1>18, <2>1
  <2>3. Starts(req, s, k + 1) = Ends(s, k)
    BY <2>1, <2>2 DEF Starts
  <2>4. Ends(s, k) < req.addr + req.len
    <3> HIDE DEF n
    <3>1. n \in Nat /\ n + 1 <= N
      BY <1>3, <2>2
    <3>2. B + n * 4 + 4 <= B + N * 4
      BY <1>2, <1>3, <3>1
    <3>3. QED
      BY <1>2, <1>3, <2>2, <3>1, <3>2, SMTT(30)
  <2>5. Divides(Rcb, Ends(s, k))
    <3>1. m \in 0 .. N - 1 /\ m + P = n
      BY <1>15, <1>18
    <3>2. P \in 1 .. N - m /\ (P < N - m => Divides(Rcb, B + m * 4 + P * 4))
      BY <1>5, <3>1
    <3> HIDE DEF m, n, P
    <3>3. P < N - m /\ B + m * 4 + P * 4 = B + n * 4
      BY <1>2, <1>3, <2>2, <3>1, <3>2
    <3>4. QED
      BY <2>2, <3>2, <3>3
  <2>6. QED
    BY <2>3, <2>4, <2>5
<1>19. ASSUME NEW k \in 1 .. Len(s), k = Len(s)
       PROVE  Ends(s, k) \in req.addr + req.len .. req.addr + req.len + 3
  BY <1>3, <1>16, <1>19
<1>20. QED
  BY <1>1, <1>11, <1>14, <1>17, <1>18, <1>19 DEF Cut

-----------------------------------------------------------------------------
(* PcieIfDma: tags, answers and what the callers have put together.        *)

\* What may come back to a request: its completions, or some of them and then
\* a bad one.
Bad(c) == [c EXCEPT !.ok = FALSE]
AnswerTo(req, A) ==
  LET C == Completions(req)
  IN  /\ A \in Seq(Cpl) /\ A # <<>> /\ Len(A) <= Len(C)
      /\ \A k \in 1 .. Len(A) : A[k] = C[k] \/ (k = Len(A) /\ A[k] = Bad(C[k]))
      /\ A[Len(A)].ok => Len(A) = Len(C)

\* A in three pieces.
Along(A, x, y, z) ==
  /\ Len(A) = Len(x) + Len(y) + Len(z)
  /\ \A k \in 1 .. Len(x) : x[k] = A[k]
  /\ \A k \in 1 .. Len(y) : y[k] = A[Len(x) + k]
  /\ \A k \in 1 .. Len(z) : z[k] = A[Len(x) + Len(y) + k]

Op == [req : LegalRequest, pc : {"alloc", "wait", "send", "recv", "done"}, tag : Tags \cup {NoTag}, cpls : Seq(Cpl)]
Holds(o) == op[o].pc \in {"send", "recv"}
DTypeOK ==
  /\ op \in Seq(Op) /\ todo \in Seq(Seq(Cpl)) /\ Len(todo) = Len(op)
  /\ current_tag \in Tags /\ tag_active \in [Tags -> BOOLEAN]
  /\ rx_cpl_queues \in [Tags -> Seq(Cpl)]
  /\ late \in Nat
  /\ \A o \in DOMAIN op : Holds(o) \/ todo[o] # <<>> => op[o].tag \in Tags

\* Tags are held by one operation each.
HeldApart ==
  /\ \A o, p \in DOMAIN op : Holds(o) /\ Holds(p) /\ op[o].tag = op[p].tag => o = p
  /\ \A t \in Tags : tag_active[t] <=> \E o \in DOMAIN op : Holds(o) /\ op[o].tag = t

\* What operation o has taken, what is filed under its tag and what is still to
\* come are together an answer to its request.
Answering(o) ==
  /\ op[o].pc \in {"alloc", "wait", "send"} => op[o].cpls = <<>> /\ todo[o] = <<>>
  /\ op[o].pc = "recv" =>
       \E A : /\ AnswerTo(op[o].req, A) /\ Along(A, op[o].cpls, rx_cpl_queues[op[o].tag], todo[o])
              /\ Len(op[o].cpls) < Len(A)
              /\ \A k \in 1 .. Len(todo[o]) : todo[o][k].ok
  /\ op[o].pc = "done" => todo[o] = <<>> /\ AnswerTo(op[o].req, op[o].cpls)
Filed(t) == rx_cpl_queues[t] # <<>> => \E o \in DOMAIN op : op[o].pc = "recv" /\ op[o].tag = t

\* The operations that caller c still has to join follow on each other, from
\* where its data ends to where its read ends.
Bytes(a, n) == [k \in 1 .. n |-> a + k - 1]
From(c, i) == IF i <= Len(caller[c].ops) THEN op[caller[c].ops[i]].req.addr ELSE caller[c].read[1] + caller[c].read[2]
Joining(c) ==
  /\ \A i \in 1 .. Len(caller[c].ops) :
        caller[c].ops[i] \in DOMAIN op /\ From(c, i) + op[caller[c].ops[i]].req.len = From(c, i + 1)
  /\ caller[c].read \in Nat \X (Nat \ {0}) /\ caller[c].read[1] <= From(c, 1)
  /\ caller[c].data = Bytes(caller[c].read[1], From(c, 1) - caller[c].read[1])

InTime ==
  /\ caller \in [Callers -> [pc : {"idle", "join", "raised"}, read : Nat \X Nat, ops : Seq(Nat), data : Seq(Nat)]]
  /\ \A o \in DOMAIN op : Answering(o)
  /\ \A t \in Tags : Filed(t)
  /\ \A c \in Callers : caller[c].pc = "join" => Joining(c)
  /\ asserted

DInv == DTypeOK /\ HeldApart /\ (late = 0 => InTime)

\* Among the answers to a request, only the last completion says it is the last.
LEMMA LastIsLast ==
  ASSUME NEW req \in [addr : Nat, len : Nat \ {0}], NEW A, AnswerTo(req, A), NEW k \in 1 .. Len(A)
  PROVE  IsLast(A[k]) <=> k = Len(A)
<1> DEFINE C == Completions(req)
<1>1. Cut(req, C)
  BY CompletionsCut
<1>2. /\ A \in Seq(Cpl) /\ A # <<>> /\ Len(A) <= Len(C) /\ Len(A) \in Nat /\ Len(C) \in Nat
      /\ A[k] = C[k] \/ (k = Len(A) /\ A[k] = Bad(C[k]))
      /\ A[Len(A)].ok => Len(A) = Len(C)
  <2>1. C \in Seq(Cpl)
    BY <1>1 DEF Cut
  <2>2. QED
    BY <2>1, LenProperties DEF AnswerTo
<1>3. k \in 1 .. Len(C)
  BY <1>2
<1> HIDE DEF C
<1>4. ASSUME C[k].ok
      PROVE  C[k].byte_count <= C[k].length * DW - (C[k].lower % DW) <=> k = Len(C)
  <2> DEFINE at == Starts(req, C, k)
             f == C[k].first
             L == C[k].length
             a == req.addr + req.len
             o == at % 4
  <2>1. /\ at \in Nat /\ f = at - o /\ C[k].lower = at % Rcb /\ C[k].byte_count = a - at
        /\ k < Len(C) => Ends(C, k) < a
        /\ k = Len(C) => Ends(C, k) >= a
        /\ L \in Nat /\ DW = 4 /\ a \in Nat
    <3>1. C[k] \in Cpl
      BY <1>1, <1>3, ElementOfSeq DEF Cut
    <3>2. a \in Nat /\ DW = 4
      BY DmaConstants
    <3>3. at \in Nat /\ f = at - o /\ C[k].lower = at % Rcb /\ C[k].byte_count = a - at
      BY <1>1, <1>3 DEF Cut
    <3>4. (k < Len(C) => Ends(C, k) < a) /\ (k = Len(C) => Ends(C, k) >= a)
      BY <1>1, <1>3, <3>2 DEF Cut
    <3>5. QED
      BY <3>1, <3>2, <3>3, <3>4 DEF Cpl
  <2>2. (at % Rcb) % 4 = o /\ o \in 0 .. 3
    BY <2>1, Offsets
  <2>3. Ends(C, k) = f + L * 4
    BY DEF Ends
  <2>4. k < Len(C) \/ k = Len(C)
    BY <1>2, <1>3
  <2> DEFINE bc == C[k].byte_count
             e == Ends(C, k)
  <2>5. bc = a - at /\ e = at - o + L * 4 /\ (k < Len(C) => e < a) /\ (k = Len(C) => e >= a)
    BY <2>1, <2>3
  <2> HIDE DEF at, f, L, a, o, e, bc
  <2>6. bc <= L * 4 - o <=> k = Len(C)
    <3>1. CASE k < Len(C)
      BY <1>2, <1>3, <2>1, <2>2, <2>5, <3>1
    <3>2. CASE k = Len(C)
      BY <2>1, <2>2, <2>5, <3>2
    <3>3. QED
      BY <2>4, <3>1, <3>2
  <2>7. QED
    BY <2>1, <2>2, <2>6 DEF bc, L
<1>5. C[k].ok
  BY <1>1, <1>3 DEF Cut
<1>6. CASE A[k] = C[k]
  <2>1. IsLast(A[k]) <=> k = Len(C)
    BY <1>4, <1>5, <1>6 DEF IsLast
  <2>2. k = Len(A) => A[Len(A)].ok
    BY <1>5, <1>6
  <2>3. QED
    BY <1>2, <1>3, <2>1, <2>2
<1>7. CASE k = Len(A) /\ A[k] = Bad(C[k])
  <2>1. C[k] \in Cpl
    BY <1>1, <1>3, ElementOfSeq DEF Cut
  <2>2. ~A[k].ok
    BY <1>7, <2>1 DEF Bad, Cpl
  <2>3. QED
    BY <1>7, <2>2 DEF IsLast
<1>8. QED
  BY <1>2, <1>6, <1>7

\* The whole of a request's completions is an answer to it.
LEMMA AllIsAnAnswer ==
  ASSUME NEW req \in [addr : Nat, len : Nat \ {0}]
  PROVE  /\ AnswerTo(req, Completions(req)) /\ Along(Completions(req), <<>>, <<>>, Completions(req))
         /\ 0 < Len(Completions(req)) /\ \A k \in 1 .. Len(Completions(req)) : Completions(req)[k].ok
<1> DEFINE C == Completions(req)
<1>1. Cut(req, C)
  BY CompletionsCut
<1> HIDE DEF C
<1>2. C \in Seq(Cpl) /\ C # <<>> /\ Len(C) \in Nat /\ Len(C) > 0 /\ \A k \in 1 .. Len(C) : C[k].ok
  <2>1. C \in Seq(Cpl) /\ C # <<>> /\ \A k \in 1 .. Len(C) : C[k].ok
    BY <1>1 DEF Cut
  <2>2. QED
    BY <2>1, EmptySeq, LenProperties
<1>3. Len(<<>>) = 0
  OBVIOUS
<1>4. Along(C, <<>>, <<>>, C)
  BY <1>2, <1>3 DEF Along
<1>5. C = Completions(req)
  BY DEF C
<1>6. AnswerTo(req, C)
  BY <1>2, <1>5 DEF AnswerTo
<1>7. QED
  BY <1>2, <1>4, <1>5, <1>6

\* A completion taken from the queue, one filed, and a bad one filed.
LEMMA AlongTaken ==
  ASSUME NEW E, NEW A \in Seq(E), NEW x \in Seq(E), NEW y \in Seq(E), NEW z \in Seq(E), Along(A, x, y, z), y # <<>>
  PROVE  Along(A, Append(x, Head(y)), Tail(y), z) /\ Head(y) = A[Len(x) + 1]
<1>1. /\ Len(x) \in Nat /\ Len(y) \in Nat \ {0} /\ Len(z) \in Nat
      /\ Head(y) = y[1] /\ Len(Tail(y)) = Len(y) - 1
      /\ \A k \in 1 .. Len(y) - 1 : Tail(y)[k] = y[k + 1]
      /\ Len(Append(x, Head(y))) = Len(x) + 1
      /\ \A k \in 1 .. Len(x) : Append(x, Head(y))[k] = x[k]
      /\ Append(x, Head(y))[Len(x) + 1] = Head(y)
  BY EmptySeq, LenProperties, HeadTailProperties, AppendProperties
<1>2. Head(y) = A[Len(x) + 1]
  BY <1>1 DEF Along
<1> DEFINE a == Append(x, Head(y))
           t == Tail(y)
<1>3. /\ Len(a) = Len(x) + 1 /\ Len(t) = Len(y) - 1
      /\ \A k \in 1 .. Len(x) : a[k] = x[k]
      /\ a[Len(x) + 1] = A[Len(x) + 1]
      /\ \A k \in 1 .. Len(y) - 1 : t[k] = y[k + 1]
  BY <1>1, <1>2
<1> HIDE DEF a, t
<1>4. Along(A, a, t, z)
  <2>1. Len(A) = Len(a) + Len(t) + Len(z)
    BY <1>1, <1>3 DEF Along
  <2>2. \A k \in 1 .. Len(a) : a[k] = A[k]
    BY <1>1, <1>3, SMTT(30) DEF Along
  <2>3. \A k \in 1 .. Len(t) : t[k] = A[Len(a) + k]
    BY <1>1, <1>3 DEF Along
  <2>4. \A k \in 1 .. Len(z) : z[k] = A[Len(a) + Len(t) + k]
    BY <1>1, <1>3 DEF Along
  <2>5. QED
    BY <2>1, <2>2, <2>3, <2>4 DEF Along
<1>5. QED
  BY <1>2, <1>4 DEF a, t

LEMMA AlongFiled ==
  ASSUME NEW E, NEW A \in Seq(E), NEW x \in Seq(E), NEW y \in Seq(E), NEW z \in Seq(E), Along(A, x, y, z), z # <<>>
  PROVE  Along(A, x, Append(y, Head(z)), Tail(z))
<1> DEFINE a == Append(y, Head(z))
           t == Tail(z)
<1>1. /\ Len(x) \in Nat /\ Len(y) \in Nat /\ Len(z) \in Nat \ {0}
      /\ Head(z) = z[1] /\ Len(t) = Len(z) - 1
      /\ \A k \in 1 .. Len(z) - 1 : t[k] = z[k + 1]
      /\ Len(a) = Len(y) + 1
      /\ \A k \in 1 .. Len(y) : a[k] = y[k]
      /\ a[Len(y) + 1] = Head(z)
  BY EmptySeq, LenProperties, HeadTailProperties, AppendProperties
<1>2. a[Len(y) + 1] = A[Len(x) + Len(y) + 1]
  BY <1>1 DEF Along
<1> HIDE DEF a, t
<1>3. Len(A) = Len(x) + Len(a) + Len(t)
  BY <1>1 DEF Along
<1>4. \A k \in 1 .. Len(a) : a[k] = A[Len(x) + k]
  <2> TAKE k \in 1 .. Len(a)
  <2>1. CASE k = Len(y) + 1
    <3>1. Len(x) + k = Len(x) + Len(y) + 1
      BY <1>1, <2>1
    <3>2. QED
      BY <1>2, <2>1, <3>1
  <2>2. CASE k # Len(y) + 1
    <3>1. k \in 1 .. Len(y)
      BY <1>1, <2>2
    <3>2. QED
      BY <1>1, <3>1 DEF Along
  <2>3. QED
    BY <2>1, <2>2
<1>5. \A k \in 1 .. Len(t) : t[k] = A[Len(x) + Len(a) + k]
  BY <1>1 DEF Along
<1>6. \A k \in 1 .. Len(x) : x[k] = A[k]
  BY DEF Along
<1>7. QED
  BY <1>3, <1>4, <1>5, <1>6 DEF Along, a, t

LEMMA AlongBad ==
  ASSUME NEW req \in [addr : Nat, len : Nat \ {0}], NEW A, AnswerTo(req, A),
         NEW x \in Seq(Cpl), NEW y \in Seq(Cpl), NEW z \in Seq(Cpl), Along(A, x, y, z), z # <<>>,
         \A k \in 1 .. Len(z) : z[k].ok
  PROVE  \E B : /\ AnswerTo(req, B) /\ Along(B, x, Append(y, Bad(Head(z))), <<>>)
                /\ Len(B) = Len(x) + Len(y) + 1
<1> DEFINE C == Completions(req)
           n == Len(x) + Len(y) + 1
           B == [k \in 1 .. n |-> IF k = n THEN Bad(C[k]) ELSE C[k]]
           a == Append(y, Bad(Head(z)))
<1>1. Cut(req, C)
  BY CompletionsCut
<1>2. /\ A \in Seq(Cpl) /\ A # <<>> /\ Len(A) <= Len(C) /\ Len(A) \in Nat /\ Len(C) \in Nat
      /\ \A k \in 1 .. Len(A) : A[k] = C[k] \/ (k = Len(A) /\ A[k] = Bad(C[k]))
      /\ C \in Seq(Cpl) /\ \A k \in 1 .. Len(C) : C[k] \in Cpl
  <2>1. C \in Seq(Cpl)
    BY <1>1 DEF Cut
  <2>2. QED
    BY <2>1, LenProperties, ElementOfSeq DEF AnswerTo
<1>3. Len(x) \in Nat /\ Len(y) \in Nat /\ Len(z) \in Nat \ {0} /\ n \in Nat \ {0} /\ n <= Len(A)
  <2>1. Len(x) \in Nat /\ Len(y) \in Nat /\ Len(z) \in Nat \ {0} /\ Len(A) = Len(x) + Len(y) + Len(z)
    BY EmptySeq, LenProperties DEF Along
  <2>2. QED
    BY <2>1
<1>4. /\ Head(z) = A[n] /\ Head(z) \in Cpl /\ Head(z).ok
      /\ Len(a) = Len(y) + 1 /\ a[Len(y) + 1] = Bad(Head(z))
      /\ \A k \in 1 .. Len(y) : a[k] = y[k]
  <2>1. Head(z) = z[1] /\ 1 \in 1 .. Len(z) /\ Head(z) \in Cpl
    BY <1>3, HeadTailProperties
  <2>2. Bad(Head(z)) \in Cpl
    BY <2>1 DEF Cpl, Bad
  <2>3. Head(z) = A[n] /\ Head(z).ok
    BY <2>1, <1>3 DEF Along
  <2>4. Len(a) = Len(y) + 1 /\ a[Len(y) + 1] = Bad(Head(z)) /\ \A k \in 1 .. Len(y) : a[k] = y[k]
    BY <2>2, AppendProperties
  <2>5. QED
    BY <2>1, <2>3, <2>4
<1>5. n \in 1 .. Len(A) /\ n \in 1 .. Len(C) /\ C[n] = A[n]
  <2>1. n \in 1 .. Len(A) /\ n \in 1 .. Len(C)
    BY <1>2, <1>3
  <2>2. C[n] \in Cpl
    BY <1>2, <2>1
  <2>3. ~Bad(C[n]).ok
    BY <2>2 DEF Bad, Cpl
  <2>4. QED
    BY <1>2, <1>4, <2>1, <2>3
<1> HIDE DEF C, n
<1>6. B \in Seq(Cpl) /\ Len(B) = n /\ \A k \in 1 .. n : B[k] = IF k = n THEN Bad(C[k]) ELSE C[k]
  <2>1. \A k \in 1 .. n : C[k] \in Cpl /\ Bad(C[k]) \in Cpl
    <3>1. \A k \in 1 .. n : C[k] \in Cpl
      BY <1>2, <1>3
    <3>2. QED
      BY <3>1 DEF Bad, Cpl
  <2>2. n \in Nat
    BY <1>3
  <2>3. QED
    BY <2>1, <2>2
<1> HIDE DEF B
<1>7. AnswerTo(req, B)
  <2>1. B # <<>>
    BY <1>3, <1>6, EmptySeq
  <2>2. ~B[Len(B)].ok
    <3>1. n \in 1 .. n /\ C[n] \in Cpl
      BY <1>2, <1>3, <1>5
    <3>2. B[Len(B)] = Bad(C[n])
      BY <1>6, <3>1
    <3>3. QED
      BY <3>1, <3>2 DEF Bad, Cpl
  <2>3. QED
    BY <1>2, <1>3, <1>6, <2>1, <2>2 DEF AnswerTo, C
<1> HIDE DEF a
<1>8. Along(B, x, a, <<>>)
  <2>1. \A k \in 1 .. n - 1 : A[k] = C[k]
    BY <1>2, <1>3
  <2>2. Len(B) = Len(x) + Len(a) + Len(<<>>)
    BY <1>3, <1>4, <1>6 DEF n
  <2>3. \A k \in 1 .. Len(x) : x[k] = B[k]
    <3>1. \A k \in 1 .. Len(x) : k \in 1 .. n - 1 /\ k # n
      BY <1>3 DEF n
    <3>2. QED
      BY <1>6, <2>1, <3>1 DEF Along
  <2>4. \A k \in 1 .. Len(a) : a[k] = B[Len(x) + k]
    <3>1. \A k \in 1 .. Len(y) : Len(x) + k \in 1 .. n - 1 /\ Len(x) + k # n
      BY <1>3 DEF n
    <3>2. \A k \in 1 .. Len(y) : a[k] = B[Len(x) + k]
      <4> TAKE k \in 1 .. Len(y)
      <4>1. a[k] = A[Len(x) + k]
        BY <1>4 DEF Along
      <4>2. Len(x) + k \in 1 .. n - 1 /\ Len(x) + k # n /\ Len(x) + k \in 1 .. n
        BY <1>3, <3>1
      <4> DEFINE j == Len(x) + k
      <4> HIDE DEF j
      <4>3. A[j] = B[j]
        BY <1>6, <2>1, <4>2 DEF j
      <4>4. QED
        BY <4>1, <4>3 DEF j
    <3>3. a[Len(y) + 1] = B[Len(x) + (Len(y) + 1)]
      <4>1. Len(x) + (Len(y) + 1) = n /\ n \in 1 .. n
        BY <1>3 DEF n
      <4>2. QED
        BY <1>4, <1>5, <1>6, <4>1
    <3>4. QED
      <4> TAKE k \in 1 .. Len(a)
      <4>1. k = Len(y) + 1 \/ k \in 1 .. Len(y)
        BY <1>3, <1>4
      <4>2. QED
        BY <3>2, <3>3, <4>1
  <2>5. QED
    BY <2>2, <2>3, <2>4 DEF Along
<1>9. QED
  BY <1>6, <1>7, <1>8 DEF a, n

-----------------------------------------------------------------------------
(* PcieIfDma: what an operation's completions give.                        *)

LEMMA BytesOf ==
  ASSUME NEW a \in Nat, NEW m \in Nat, NEW n \in Nat
  PROVE  Bytes(a, m) \in Seq(Nat) /\ Len(Bytes(a, m)) = m /\ Bytes(a, m) \o Bytes(a + m, n) = Bytes(a, m + n)
<1> DEFINE x == Bytes(a, m)
           y == Bytes(a + m, n)
           z == Bytes(a, m + n)
<1>1. /\ x \in Seq(Nat) /\ Len(x) = m /\ \A i \in 1 .. m : x[i] = a + i - 1
      /\ y \in Seq(Nat) /\ Len(y) = n /\ \A i \in 1 .. n : y[i] = a + m + i - 1
      /\ z \in Seq(Nat) /\ Len(z) = m + n /\ \A i \in 1 .. m + n : z[i] = a + i - 1
  <2>1. ASSUME NEW b \in Nat, NEW j \in Nat
        PROVE  Bytes(b, j) \in Seq(Nat) /\ Len(Bytes(b, j)) = j /\ \A i \in 1 .. j : Bytes(b, j)[i] = b + i - 1
    <3>1. \A i \in 1 .. j : b + i - 1 \in Nat
      OBVIOUS
    <3>2. QED
      BY <3>1 DEF Bytes
  <2>2. a + m \in Nat /\ m + n \in Nat
    OBVIOUS
  <2>3. QED
    BY <2>1, <2>2
<1> HIDE DEF x, y, z
<1>2. /\ x \o y \in Seq(Nat) /\ Len(x \o y) = m + n
      /\ \A i \in 1 .. m + n : (x \o y)[i] = IF i <= m THEN x[i] ELSE y[i - m]
  BY <1>1, ConcatProperties
<1>3. \A i \in 1 .. m + n : (x \o y)[i] = z[i]
  BY <1>1, <1>2, SMTT(30)
<1>4. x \o y = z
  BY <1>1, <1>2, <1>3, SeqEqual
<1>5. QED
  BY <1>1, <1>4 DEF x, y, z

Start == [m |-> 0, data |-> <<>>, end |-> "more"]

Folding(f, s, len, n) == f = [k \in 0 .. n |-> IF k = 0 THEN Start ELSE Take(f[k - 1], s[k], len)]

LEMMA FoldExists ==
  ASSUME NEW s, NEW len, NEW n \in Nat
  PROVE  \E f : Folding(f, s, len, n)
<1> DEFINE body(f, k) == IF k = 0 THEN Start ELSE Take(f[k - 1], s[k], len)
           X == {j \in Nat : \E f : f = [k \in 0 .. j |-> body(f, k)]}
<1>1. 0 \in X
  <2> DEFINE f == [k \in 0 .. 0 |-> Start]
  <2>1. f = [k \in 0 .. 0 |-> body(f, k)]
    OBVIOUS
  <2>2. QED
    BY <2>1
<1>2. ASSUME NEW j \in X PROVE j + 1 \in X
  <2>1. j \in Nat
    OBVIOUS
  <2>2. PICK f : f = [k \in 0 .. j |-> body(f, k)]
    OBVIOUS
  <2> DEFINE g == [k \in 0 .. j + 1 |-> IF k = j + 1 THEN Take(f[j], s[j + 1], len) ELSE f[k]]
  <2> HIDE DEF X
  <2>3. \A k \in 0 .. j + 1 : g[k] = body(g, k)
    <3> TAKE k \in 0 .. j + 1
    <3>1. CASE k = j + 1
      <4>1. g[k] = Take(f[j], s[j + 1], len) /\ k # 0 /\ k - 1 = j
        BY <2>1, <3>1
      <4>2. g[j] = f[j]
        BY <2>1
      <4> HIDE DEF g
      <4>3. QED
        BY <3>1, <4>1, <4>2
    <3>2. CASE k # j + 1
      <4>1. k \in 0 .. j /\ g[k] = f[k]
        BY <2>1, <3>2
      <4>2. f[k] = body(f, k)
        BY <2>2, <4>1
      <4>3. k # 0 => g[k - 1] = f[k - 1]
        BY <2>1, <4>1
      <4> HIDE DEF g
      <4>4. QED
        BY <4>1, <4>2, <4>3
    <3>3. QED
      BY <3>1, <3>2
  <2>4. g = [k \in 0 .. j + 1 |-> g[k]]
    OBVIOUS
  <2> HIDE DEF g
  <2>5. g = [k \in 0 .. j + 1 |-> body(g, k)]
    BY <2>3, <2>4
  <2>6. QED
    BY <2>1, <2>5 DEF X
<1>3. X = Nat
  <2>1. X \in SUBSET Nat
    OBVIOUS
  <2> HIDE DEF X
  <2>2. QED
    BY <1>1, <1>2, <2>1, Induct
<1>4. PICK f : f = [k \in 0 .. n |-> body(f, k)]
  BY <1>3
<1>5. QED
  BY <1>4 DEF Folding

Gathered == [m : Int, data : Seq(Nat), end : {"more", "error", "assertion"}]

\* One completion more.
LEMMA TakeOne ==
  ASSUME NEW req \in [addr : Nat, len : Nat \ {0}], NEW k \in 1 .. Len(Completions(req)),
         NEW st \in Gathered, st.m = Starts(req, Completions(req), k) - req.addr,
         st.data = Bytes(req.addr, st.m), st.end = "more"
  PROVE  LET C == Completions(req)
             next == Take(st, C[k], req.len)
             failed == Take(st, Bad(C[k]), req.len)
         IN  /\ st.m \in Nat /\ st.m < req.len
             /\ next \in Gathered /\ next.end = "more" /\ next.m = Ends(C, k) - req.addr
             /\ next.data = Bytes(req.addr, IF k < Len(C) THEN Ends(C, k) - req.addr ELSE req.len)
             /\ k = Len(C) => next.m >= req.len
             /\ failed \in Gathered /\ failed.m = st.m /\ failed.end = "error"
<1> DEFINE C == Completions(req)
           at == Starts(req, C, k)
           c == C[k]
           e == Ends(C, k)
           a == req.addr
           l == req.len
           o == at % 4
           f == c.first
           L == c.length
           last == k = Len(C)
<1>1. Cut(req, C)
  BY CompletionsCut
<1>2. /\ a \in Nat /\ l \in Nat \ {0} /\ DW = 4 /\ c.ok /\ c \in Cpl
      /\ at \in Nat /\ f = at - o /\ c.lower = at % Rcb /\ c.byte_count = a + l - at
      /\ at < e /\ e = f + L * 4 /\ L \in Nat
      /\ ~last => e < a + l
      /\ last => e \in a + l .. a + l + 3
  <2>1. a \in Nat /\ l \in Nat \ {0} /\ DW = 4
    BY DmaConstants
  <2>2. c \in Cpl /\ L \in Nat
    <3>1. c \in Cpl
      BY <1>1, ElementOfSeq DEF Cut
    <3>2. QED
      BY <3>1 DEF Cpl
  <2>3. Len(C) \in Nat
    BY <1>1, LenProperties DEF Cut
  <2>4. e = f + L * 4
    BY DEF Ends
  <2>5. /\ c.ok /\ at \in Nat /\ f = at - o /\ c.lower = at % Rcb /\ c.byte_count = a + l - at /\ at < e
        /\ ~last => e < a + l
        /\ last => e \in a + l .. a + l + 3
    <3>1. k \in 1 .. Len(C)
      OBVIOUS
    <3> HIDE DEF C
    <3>2. k < Len(C) \/ k = Len(C)
      BY <2>3, <3>1
    <3>3. QED
      BY <1>1, <3>1, <3>2 DEF Cut
  <2>6. QED
    BY <2>1, <2>2, <2>4, <2>5
\* where a completion starts
<1>3. a <= at /\ at < a + l
  <2>1. k \in 1 .. Len(C) /\ Len(C) \in Nat
    BY <1>1, LenProperties DEF Cut
  <2> HIDE DEF C
  <2>2. a <= at
    BY <1>1, <2>1 DEF Cut
  <2>3. CASE k = 1
    BY <1>2, <2>2, <2>3 DEF Starts
  <2>4. CASE k # 1
    <3> DEFINE j == k - 1
    <3>1. j \in 1 .. Len(C) /\ j < Len(C) /\ j + 1 = k
      BY <2>1, <2>4
    <3> HIDE DEF j
    <3>2. Ends(C, j) < a + l /\ Starts(req, C, j + 1) = Ends(C, j)
      BY <1>1, <3>1 DEF Cut
    <3>3. at < a + l
      BY <3>1, <3>2
    <3>4. QED
      BY <2>2, <3>3
  <2>5. QED
    BY <2>3, <2>4
<1> DEFINE bc == c.byte_count
           m == at - a
           n == Smaller(bc, L * 4 - o)
           new == IF last THEN l ELSE e - a
\* the sums the code makes
<1>4. /\ m \in Nat /\ m < l /\ bc = l - m /\ bc >= 1 /\ o \in 0 .. 3 /\ c.lower % 4 = o
      /\ Larger(l - m, 1) = bc /\ bc + 3 + o >= L * 4
      /\ m + L * 4 - o = e - a /\ n \in Nat /\ m + n = new /\ f + o = at /\ at = a + m
      /\ e - a >= new /\ new \in Nat
  <2>1. (at % Rcb) % 4 = o /\ o \in 0 .. 3
    BY <1>2, Offsets
  <2>2. c.lower % 4 = o
    BY <1>2, <2>1
  <2>3. /\ a \in Nat /\ l \in Nat \ {0} /\ at \in Nat /\ f = at - o /\ bc = a + l - at
        /\ at < e /\ e = f + L * 4 /\ L \in Nat /\ (~last => e < a + l) /\ (last => e \in a + l .. a + l + 3)
        /\ a <= at /\ at < a + l
    BY <1>2, <1>3
  <2> HIDE DEF a, l, at, f, bc, e, L, o
  <2>5. m \in Nat /\ m < l /\ bc = l - m /\ bc >= 1 /\ L * 4 - o = e - at /\ at = a + m /\ f + o = at
    BY <2>1, <2>3
  <2>6. Larger(l - m, 1) = bc
    BY <2>3, <2>5 DEF Larger
  <2>7. e <= a + l + 3
    BY <2>3
  <2>8. bc + 3 + o >= L * 4 /\ m + L * 4 - o = e - a
    BY <2>1, <2>3, <2>5, <2>7
  <2>9. n = (IF last THEN bc ELSE e - at)
    <3>1. CASE last
      <4>1. e >= a + l
        BY <2>3, <3>1
      <4> DEFINE x == L * 4 - o
      <4>2. x = e - at
        BY <2>5
      <4> HIDE DEF x, last
      <4>3. bc <= x /\ bc \in Int /\ x \in Int
        BY <2>3, <4>1, <4>2
      <4>4. Smaller(bc, x) = bc
        BY <4>3 DEF Smaller
      <4>5. QED
        BY <3>1, <4>4 DEF x
    <3>2. CASE ~last
      BY <2>3, <2>5, <3>2 DEF Smaller
    <3>3. QED
      BY <3>1, <3>2
  <2>10. n \in Nat /\ m + n = new /\ e - a >= new /\ new \in Nat
    <3>1. CASE last
      BY <2>3, <2>5, <2>9, <3>1, SMTT(30)
    <3>2. CASE ~last
      <4>1. new = e - a /\ n = e - at
        BY <2>9, <3>2
      <4> HIDE DEF new, n, last
      <4>2. QED
        BY <2>1, <2>3, <2>5, <4>1
    <3>3. QED
      BY <3>1, <3>2
  <2>11. QED
    BY <2>1, <2>2, <2>5, <2>6, <2>8, <2>10
<1>5. Bytes(a, m) \o [j \in 1 .. n |-> f + o + j - 1] = Bytes(a, new)
  <2>1. a + m = f + o
    BY <1>4
  <2>2. [j \in 1 .. n |-> f + o + j - 1] = Bytes(f + o, n)
    BY DEF Bytes
  <2>3. a \in Nat /\ m \in Nat /\ n \in Nat /\ m + n = new
    BY <1>2, <1>4
  <2> HIDE DEF a, m, n, f, o, new
  <2>4. Bytes(a, m) \o Bytes(a + m, n) = Bytes(a, m + n)
    BY ONLY <2>3, BytesOf, Zenon
  <2>5. QED
    BY <2>1, <2>2, <2>3, <2>4
<1>6. k \in 1 .. Len(C) /\ Len(C) \in Nat /\ (k < Len(C) <=> ~last)
  <2>1. k \in 1 .. Len(C) /\ Len(C) \in Nat
    BY <1>1, LenProperties DEF Cut
  <2> HIDE DEF C
  <2>2. QED
    BY <2>1
<1>7. st.m = m /\ st.end = "more" /\ st.data = Bytes(a, m) /\ ~(m >= l)
  <2>1. st.m = m /\ st.end = "more" /\ st.data = Bytes(a, m)
    OBVIOUS
  <2>2. m \in Nat /\ l \in Nat /\ m < l
    BY <1>2, <1>4
  <2>3. ~(m >= l)
    <3> HIDE DEF m, l
    <3>1. QED
      BY <2>2
  <2>4. QED
    BY <2>1, <2>3
<1> DEFINE next == Take(st, c, l)
           failed == Take(st, Bad(c), l)
<1>8. next \in Gathered /\ next.m = e - a /\ next.data = Bytes(a, new) /\ next.end = "more"
  <2>1. n = Smaller(c.byte_count, c.length * 4 - o)
    OBVIOUS
  <2>2. ~(c.byte_count + 3 + o < L * 4) /\ ~(c.byte_count # Larger(l - m, 1))
    <3>1. bc + 3 + o >= L * 4 /\ Larger(l - m, 1) = bc /\ o \in Nat /\ L \in Nat /\ bc \in Int
      <4>1. bc + 3 + o >= L * 4 /\ Larger(l - m, 1) = bc /\ o \in 0 .. 3 /\ L \in Nat /\ bc = l - m
            /\ l \in Nat /\ m \in Nat
        BY <1>2, <1>4
      <4> HIDE DEF bc, L, o, m, l
      <4>2. QED
        BY <4>1
    <3>2. ~(bc + 3 + o < L * 4) /\ ~(bc # Larger(l - m, 1))
      <4> HIDE DEF bc, L, o, m, l
      <4>1. QED
        BY <3>1
    <3>3. QED
      BY <3>2
  <2>3. st.m + c.length * DW - (c.lower % DW) = e - a
    BY <1>2, <1>4, <1>7
  <2>4. c.lower % DW = o
    BY <1>2, <1>4
  <2>5. st.data \o [j \in 1 .. n |-> c.first + (c.lower % DW) + j - 1] = Bytes(a, new)
    BY <1>5, <1>7, <2>4
  <2> DEFINE newm == st.m + c.length * DW - (c.lower % DW)
             newdata == st.data \o [j \in 1 .. n |-> c.first + (c.lower % DW) + j - 1]
  <2> HIDE DEF a, m, l, e, new, n, o
  <2>6. Take(st, c, l) = [st EXCEPT !.m = newm, !.data = newdata]
    BY <1>2, <1>7, <2>1, <2>2, <2>4 DEF Take
  <2>7. newm = e - a /\ newdata = Bytes(a, new) /\ newm \in Int /\ newdata \in Seq(Nat)
    <3>1. e - a \in Int /\ Bytes(a, new) \in Seq(Nat)
      <4>1. e \in Int /\ a \in Nat /\ new \in Nat
        BY <1>2, <1>4
      <4>2. QED
        BY <4>1, BytesOf
    <3>2. QED
      BY <2>3, <2>5, <3>1
  <2> HIDE DEF newm, newdata, c
  <2>8. next \in Gathered /\ next.m = newm /\ next.data = newdata /\ next.end = st.end
    BY <2>6, <2>7 DEF Gathered
  <2> HIDE DEF next
  <2>9. QED
    BY <1>7, <2>7, <2>8
<1>9. failed \in Gathered /\ failed.m = st.m /\ failed.end = "error"
  <2>1. ~Bad(c).ok
    BY <1>2 DEF Bad, Cpl
  <2>2. failed = [st EXCEPT !.end = "error"]
    <3> HIDE DEF l, c
    <3>1. QED
      BY <1>7, <2>1 DEF Take
  <2> HIDE DEF failed
  <2>3. QED
    BY <2>2 DEF Gathered
<1>10. QED
  <2>1. last => e - a >= l
    BY <1>2, <1>3, <1>4
  <2>2. (IF k < Len(C) THEN e - a ELSE l) = new
    <3>1. k < Len(C) <=> ~last
      BY <1>6
    <3>2. QED
      BY <3>1
  <2>3. st.m \in Nat /\ st.m < l
    BY <1>4, <1>7
  <2> HIDE DEF e, l, m, new, c, next, failed
  <2>4. QED
    BY <1>8, <1>9, <2>1, <2>2, <2>3 DEF c, e, l, next, failed

\* What an answer gives: its request's bytes, unless it ends badly.
LEMMA AnswerGives ==
  ASSUME NEW o, op[o].req \in [addr : Nat, len : Nat \ {0}], AnswerTo(op[o].req, op[o].cpls)
  PROVE  /\ Collected(o).m >= op[o].req.len => Collected(o).data = Bytes(op[o].req.addr, op[o].req.len)
         /\ Collected(o).end # "assertion" /\ Collected(o).m \in Int
<1> DEFINE req == op[o].req
           A == op[o].cpls
           C == Completions(req)
           F == CHOOSE F : F = [k \in 0 .. Len(A) |-> IF k = 0 THEN Start ELSE Take(F[k - 1], A[k], req.len)]
<1>1. Collected(o) = F[Len(A)]
  BY DEF Collected, Start
<1>2. Cut(req, C)
  BY CompletionsCut
<1>3. /\ req \in [addr : Nat, len : Nat \ {0}] /\ req.addr \in Nat /\ req.len \in Nat \ {0}
      /\ A \in Seq(Cpl) /\ A # <<>> /\ Len(A) <= Len(C) /\ Len(A) \in Nat \ {0} /\ Len(C) \in Nat
      /\ \A k \in 1 .. Len(A) : A[k] = C[k] \/ (k = Len(A) /\ A[k] = Bad(C[k]))
      /\ A[Len(A)].ok => Len(A) = Len(C)
  <2>1. C \in Seq(Cpl)
    BY <1>2 DEF Cut
  <2>2. req \in [addr : Nat, len : Nat \ {0}]
    OBVIOUS
  <2>3. /\ A \in Seq(Cpl) /\ A # <<>> /\ Len(A) <= Len(C)
        /\ \A k \in 1 .. Len(A) : A[k] = C[k] \/ (k = Len(A) /\ A[k] = Bad(C[k]))
        /\ A[Len(A)].ok => Len(A) = Len(C)
    BY DEF AnswerTo
  <2> HIDE DEF A, C, req, F
  <2>4. QED
    BY <2>1, <2>2, <2>3, EmptySeq, LenProperties
<1>4. F = [k \in 0 .. Len(A) |-> IF k = 0 THEN Start ELSE Take(F[k - 1], A[k], req.len)]
  <2> HIDE DEF A, C, req
  <2>1. PICK f : Folding(f, A, req.len, Len(A))
    BY <1>3, FoldExists
  <2>2. f = [k \in 0 .. Len(A) |-> IF k = 0 THEN Start ELSE Take(f[k - 1], A[k], req.len)]
    BY <2>1 DEF Folding
  <2>3. QED
    BY <2>2
<1> HIDE DEF F, A, C, req
<1>5. F[0] = Start /\ \A k \in 1 .. Len(A) : F[k] = Take(F[k - 1], A[k], req.len)
  <2>1. \A k \in 0 .. Len(A) : F[k] = IF k = 0 THEN Start ELSE Take(F[k - 1], A[k], req.len)
    BY <1>4
  <2>2. 0 \in 0 .. Len(A) /\ \A k \in 1 .. Len(A) : k \in 0 .. Len(A) /\ k # 0
    BY <1>3
  <2>3. QED
    BY <2>1, <2>2
<1> DEFINE Before(k) == /\ F[k - 1] \in Gathered /\ F[k - 1].m = Starts(req, C, k) - req.addr
                        /\ F[k - 1].data = Bytes(req.addr, F[k - 1].m) /\ F[k - 1].end = "more"
\* one completion after another
<1>6. Before(1)
  <2>1. Starts(req, C, 1) = req.addr
    BY DEF Starts
  <2>2. Bytes(req.addr, 0) = <<>>
    <3>1. Bytes(req.addr, 0) \in Seq(Nat) /\ Len(Bytes(req.addr, 0)) = 0
      BY <1>3, BytesOf
    <3>2. QED
      BY <3>1, EmptySeq
  <2>3. Start \in Gathered /\ Start.m = 0 /\ Start.data = <<>> /\ Start.end = "more"
    BY DEF Start, Gathered
  <2>4. QED
    BY <1>3, <1>5, <2>1, <2>2, <2>3
<1>7. ASSUME NEW k \in 1 .. Len(A), Before(k), A[k] = C[k]
      PROVE  /\ k < Len(C) => Before(k + 1)
             /\ k = Len(C) => F[k].m >= req.len /\ F[k].data = Bytes(req.addr, req.len) /\ F[k].end = "more"
             /\ F[k] \in Gathered
  <2> DEFINE st == F[k - 1]
             next == Take(st, C[k], req.len)
  <2>1. k \in 1 .. Len(C)
    BY <1>3
  <2>2. /\ next \in Gathered /\ next.end = "more" /\ next.m = Ends(C, k) - req.addr
        /\ next.data = Bytes(req.addr, IF k < Len(C) THEN Ends(C, k) - req.addr ELSE req.len)
        /\ k = Len(C) => next.m >= req.len
    <3>1. /\ st \in Gathered /\ st.m = Starts(req, C, k) - req.addr
          /\ st.data = Bytes(req.addr, st.m) /\ st.end = "more"
      BY <1>7
    <3> HIDE DEF st
    <3>2. QED
      BY <1>3, <2>1, <3>1, TakeOne DEF C
  <2>3. F[k] = next
    BY <1>5, <1>7
  <2>4. k < Len(C) => Starts(req, C, k + 1) = Ends(C, k)
    BY <1>2, <2>1 DEF Cut
  <2>5. k + 1 - 1 = k
    BY <2>1
  <2> HIDE DEF next
  <2>6. QED
    BY <2>1, <2>2, <2>3, <2>4, <2>5
<1>8. ASSUME NEW k \in 1 .. Len(A), Before(k), A[k] = Bad(C[k])
      PROVE  F[k] \in Gathered /\ F[k].m < req.len /\ F[k].end = "error"
  <2> DEFINE st == F[k - 1]
             failed == Take(st, Bad(C[k]), req.len)
  <2>1. k \in 1 .. Len(C)
    BY <1>3
  <2>2. st.m < req.len /\ failed \in Gathered /\ failed.m = st.m /\ failed.end = "error"
    <3>1. /\ st \in Gathered /\ st.m = Starts(req, C, k) - req.addr
          /\ st.data = Bytes(req.addr, st.m) /\ st.end = "more"
      BY <1>8
    <3> HIDE DEF st
    <3>2. QED
      BY <1>3, <2>1, <3>1, TakeOne DEF C
  <2>3. F[k] = failed
    BY <1>5, <1>8
  <2> HIDE DEF failed
  <2>4. QED
    BY <2>2, <2>3
<1> HIDE DEF Before
<1>9. \A k \in 1 .. Len(A) : Before(k)
  <2> DEFINE X == {n \in Nat : n + 1 \in 1 .. Len(A) => Before(n + 1)}
  <2>1. 0 \in X
    BY <1>6
  <2>2. ASSUME NEW n \in X PROVE n + 1 \in X
    <3>1. SUFFICES ASSUME (n + 1) + 1 \in 1 .. Len(A) PROVE Before((n + 1) + 1)
      OBVIOUS
    <3> DEFINE k == n + 1
    <3>2. n \in Nat /\ k \in 1 .. Len(A) /\ k < Len(A)
      BY <1>3, <3>1
    <3>3. Before(k)
      BY <3>2
    <3> HIDE DEF k
    <3>4. A[k] = C[k] /\ k < Len(C)
      BY <1>3, <3>2
    <3>5. QED
      BY <1>7, <3>2, <3>3, <3>4 DEF k
  <2>3. X \in SUBSET Nat
    OBVIOUS
  <2>4. X = Nat
    <3> HIDE DEF X
    <3>1. QED
      BY <2>1, <2>2, <2>3, Induct
  <2>5. ASSUME NEW k \in 1 .. Len(A) PROVE Before(k)
    <3> DEFINE n == k - 1
    <3>1. n \in Nat /\ n + 1 = k
      OBVIOUS
    <3>2. n \in X
      BY <2>4, <3>1
    <3> HIDE DEF n
    <3>3. QED
      BY <3>1, <3>2
  <2>6. QED
    BY <2>5
\* the last one
<1> DEFINE k == Len(A)
<1>10. k \in 1 .. Len(A) /\ Before(k)
  BY <1>3, <1>9
<1>11. CASE A[k] = C[k]
  <2>1. k \in 1 .. Len(C) /\ C[k].ok
    <3>1. k \in 1 .. Len(C)
      BY <1>3
    <3>2. QED
      BY <1>2, <3>1 DEF Cut
  <2>2. k = Len(C)
    BY <1>3, <1>11, <2>1
  <2>3. F[k] \in Gathered /\ F[k].data = Bytes(req.addr, req.len) /\ F[k].end = "more"
    BY <1>7, <1>10, <1>11, <2>2
  <2>4. QED
    BY <1>1, <2>3 DEF Gathered, req
<1>12. CASE A[k] = Bad(C[k])
  <2>1. F[k] \in Gathered /\ F[k].m < req.len /\ F[k].end = "error"
    BY <1>8, <1>10, <1>12
  <2>2. F[k].m \in Int /\ ~(F[k].m >= req.len)
    BY <1>3, <2>1 DEF Gathered
  <2>3. QED
    BY <1>1, <2>1, <2>2 DEF req
<1>13. QED
  BY <1>3, <1>10, <1>11, <1>12

-----------------------------------------------------------------------------
(* PcieIfDma: every step keeps DInv.                                       *)

LEMMA OpFields ==
  ASSUME DTypeOK
  PROVE  /\ Len(op) \in Nat /\ DOMAIN op = 1 .. Len(op) /\ DOMAIN todo = 1 .. Len(op)
         /\ \A p \in DOMAIN op :
               /\ op[p] \in Op /\ op[p].req \in LegalRequest /\ op[p].req \in [addr : Nat, len : Nat \ {0}]
               /\ op[p].pc \in {"alloc", "wait", "send", "recv", "done"}
               /\ op[p].tag \in Tags \cup {NoTag} /\ op[p].cpls \in Seq(Cpl) /\ todo[p] \in Seq(Cpl)
<1>1. op \in Seq(Op) /\ todo \in Seq(Seq(Cpl)) /\ Len(todo) = Len(op)
  BY DEF DTypeOK
<1>2. Len(op) \in Nat /\ DOMAIN op = 1 .. Len(op) /\ DOMAIN todo = 1 .. Len(op)
  BY <1>1, LenProperties
<1>3. ASSUME NEW p \in DOMAIN op
      PROVE  /\ op[p] \in Op /\ op[p].req \in LegalRequest /\ op[p].req \in [addr : Nat, len : Nat \ {0}]
             /\ op[p].pc \in {"alloc", "wait", "send", "recv", "done"}
             /\ op[p].tag \in Tags \cup {NoTag} /\ op[p].cpls \in Seq(Cpl) /\ todo[p] \in Seq(Cpl)
  <2>1. op[p] \in Op /\ todo[p] \in Seq(Cpl)
    BY <1>1, <1>2, <1>3, ElementOfSeq
  <2>2. /\ op[p].req \in LegalRequest /\ op[p].pc \in {"alloc", "wait", "send", "recv", "done"}
        /\ op[p].tag \in Tags \cup {NoTag} /\ op[p].cpls \in Seq(Cpl)
    BY <2>1 DEF Op
  <2>3. op[p].req \in [addr : Nat, len : Nat \ {0}]
    BY <2>2 DEF LegalRequest
  <2>4. QED
    BY <2>1, <2>2, <2>3
<1>4. QED
  BY <1>2, <1>3

\* What leaves an operation as it is, but for waking it, leaves it answering.
Woke(p) ==
  /\ op'[p].req = op[p].req /\ op'[p].tag = op[p].tag /\ op'[p].cpls = op[p].cpls
  /\ op'[p].pc = op[p].pc \/ (op[p].pc = "wait" /\ op'[p].pc = "alloc")

LEMMA AnsweringKept ==
  ASSUME NEW p, Answering(p), Woke(p), todo'[p] = todo[p],
         op[p].pc = "recv" => rx_cpl_queues'[op[p].tag] = rx_cpl_queues[op[p].tag]
  PROVE  Answering(p)'
  BY DEF Answering, Woke

\* What changes no request leaves the callers joining.
LEMMA JoiningKept ==
  ASSUME NEW c, caller[c].ops \in Seq(Nat), Joining(c), UNCHANGED caller, DOMAIN op \subseteq DOMAIN op',
         \A p \in DOMAIN op : op'[p].req = op[p].req
  PROVE  Joining(c)'
<1> DEFINE ops == caller[c].ops
<1>1. \A i \in 1 .. Len(ops) :
         ops[i] \in DOMAIN op /\ From(c, i) + op[ops[i]].req.len = From(c, i + 1)
  BY DEF Joining
<1>2. \A i \in 1 .. Len(ops) + 1 : From(c, i)' = From(c, i)
  BY <1>1 DEF From
<1>3. Len(ops) \in Nat /\ 1 \in 1 .. Len(ops) + 1 /\ \A i \in 1 .. Len(ops) : i + 1 \in 1 .. Len(ops) + 1
  BY LenProperties
<1>4. From(c, 1)' = From(c, 1) /\ \A i \in 1 .. Len(ops) : From(c, i)' = From(c, i) /\ From(c, i + 1)' = From(c, i + 1)
  BY <1>2, <1>3
<1>5. \A i \in 1 .. Len(ops) : ops[i] \in DOMAIN op' /\ op'[ops[i]].req = op[ops[i]].req
  BY <1>1
<1>6. QED
  BY <1>1, <1>4, <1>5 DEF Joining

LEMMA DmaInit == Init => DInv
<1> SUFFICES ASSUME Init PROVE DInv
  OBVIOUS
<1>1. op = <<>> /\ todo = <<>> /\ DOMAIN op = {} /\ Len(op) = 0 /\ Len(todo) = 0
  BY DEF Init
<1>2. DTypeOK
  <2>1. op \in Seq(Op) /\ todo \in Seq(Seq(Cpl)) /\ <<>> \in Seq(Cpl)
    BY <1>1, EmptySeq
  <2>2. current_tag \in Tags
    BY DmaConstants DEF Init, Tags
  <2>3. QED
    BY <1>1, <2>1, <2>2 DEF DTypeOK, Init
<1>3. HeldApart
  BY <1>1 DEF HeldApart, Init
<1>4. InTime
  <2>1. IdleCaller \in [pc : {"idle", "join", "raised"}, read : Nat \X Nat, ops : Seq(Nat), data : Seq(Nat)]
    BY EmptySeq DEF IdleCaller
  <2>2. \A c \in Callers : caller[c].pc # "join"
    BY DEF Init, IdleCaller
  <2>3. QED
    BY <1>1, <2>1, <2>2 DEF InTime, Init, Filed
<1>5. QED
  BY <1>2, <1>3, <1>4 DEF DInv

\* The steps of the operations change no caller.
LEMMA CallersKept ==
  ASSUME InTime, UNCHANGED <<caller, asserted>>, DOMAIN op' = DOMAIN op,
         \A p \in DOMAIN op : op'[p].req = op[p].req,
         \A p \in DOMAIN op : Answering(p)', \A t \in Tags : Filed(t)'
  PROVE  InTime'
<1>1. ASSUME NEW c \in Callers, caller[c].pc = "join" PROVE Joining(c)'
  <2>1. caller[c].ops \in Seq(Nat) /\ Joining(c)
    BY <1>1 DEF InTime
  <2>2. QED
    BY <2>1, JoiningKept
<1>2. QED
  BY <1>1 DEF InTime

LEMMA AllocTagNext ==
  ASSUME DInv, NEW o \in DOMAIN op, AllocTag(o)
  PROVE  DInv'
<1>1. DTypeOK /\ HeldApart /\ (late = 0 => InTime) /\ late' = late /\ op[o].pc = "alloc"
  BY DEF DInv, AllocTag
<1>2. CASE Free # {}
  <2>1. PICK t : /\ t = Scan(Min(Free))
                 /\ op' = [op EXCEPT ![o].pc = "send", ![o].tag = t]
                 /\ tag_active' = [tag_active EXCEPT ![t] = TRUE]
                 /\ current_tag' = t
    BY <1>2 DEF AllocTag
  <2>2. t \in Tags /\ ~tag_active[t]
    <3>1. Free \in SUBSET Nat
      BY DEF Free
    <3>2. Min(Free) \in Free
      BY <1>2, <3>1, Smallest DEF Min
    <3>3. ~tag_active[t] /\ Min(Free) \in 1 .. TagCount
      BY <2>1, <3>2 DEF Free
    <3>4. current_tag \in Nat
      BY <1>1 DEF DTypeOK, Tags
    <3> DEFINE m == Min(Free)
    <3>5. t = (current_tag + m) % TagCount /\ current_tag + m \in Nat
      BY <2>1, <3>3, <3>4 DEF Scan
    <3> DEFINE s == current_tag + m
    <3> HIDE DEF m, s
    <3>6. s \in Nat /\ t = s % TagCount
      BY <3>5 DEF s
    <3>7. t \in 0 .. TagCount - 1
      BY <3>6, DivMod, DmaConstants
    <3>8. QED
      BY <3>3, <3>7 DEF Tags
  <2> DEFINE e == [op[o] EXCEPT !.pc = "send", !.tag = t]
  <2>3. /\ e \in Op /\ e.req = op[o].req /\ e.cpls = op[o].cpls /\ e.pc = "send" /\ e.tag = t
        /\ op' = [op EXCEPT ![o] = e] /\ o \in 1 .. Len(op)
    <3>1. op[o] \in Op /\ o \in 1 .. Len(op)
      BY <1>1, OpFields
    <3>2. QED
      BY <2>1, <2>2, <3>1 DEF Op
  <2>4. /\ op' \in Seq(Op) /\ Len(op') = Len(op) /\ DOMAIN op' = DOMAIN op
        /\ op'[o] = e /\ \A p \in DOMAIN op : p # o => op'[p] = op[p]
    <3>1. op \in Seq(Op)
      BY <1>1 DEF DTypeOK
    <3> HIDE DEF e
    <3>2. QED
      BY <2>3, <3>1, ExceptSeq, LenProperties
  <2> HIDE DEF e
  <2>5. ~\E p \in DOMAIN op : Holds(p) /\ op[p].tag = t
    BY <1>1, <2>2 DEF HeldApart
  <2>6. Holds(o)' /\ ~Holds(o) /\ \A p \in DOMAIN op : p # o => (Holds(p)' <=> Holds(p))
    BY <1>1, <2>3, <2>4 DEF Holds
  <2>7. DTypeOK'
    <3>1. \A p \in DOMAIN op' : Holds(p)' \/ todo'[p] # <<>> => op'[p].tag \in Tags
      BY <1>1, <2>2, <2>3, <2>4, <2>6 DEF DTypeOK, AllocTag
    <3>2. tag_active' \in [Tags -> BOOLEAN]
      BY <1>1, <2>1, <2>2 DEF DTypeOK
    <3>3. QED
      BY <1>1, <2>1, <2>2, <2>4, <3>1, <3>2 DEF DTypeOK, AllocTag
  <2>8. HeldApart'
    <3>1. \A p, q \in DOMAIN op' : Holds(p)' /\ Holds(q)' /\ op'[p].tag = op'[q].tag => p = q
      BY <1>1, <2>3, <2>4, <2>5, <2>6 DEF HeldApart
    <3>2. \A u \in Tags : tag_active'[u] <=> \E p \in DOMAIN op' : Holds(p)' /\ op'[p].tag = u
      <4> TAKE u \in Tags
      <4>1. CASE u = t
        BY <1>1, <2>1, <2>2, <2>3, <2>4, <2>6, <4>1 DEF DTypeOK
      <4>2. CASE u # t
        <5>1. tag_active'[u] = tag_active[u]
          BY <1>1, <2>1, <4>2 DEF DTypeOK
        <5>2. (\E p \in DOMAIN op' : Holds(p)' /\ op'[p].tag = u) <=> \E p \in DOMAIN op : Holds(p) /\ op[p].tag = u
          BY <2>3, <2>4, <2>6, <4>2
        <5>3. QED
          BY <1>1, <5>1, <5>2 DEF HeldApart
      <4>3. QED
        BY <4>1, <4>2
    <3>3. QED
      BY <3>1, <3>2 DEF HeldApart
  <2>9. ASSUME late = 0 PROVE InTime'
    <3>1. InTime
      BY <1>1, <2>9
    <3>2. Answering(o)'
      BY <1>1, <2>3, <2>4, <3>1 DEF InTime, Answering, AllocTag
    <3>3. ASSUME NEW p \in DOMAIN op, p # o PROVE Answering(p)'
      <4>1. Woke(p) /\ todo'[p] = todo[p] /\ rx_cpl_queues' = rx_cpl_queues
        BY <2>4, <3>3 DEF Woke, AllocTag
      <4>2. QED
        BY <3>1, <4>1, AnsweringKept DEF InTime
    <3>4. ASSUME NEW u \in Tags PROVE Filed(u)'
      BY <1>1, <2>4, <3>1 DEF InTime, Filed, AllocTag
    <3>5. UNCHANGED <<caller, asserted>> /\ \A p \in DOMAIN op : op'[p].req = op[p].req
      BY <2>3, <2>4 DEF AllocTag
    <3>6. QED
      BY <2>4, <3>1, <3>2, <3>3, <3>4, <3>5, CallersKept
  <2>10. QED
    BY <1>1, <2>7, <2>8, <2>9 DEF DInv
<1>3. CASE Free = {}
  <2> DEFINE e == [op[o] EXCEPT !.pc = "wait"]
  <2>1. /\ e \in Op /\ e.req = op[o].req /\ e.cpls = op[o].cpls /\ e.pc = "wait" /\ e.tag = op[o].tag
        /\ op' = [op EXCEPT ![o] = e] /\ o \in 1 .. Len(op)
    <3>1. op[o] \in Op /\ o \in 1 .. Len(op)
      BY <1>1, OpFields
    <3>2. QED
      BY <1>3, <3>1 DEF Op, AllocTag
  <2>2. /\ op' \in Seq(Op) /\ Len(op') = Len(op) /\ DOMAIN op' = DOMAIN op
        /\ op'[o] = e /\ \A p \in DOMAIN op : p # o => op'[p] = op[p]
    <3>1. op \in Seq(Op)
      BY <1>1 DEF DTypeOK
    <3> HIDE DEF e
    <3>2. QED
      BY <2>1, <3>1, ExceptSeq, LenProperties
  <2> HIDE DEF e
  <2>3. UNCHANGED <<tag_active, current_tag, caller, rx_cpl_queues, todo, asserted, errors, late>>
    BY <1>3 DEF AllocTag
  <2>4. \A p \in DOMAIN op : /\ op'[p].tag = op[p].tag /\ op'[p].cpls = op[p].cpls /\ op'[p].req = op[p].req
                             /\ Holds(p)' <=> Holds(p)
    BY <1>1, <2>1, <2>2 DEF Holds
  <2>5. DTypeOK'
    BY <1>1, <2>2, <2>3, <2>4 DEF DTypeOK
  <2>6. HeldApart'
    BY <1>1, <2>2, <2>3, <2>4 DEF HeldApart
  <2>7. ASSUME late = 0 PROVE InTime'
    <3>1. InTime
      BY <1>1, <2>7
    <3>2. Answering(o)'
      BY <1>1, <2>1, <2>2, <2>3, <3>1 DEF InTime, Answering
    <3>3. ASSUME NEW p \in DOMAIN op, p # o PROVE Answering(p)'
      <4>1. Woke(p) /\ todo'[p] = todo[p] /\ rx_cpl_queues' = rx_cpl_queues
        BY <2>2, <2>3, <3>3 DEF Woke
      <4>2. QED
        BY <3>1, <4>1, AnsweringKept DEF InTime
    <3>4. ASSUME NEW u \in Tags PROVE Filed(u)'
      <4>1. ASSUME NEW p \in DOMAIN op, op[p].pc = "recv" PROVE op'[p] = op[p]
        BY <1>1, <2>2, <4>1
      <4>2. Filed(u)
        BY <3>1 DEF InTime
      <4>3. QED
        BY <2>2, <2>3, <4>1, <4>2 DEF Filed
    <3>5. QED
      BY <2>2, <2>3, <2>4, <3>1, <3>2, <3>3, <3>4, CallersKept
  <2>8. QED
    BY <1>1, <2>3, <2>5, <2>6, <2>7 DEF DInv
<1>4. QED
  BY <1>2, <1>3

LEMMA SendRequestNext ==
  ASSUME DInv, NEW o \in DOMAIN op, SendRequest(o)
  PROVE  DInv'
<1>1. DTypeOK /\ HeldApart /\ (late = 0 => InTime) /\ op[o].pc = "send" /\ Holds(o) /\ op[o].tag \in Tags
      /\ UNCHANGED <<caller, current_tag, tag_active, rx_cpl_queues, asserted, errors, late>>
  BY DEF DInv, SendRequest, DTypeOK, Holds
<1> DEFINE e == [op[o] EXCEPT !.pc = "recv"]
           C == Completions(op[o].req)
<1>2. /\ e \in Op /\ e.req = op[o].req /\ e.cpls = op[o].cpls /\ e.pc = "recv" /\ e.tag = op[o].tag
      /\ op' = [op EXCEPT ![o] = e] /\ o \in 1 .. Len(op) /\ todo' = [todo EXCEPT ![o] = C]
  <2>1. op[o] \in Op /\ o \in 1 .. Len(op)
    BY <1>1, OpFields
  <2>2. QED
    BY <2>1 DEF Op, SendRequest
<1>3. C \in Seq(Cpl) /\ AnswerTo(op[o].req, C) /\ Along(C, <<>>, <<>>, C) /\ 0 < Len(C) /\ \A k \in 1 .. Len(C) : C[k].ok
  <2>1. op[o].req \in [addr : Nat, len : Nat \ {0}]
    BY <1>1, OpFields
  <2>2. Cut(op[o].req, C)
    BY <2>1, CompletionsCut
  <2>3. QED
    BY <2>1, <2>2, AllIsAnAnswer DEF Cut
<1> HIDE DEF e, C
<1>4. /\ op' \in Seq(Op) /\ Len(op') = Len(op) /\ DOMAIN op' = DOMAIN op
      /\ op'[o] = e /\ \A p \in DOMAIN op : p # o => op'[p] = op[p]
  <2>1. op \in Seq(Op)
    BY <1>1 DEF DTypeOK
  <2>2. QED
    BY <1>2, <2>1, ExceptSeq, LenProperties
<1>5. /\ todo' \in Seq(Seq(Cpl)) /\ Len(todo') = Len(op') /\ todo'[o] = C
      /\ \A p \in DOMAIN op : p # o => todo'[p] = todo[p]
  <2>1. todo \in Seq(Seq(Cpl)) /\ Len(todo) = Len(op) /\ DOMAIN op = 1 .. Len(op)
    BY <1>1, OpFields DEF DTypeOK
  <2>2. QED
    BY <1>2, <1>3, <1>4, <2>1, ExceptSeq
<1>6. \A p \in DOMAIN op : /\ op'[p].tag = op[p].tag /\ op'[p].cpls = op[p].cpls /\ op'[p].req = op[p].req
                           /\ Holds(p)' <=> Holds(p)
  BY <1>1, <1>2, <1>4 DEF Holds
<1>7. DTypeOK'
  <2>1. \A p \in DOMAIN op' : Holds(p)' \/ todo'[p] # <<>> => op'[p].tag \in Tags
    BY <1>1, <1>4, <1>5, <1>6 DEF DTypeOK
  <2>2. QED
    BY <1>1, <1>4, <1>5, <2>1 DEF DTypeOK
<1>8. HeldApart'
  BY <1>1, <1>4, <1>6 DEF HeldApart
<1>9. ASSUME late = 0 PROVE InTime'
  <2>1. InTime
    BY <1>1, <1>9
  <2>2. op[o].cpls = <<>>
    BY <1>1, <2>1 DEF InTime, Answering
  <2>3. rx_cpl_queues[op[o].tag] = <<>>
    <3>1. ASSUME NEW p \in DOMAIN op, op[p].pc = "recv", op[p].tag = op[o].tag PROVE FALSE
      BY <1>1, <3>1 DEF HeldApart, Holds
    <3>2. QED
      BY <1>1, <2>1, <3>1 DEF InTime, Filed
  <2>4. Answering(o)'
    <3>1. /\ op'[o].pc = "recv" /\ op'[o].req = op[o].req /\ op'[o].cpls = <<>> /\ todo'[o] = C
          /\ rx_cpl_queues'[op'[o].tag] = <<>>
      BY <1>1, <1>2, <1>4, <1>5, <2>2, <2>3
    <3>2. Len(<<>>) < Len(C)
      BY <1>3
    <3>3. QED
      BY <1>3, <3>1, <3>2 DEF Answering
  <2>5. ASSUME NEW p \in DOMAIN op, p # o PROVE Answering(p)'
    <3>1. Woke(p) /\ todo'[p] = todo[p] /\ rx_cpl_queues' = rx_cpl_queues
      BY <1>1, <1>4, <1>5, <2>5 DEF Woke
    <3>2. QED
      BY <2>1, <3>1, AnsweringKept DEF InTime
  <2>6. ASSUME NEW u \in Tags PROVE Filed(u)'
    BY <1>1, <1>2, <1>4, <2>1 DEF InTime, Filed
  <2>7. QED
    BY <1>1, <1>4, <1>6, <2>1, <2>4, <2>5, <2>6, CallersKept
<1>10. QED
  BY <1>1, <1>7, <1>8, <1>9 DEF DInv

\* Giving a tag back.
LEMMA WokenOps ==
  ASSUME NEW ops \in Seq(Op), NEW o \in 1 .. Len(ops)
  PROVE  LET w == Woken(ops, o)
         IN  /\ w \in Seq(Op) /\ Len(w) = Len(ops) /\ DOMAIN w = DOMAIN ops
             /\ \A p \in DOMAIN ops :
                   /\ w[p].req = ops[p].req /\ w[p].tag = ops[p].tag /\ w[p].cpls = ops[p].cpls
                   /\ w[p].pc = IF p = o THEN "done" ELSE IF ops[p].pc = "wait" THEN "alloc" ELSE ops[p].pc
<1> DEFINE e(p) == IF p = o THEN [ops[p] EXCEPT !.pc = "done"]
                   ELSE IF ops[p].pc = "wait" THEN [ops[p] EXCEPT !.pc = "alloc"] ELSE ops[p]
           w == [p \in 1 .. Len(ops) |-> e(p)]
<1>1. DOMAIN ops = 1 .. Len(ops) /\ Len(ops) \in Nat
  BY LenProperties
<1>2. ASSUME NEW p \in 1 .. Len(ops)
      PROVE  /\ e(p) \in Op /\ e(p).req = ops[p].req /\ e(p).tag = ops[p].tag /\ e(p).cpls = ops[p].cpls
             /\ e(p).pc = IF p = o THEN "done" ELSE IF ops[p].pc = "wait" THEN "alloc" ELSE ops[p].pc
  <2>1. ops[p] \in Op
    BY <1>2, ElementOfSeq
  <2>2. CASE p = o
    BY <2>1, <2>2 DEF Op
  <2>3. CASE p # o /\ ops[p].pc = "wait"
    BY <2>1, <2>3 DEF Op
  <2>4. CASE p # o /\ ops[p].pc # "wait"
    BY <2>1, <2>4 DEF Op
  <2>5. QED
    BY <2>2, <2>3, <2>4
<1>3. Woken(ops, o) = w
  BY <1>1 DEF Woken
<1> HIDE DEF e
<1>4. w \in Seq(Op) /\ Len(w) = Len(ops) /\ DOMAIN w = 1 .. Len(ops) /\ \A p \in 1 .. Len(ops) : w[p] = e(p)
  BY <1>1, <1>2
<1> HIDE DEF w
<1>5. QED
  BY <1>1, <1>2, <1>3, <1>4

LEMMA ReleaseTagKeeps ==
  ASSUME DTypeOK, HeldApart, NEW o \in DOMAIN op, Holds(o), NEW ops \in Seq(Op), Len(ops) = Len(op),
         \A p \in DOMAIN op : ops[p].req = op[p].req /\ ops[p].tag = op[p].tag /\ ops[p].pc = op[p].pc,
         ReleaseTag(o, ops)
  PROVE  /\ op' \in Seq(Op) /\ Len(op') = Len(op) /\ DOMAIN op' = DOMAIN op
         /\ \A p \in DOMAIN op :
               /\ op'[p].req = op[p].req /\ op'[p].tag = op[p].tag /\ op'[p].cpls = ops[p].cpls
               /\ op'[p].pc = IF p = o THEN "done" ELSE IF op[p].pc = "wait" THEN "alloc" ELSE op[p].pc
               /\ Holds(p)' <=> (Holds(p) /\ p # o)
         /\ tag_active' \in [Tags -> BOOLEAN] /\ HeldApart'
<1>1. DOMAIN op = 1 .. Len(op) /\ o \in 1 .. Len(ops) /\ DOMAIN ops = DOMAIN op
  BY OpFields, LenProperties
<1>2. op' = Woken(ops, o) /\ tag_active' = [tag_active EXCEPT ![op[o].tag] = FALSE]
  BY DEF ReleaseTag
<1>3. /\ op' \in Seq(Op) /\ Len(op') = Len(op) /\ DOMAIN op' = DOMAIN op
      /\ \A p \in DOMAIN op :
            /\ op'[p].req = op[p].req /\ op'[p].tag = op[p].tag /\ op'[p].cpls = ops[p].cpls
            /\ op'[p].pc = IF p = o THEN "done" ELSE IF op[p].pc = "wait" THEN "alloc" ELSE op[p].pc
  <2> DEFINE w == Woken(ops, o)
  <2>1. /\ w \in Seq(Op) /\ Len(w) = Len(ops) /\ DOMAIN w = DOMAIN ops
        /\ \A p \in DOMAIN ops :
              /\ w[p].req = ops[p].req /\ w[p].tag = ops[p].tag /\ w[p].cpls = ops[p].cpls
              /\ w[p].pc = IF p = o THEN "done" ELSE IF ops[p].pc = "wait" THEN "alloc" ELSE ops[p].pc
    BY <1>1, WokenOps
  <2>2. op' = w
    BY <1>2
  <2> HIDE DEF w
  <2>3. ASSUME NEW p \in DOMAIN op
        PROVE  /\ op'[p].req = op[p].req /\ op'[p].tag = op[p].tag /\ op'[p].cpls = ops[p].cpls
               /\ op'[p].pc = IF p = o THEN "done" ELSE IF op[p].pc = "wait" THEN "alloc" ELSE op[p].pc
    <3>1. ops[p].req = op[p].req /\ ops[p].tag = op[p].tag /\ ops[p].pc = op[p].pc /\ p \in DOMAIN ops
      BY <1>1
    <3>2. QED
      BY <2>1, <2>2, <3>1
  <2>4. QED
    BY <1>1, <2>1, <2>2, <2>3
<1>4. \A p \in DOMAIN op : Holds(p)' <=> (Holds(p) /\ p # o)
  BY <1>3 DEF Holds
<1>5. tag_active \in [Tags -> BOOLEAN] /\ op[o].tag \in Tags
  BY DEF DTypeOK
<1>6. tag_active' \in [Tags -> BOOLEAN] /\ \A u \in Tags : tag_active'[u] <=> (tag_active[u] /\ u # op[o].tag)
  BY <1>2, <1>5
<1>7. HeldApart'
  <2>1. \A p, q \in DOMAIN op' : Holds(p)' /\ Holds(q)' /\ op'[p].tag = op'[q].tag => p = q
    BY <1>3, <1>4 DEF HeldApart
  <2>2. \A u \in Tags : tag_active'[u] <=> \E p \in DOMAIN op' : Holds(p)' /\ op'[p].tag = u
    <3> TAKE u \in Tags
    <3>1. tag_active[u] <=> \E p \in DOMAIN op : Holds(p) /\ op[p].tag = u
      BY DEF HeldApart
    <3>2. CASE u = op[o].tag
      <4>1. ~\E p \in DOMAIN op' : Holds(p)' /\ op'[p].tag = u
        BY <1>3, <1>4, <3>2 DEF HeldApart
      <4>2. QED
        BY <1>6, <3>2, <4>1
    <3>3. CASE u # op[o].tag
      <4>1. \A p \in DOMAIN op : (Holds(p)' /\ op'[p].tag = u) <=> (Holds(p) /\ op[p].tag = u)
        BY <1>3, <1>4, <3>3
      <4>2. QED
        BY <1>3, <1>6, <3>1, <3>3, <4>1
    <3>4. QED
      BY <3>2, <3>3
  <2>3. QED
    BY <2>1, <2>2 DEF HeldApart
<1>8. QED
  BY <1>3, <1>4, <1>6, <1>7

LEMMA TimeOutNext ==
  ASSUME DInv, NEW o \in DOMAIN op, TimeOut(o)
  PROVE  DInv'
<1>1. DTypeOK /\ HeldApart /\ Holds(o) /\ op \in Seq(Op) /\ late' = late + 1 /\ late \in Nat /\ ReleaseTag(o, op)
      /\ UNCHANGED <<caller, current_tag, rx_cpl_queues, todo, asserted, errors>>
  BY DEF DInv, DTypeOK, TimeOut, Holds
<1>2. /\ op' \in Seq(Op) /\ Len(op') = Len(op) /\ DOMAIN op' = DOMAIN op
      /\ \A p \in DOMAIN op : op'[p].tag = op[p].tag /\ (Holds(p)' <=> (Holds(p) /\ p # o))
      /\ tag_active' \in [Tags -> BOOLEAN] /\ HeldApart'
  BY <1>1, ReleaseTagKeeps
<1>3. DTypeOK'
  <2>1. \A p \in DOMAIN op' : Holds(p)' \/ todo'[p] # <<>> => op'[p].tag \in Tags
    BY <1>1, <1>2 DEF DTypeOK
  <2>2. late' \in Nat
    BY <1>1
  <2>3. QED
    BY <1>1, <1>2, <2>1, <2>2 DEF DTypeOK
<1>4. late' # 0
  BY <1>1
<1>5. QED
  BY <1>2, <1>3, <1>4 DEF DInv

LEMMA RecvCplNext ==
  ASSUME DInv, NEW o \in DOMAIN op, RecvCpl(o)
  PROVE  DInv'
<1> DEFINE tag == op[o].tag
           cpl == Head(rx_cpl_queues[tag])
           ops == [op EXCEPT ![o].cpls = Append(@, cpl)]
           e == [op[o] EXCEPT !.cpls = Append(@, cpl)]
<1>1. /\ DTypeOK /\ HeldApart /\ (late = 0 => InTime) /\ op[o].pc = "recv" /\ Holds(o) /\ tag \in Tags
      /\ rx_cpl_queues[tag] # <<>> /\ rx_cpl_queues[tag] \in Seq(Cpl) /\ op[o].cpls \in Seq(Cpl)
      /\ todo[o] \in Seq(Cpl) /\ op[o] \in Op /\ o \in 1 .. Len(op) /\ op \in Seq(Op)
      /\ rx_cpl_queues \in [Tags -> Seq(Cpl)]
  <2>1. DTypeOK /\ HeldApart /\ (late = 0 => InTime) /\ op[o].pc = "recv" /\ Holds(o) /\ rx_cpl_queues[tag] # <<>>
    BY DEF DInv, RecvCpl, Holds
  <2>2. tag \in Tags /\ op \in Seq(Op) /\ rx_cpl_queues \in [Tags -> Seq(Cpl)]
    BY <2>1 DEF DTypeOK
  <2>3. op[o].cpls \in Seq(Cpl) /\ todo[o] \in Seq(Cpl) /\ op[o] \in Op /\ o \in 1 .. Len(op)
    BY <2>1, OpFields
  <2>4. QED
    BY <2>1, <2>2, <2>3
<1>2. /\ rx_cpl_queues' = [rx_cpl_queues EXCEPT ![tag] = Tail(@)]
      /\ IF IsLast(cpl) THEN ReleaseTag(o, ops) ELSE op' = ops /\ UNCHANGED tag_active
      /\ UNCHANGED <<caller, current_tag, todo, asserted, errors, late>>
  BY DEF RecvCpl
<1>3. /\ rx_cpl_queues' \in [Tags -> Seq(Cpl)]
      /\ rx_cpl_queues'[tag] = Tail(rx_cpl_queues[tag])
      /\ \A u \in Tags : u # tag => rx_cpl_queues'[u] = rx_cpl_queues[u]
      /\ cpl \in Cpl /\ Tail(rx_cpl_queues[tag]) \in Seq(Cpl)
  <2>1. cpl \in Cpl /\ Tail(rx_cpl_queues[tag]) \in Seq(Cpl)
    BY <1>1, HeadTailProperties
  <2> HIDE DEF cpl, tag
  <2>2. QED
    BY <1>1, <1>2, <2>1
<1> HIDE DEF cpl
<1>4. /\ e \in Op /\ e.req = op[o].req /\ e.pc = op[o].pc /\ e.tag = tag /\ e.cpls = Append(op[o].cpls, cpl)
      /\ ops = [op EXCEPT ![o] = e]
  <2>1. Append(op[o].cpls, cpl) \in Seq(Cpl)
    BY <1>1, <1>3, AppendProperties
  <2>2. QED
    BY <1>1, <2>1 DEF Op
<1> HIDE DEF e
<1>5. ops \in Seq(Op) /\ Len(ops) = Len(op) /\ ops[o] = e /\ \A p \in DOMAIN op : p # o => ops[p] = op[p]
  <2>1. DOMAIN op = 1 .. Len(op)
    BY <1>1, LenProperties
  <2> HIDE DEF ops
  <2>2. QED
    BY <1>1, <1>4, <2>1, ExceptSeq
<1>6. \A p \in DOMAIN op : ops[p].req = op[p].req /\ ops[p].tag = op[p].tag /\ ops[p].pc = op[p].pc
  BY <1>4, <1>5
<1> HIDE DEF ops
\* Whichever completion it was
<1>7. /\ op' \in Seq(Op) /\ Len(op') = Len(op) /\ DOMAIN op' = DOMAIN op
      /\ \A p \in DOMAIN op :
            /\ op'[p].req = op[p].req /\ op'[p].tag = op[p].tag /\ op'[p].cpls = ops[p].cpls
            /\ Holds(p)' => Holds(p)
            /\ p # o => /\ op'[p].pc = op[p].pc \/ (op[p].pc = "wait" /\ op'[p].pc = "alloc")
      /\ op'[o].pc = IF IsLast(cpl) THEN "done" ELSE "recv"
      /\ tag_active' \in [Tags -> BOOLEAN] /\ HeldApart'
  <2>1. CASE IsLast(cpl)
    <3>1. ReleaseTag(o, ops)
      BY <1>2, <2>1
    <3>2. /\ op' \in Seq(Op) /\ Len(op') = Len(op) /\ DOMAIN op' = DOMAIN op
          /\ \A p \in DOMAIN op :
                /\ op'[p].req = op[p].req /\ op'[p].tag = op[p].tag /\ op'[p].cpls = ops[p].cpls
                /\ op'[p].pc = IF p = o THEN "done" ELSE IF op[p].pc = "wait" THEN "alloc" ELSE op[p].pc
                /\ Holds(p)' <=> (Holds(p) /\ p # o)
          /\ tag_active' \in [Tags -> BOOLEAN] /\ HeldApart'
      BY <1>1, <1>5, <1>6, <3>1, ReleaseTagKeeps
    <3>3. QED
      BY <2>1, <3>2
  <2>2. CASE ~IsLast(cpl)
    <3>1. op' = ops /\ UNCHANGED tag_active
      BY <1>2, <2>2
    <3>2. DOMAIN op' = DOMAIN op
      BY <1>1, <1>5, <3>1, LenProperties
    <3>3. \A p \in DOMAIN op : Holds(p)' <=> Holds(p)
      BY <1>6, <3>1 DEF Holds
    <3>4. tag_active' \in [Tags -> BOOLEAN]
      BY <1>1, <3>1 DEF DTypeOK
    <3>5. HeldApart'
      <4>1. \A p \in DOMAIN op : op'[p].tag = op[p].tag /\ (Holds(p)' <=> Holds(p))
        BY <1>6, <3>1, <3>3
      <4> HIDE DEF tag
      <4>2. HeldApart /\ tag_active' = tag_active
        BY <1>1, <3>1
      <4>3. QED
        BY <3>2, <4>1, <4>2 DEF HeldApart
    <3>6. QED
      BY <1>1, <1>5, <1>6, <2>2, <3>1, <3>2, <3>3, <3>4, <3>5
  <2>3. QED
    BY <2>1, <2>2
<1>8. DTypeOK'
  <2>1. \A p \in DOMAIN op' : Holds(p)' \/ todo'[p] # <<>> => op'[p].tag \in Tags
    BY <1>1, <1>2, <1>7 DEF DTypeOK
  <2>2. QED
    BY <1>1, <1>2, <1>3, <1>7, <2>1 DEF DTypeOK
<1>9. ASSUME late = 0 PROVE InTime'
  <2>1. InTime
    BY <1>1, <1>9
  <2>2. PICK A : /\ AnswerTo(op[o].req, A) /\ Along(A, op[o].cpls, rx_cpl_queues[tag], todo[o])
                 /\ Len(op[o].cpls) < Len(A)
                 /\ \A k \in 1 .. Len(todo[o]) : todo[o][k].ok
    BY <1>1, <2>1 DEF InTime, Answering
  <2>3. /\ A \in Seq(Cpl) /\ Len(A) \in Nat /\ Len(op[o].cpls) \in Nat /\ Len(todo[o]) \in Nat
        /\ op[o].req \in [addr : Nat, len : Nat \ {0}]
        /\ op'[o].cpls = Append(op[o].cpls, cpl) /\ Len(op'[o].cpls) = Len(op[o].cpls) + 1
    <3>1. A \in Seq(Cpl)
      BY <2>2 DEF AnswerTo
    <3>2. op'[o].cpls = Append(op[o].cpls, cpl)
      BY <1>4, <1>5, <1>7
    <3>3. Len(Append(op[o].cpls, cpl)) = Len(op[o].cpls) + 1
      BY <1>1, <1>3, AppendProperties
    <3>4. op[o].req \in [addr : Nat, len : Nat \ {0}]
      BY <1>1, OpFields
    <3>5. QED
      BY <1>1, <3>1, <3>2, <3>3, <3>4, LenProperties
  <2>4. Along(A, op'[o].cpls, rx_cpl_queues'[tag], todo[o]) /\ cpl = A[Len(op[o].cpls) + 1]
    BY <1>1, <1>3, <2>2, <2>3, AlongTaken DEF cpl
  <2>5. IsLast(cpl) <=> Len(op[o].cpls) + 1 = Len(A)
    <3> DEFINE k == Len(op[o].cpls) + 1
    <3>1. k \in 1 .. Len(A)
      BY <2>2, <2>3
    <3> HIDE DEF k
    <3>2. IsLast(A[k]) <=> k = Len(A)
      BY <2>2, <2>3, <3>1, LastIsLast
    <3>3. QED
      BY <2>4, <3>2 DEF k
  <2>6. Answering(o)'
    <3>1. CASE IsLast(cpl)
      <4>1. op'[o].pc = "done" /\ op'[o].req = op[o].req /\ todo'[o] = todo[o]
        BY <1>2, <1>7, <3>1
      <4> DEFINE x == op'[o].cpls
                 y == rx_cpl_queues'[tag]
      <4>2. x \in Seq(Cpl) /\ y \in Seq(Cpl) /\ Len(x) = Len(A)
        <5>1. Append(op[o].cpls, cpl) \in Seq(Cpl)
          BY <1>1, <1>3, AppendProperties
        <5>2. QED
          BY <1>3, <2>3, <2>5, <3>1, <5>1
      <4>3. Len(x) \in Nat /\ Len(y) \in Nat /\ Len(A) = Len(x) + Len(y) + Len(todo[o]) /\ \A k \in 1 .. Len(x) : x[k] = A[k]
        BY <2>4, <4>2, LenProperties DEF Along
      <4>4. Len(todo[o]) = 0
        <5> DEFINE a == Len(A)
                   c == Len(y)
                   d == Len(todo[o])
        <5>1. a \in Nat /\ c \in Nat /\ d \in Nat /\ a = a + c + d
          BY <2>3, <4>2, <4>3
        <5> HIDE DEF a, c, d
        <5>2. d = 0
          BY <5>1
        <5>3. QED
          BY <5>2 DEF d
      <4>5. todo[o] = <<>>
        BY <1>1, <4>4, EmptySeq
      <4>6. x = A
        BY <2>3, <4>2, <4>3, SeqEqual
      <4>7. QED
        BY <2>2, <4>1, <4>5, <4>6 DEF Answering
    <3>2. CASE ~IsLast(cpl)
      <4>1. op'[o].pc = "recv" /\ op'[o].req = op[o].req /\ todo'[o] = todo[o] /\ op'[o].tag = tag
        BY <1>2, <1>7, <1>1, <3>2
      <4>2. Len(op'[o].cpls) < Len(A)
        BY <2>2, <2>3, <2>5, <3>2
      <4>3. QED
        BY <2>2, <2>4, <4>1, <4>2 DEF Answering
    <3>3. QED
      BY <3>1, <3>2
  <2>7. ASSUME NEW p \in DOMAIN op, p # o PROVE Answering(p)'
    <3>1. Woke(p) /\ todo'[p] = todo[p]
      BY <1>2, <1>5, <1>7, <2>7 DEF Woke
    <3>2. op[p].pc = "recv" => op[p].tag \in Tags /\ op[p].tag # tag
      BY <1>1, <2>7 DEF HeldApart, Holds, DTypeOK
    <3>3. QED
      BY <1>3, <2>1, <3>1, <3>2, AnsweringKept DEF InTime
  <2>8. ASSUME NEW u \in Tags PROVE Filed(u)'
    <3>1. SUFFICES ASSUME rx_cpl_queues'[u] # <<>> PROVE \E p \in DOMAIN op : op'[p].pc = "recv" /\ op'[p].tag = u
      BY <1>7 DEF Filed
    <3>2. CASE u = tag
      <4> DEFINE y == rx_cpl_queues'[tag]
      <4>1. y \in Seq(Cpl) /\ y # <<>>
        BY <1>3, <3>1, <3>2
      <4>2. Len(y) \in Nat \ {0}
        BY <4>1, EmptySeq
      <4>3. Len(A) = Len(op[o].cpls) + 1 + Len(y) + Len(todo[o])
        BY <2>3, <2>4 DEF Along
      <4>4. Len(op[o].cpls) + 1 # Len(A)
        <5> DEFINE a == Len(A)
                   b == Len(op[o].cpls)
                   c == Len(y)
                   d == Len(todo[o])
        <5>1. b \in Nat /\ c \in Nat \ {0} /\ d \in Nat /\ a = b + 1 + c + d
          BY <2>3, <4>2, <4>3
        <5> HIDE DEF a, b, c, d
        <5>2. b + 1 # a
          BY <5>1
        <5>3. QED
          BY <5>2 DEF a, b
      <4>5. op'[o].pc = "recv" /\ op'[o].tag = u
        BY <1>7, <2>5, <3>2, <4>4
      <4>6. QED
        BY <4>5
    <3>3. CASE u # tag
      <4>1. Filed(u) /\ rx_cpl_queues[u] # <<>>
        BY <1>3, <2>1, <3>1, <3>3 DEF InTime
      <4>2. PICK p \in DOMAIN op : op[p].pc = "recv" /\ op[p].tag = u
        BY <4>1 DEF Filed
      <4>3. p # o
        BY <3>3, <4>2
      <4>4. QED
        BY <1>7, <4>2, <4>3
    <3>4. QED
      BY <3>2, <3>3
  <2>9. QED
    BY <1>2, <1>7, <2>1, <2>6, <2>7, <2>8, CallersKept
<1>10. QED
  BY <1>2, <1>7, <1>8, <1>9 DEF DInv

\* A completion is filed under the tag of its request.
LEMMA FiledKeeps ==
  ASSUME DInv, NEW o \in DOMAIN op, todo[o] # <<>>, NEW c \in Cpl, NEW z \in Seq(Cpl),
         rx_cpl_queues' = [rx_cpl_queues EXCEPT ![op[o].tag] = Append(@, c)],
         todo' = [todo EXCEPT ![o] = z],
         UNCHANGED <<caller, op, current_tag, tag_active, asserted, late>>,
         late = 0 => \E A : /\ AnswerTo(op[o].req, A)
                            /\ Along(A, op[o].cpls, Append(rx_cpl_queues[op[o].tag], c), z)
                            /\ Len(op[o].cpls) < Len(A)
                            /\ \A k \in 1 .. Len(z) : z[k].ok
  PROVE  DInv'
<1> DEFINE tag == op[o].tag
<1>1. /\ DTypeOK /\ HeldApart /\ (late = 0 => InTime) /\ tag \in Tags
      /\ rx_cpl_queues \in [Tags -> Seq(Cpl)] /\ o \in 1 .. Len(todo) /\ todo \in Seq(Seq(Cpl))
      /\ Len(todo) = Len(op) /\ DOMAIN op = 1 .. Len(op) /\ rx_cpl_queues[tag] \in Seq(Cpl)
  <2>1. DTypeOK /\ HeldApart /\ (late = 0 => InTime)
    BY DEF DInv
  <2>2. DOMAIN op = 1 .. Len(op)
    BY <2>1, OpFields
  <2>3. tag \in Tags /\ rx_cpl_queues \in [Tags -> Seq(Cpl)] /\ todo \in Seq(Seq(Cpl)) /\ Len(todo) = Len(op)
    BY <2>1 DEF DTypeOK
  <2>4. QED
    BY <2>1, <2>2, <2>3
<1> DEFINE q == Append(rx_cpl_queues[tag], c)
<1>2. q \in Seq(Cpl) /\ q # <<>>
  <2> DEFINE s == rx_cpl_queues[tag]
  <2>1. s \in Seq(Cpl) /\ q = Append(s, c)
    BY <1>1
  <2> HIDE DEF s, q
  <2>2. QED
    BY <2>1, AppendProperties
<1>3. /\ rx_cpl_queues' \in [Tags -> Seq(Cpl)] /\ rx_cpl_queues'[tag] = q
      /\ \A u \in Tags : u # tag => rx_cpl_queues'[u] = rx_cpl_queues[u]
  <2>1. rx_cpl_queues' = [rx_cpl_queues EXCEPT ![tag] = q]
    OBVIOUS
  <2> HIDE DEF q, tag
  <2>2. QED
    BY <1>1, <1>2, <2>1
<1>4. /\ todo' \in Seq(Seq(Cpl)) /\ Len(todo') = Len(todo) /\ todo'[o] = z
      /\ \A p \in DOMAIN op : p # o => todo'[p] = todo[p]
  BY <1>1, ExceptSeq
<1> HIDE DEF q
<1>5. \A p \in DOMAIN op : Holds(p)' <=> Holds(p)
  BY DEF Holds
<1>6. DTypeOK'
  <2>1. \A p \in DOMAIN op' : Holds(p)' \/ todo'[p] # <<>> => op'[p].tag \in Tags
    BY <1>1, <1>4, <1>5 DEF DTypeOK
  <2>2. QED
    BY <1>1, <1>3, <1>4, <2>1 DEF DTypeOK
<1>7. HeldApart'
  BY <1>1, <1>5 DEF HeldApart
<1>8. ASSUME late = 0 PROVE InTime'
  <2>1. InTime /\ op[o].pc \in {"alloc", "wait", "send", "recv", "done"}
    BY <1>1, <1>8, OpFields
  <2>2. op[o].pc = "recv" /\ Holds(o)
    BY <2>1 DEF InTime, Answering, Holds
  <2>3. Answering(o)'
    <3>1. /\ op'[o].pc = "recv" /\ op'[o].req = op[o].req /\ op'[o].cpls = op[o].cpls
          /\ rx_cpl_queues'[op'[o].tag] = Append(rx_cpl_queues[op[o].tag], c) /\ todo'[o] = z
      BY <1>3, <1>4, <2>2 DEF q
    <3>2. QED
      BY <1>8, <3>1 DEF Answering
  <2>4. ASSUME NEW p \in DOMAIN op, p # o PROVE Answering(p)'
    <3>1. Woke(p) /\ todo'[p] = todo[p]
      BY <1>4, <2>4 DEF Woke
    <3>2. op[p].pc = "recv" => op[p].tag \in Tags /\ op[p].tag # tag
      BY <1>1, <2>2, <2>4 DEF HeldApart, Holds, DTypeOK
    <3>3. QED
      BY <1>3, <2>1, <3>1, <3>2, AnsweringKept DEF InTime
  <2>5. ASSUME NEW u \in Tags PROVE Filed(u)'
    <3>1. CASE u = tag
      BY <2>2, <3>1 DEF Filed
    <3>2. CASE u # tag
      BY <1>3, <2>1, <3>2 DEF Filed, InTime
    <3>3. QED
      BY <3>1, <3>2
  <2>6. QED
    BY <2>1, <2>3, <2>4, <2>5, CallersKept
<1>9. QED
  BY <1>1, <1>6, <1>7, <1>8 DEF DInv

\* What the operation whose completions are still to come has for an answer.
LEMMA StillToCome ==
  ASSUME DInv, NEW o \in DOMAIN op, todo[o] # <<>>
  PROVE  /\ op[o].req \in [addr : Nat, len : Nat \ {0}] /\ op[o].cpls \in Seq(Cpl) /\ todo[o] \in Seq(Cpl)
         /\ rx_cpl_queues[op[o].tag] \in Seq(Cpl)
         /\ Head(todo[o]) = todo[o][1] /\ Head(todo[o]) \in Cpl /\ Tail(todo[o]) \in Seq(Cpl)
         /\ Len(todo[o]) \in Nat \ {0} /\ Len(Tail(todo[o])) = Len(todo[o]) - 1
         /\ \A k \in 1 .. Len(todo[o]) - 1 : Tail(todo[o])[k] = todo[o][k + 1]
         /\ late = 0 => \E A : /\ AnswerTo(op[o].req, A)
                               /\ Along(A, op[o].cpls, rx_cpl_queues[op[o].tag], todo[o])
                               /\ Len(op[o].cpls) < Len(A)
                               /\ \A k \in 1 .. Len(todo[o]) : todo[o][k].ok
<1>1. /\ op[o].req \in [addr : Nat, len : Nat \ {0}] /\ op[o].cpls \in Seq(Cpl) /\ todo[o] \in Seq(Cpl)
      /\ op[o].pc \in {"alloc", "wait", "send", "recv", "done"}
  BY OpFields DEF DInv
<1>2. rx_cpl_queues[op[o].tag] \in Seq(Cpl)
  BY DEF DInv, DTypeOK
<1>3. /\ Head(todo[o]) = todo[o][1] /\ Head(todo[o]) \in Cpl /\ Tail(todo[o]) \in Seq(Cpl)
      /\ Len(todo[o]) \in Nat \ {0} /\ Len(Tail(todo[o])) = Len(todo[o]) - 1
      /\ \A k \in 1 .. Len(todo[o]) - 1 : Tail(todo[o])[k] = todo[o][k + 1]
  BY <1>1, EmptySeq, HeadTailProperties
<1>4. ASSUME late = 0
      PROVE  \E A : /\ AnswerTo(op[o].req, A)
                    /\ Along(A, op[o].cpls, rx_cpl_queues[op[o].tag], todo[o])
                    /\ Len(op[o].cpls) < Len(A)
                    /\ \A k \in 1 .. Len(todo[o]) : todo[o][k].ok
  <2>1. Answering(o)
    BY <1>4 DEF DInv, InTime
  <2>2. QED
    BY <1>1, <2>1 DEF Answering
<1>5. QED
  BY <1>1, <1>2, <1>3, <1>4

LEMMA AnswerNext ==
  ASSUME DInv, NEW o \in DOMAIN op, Answer(o)
  PROVE  DInv'
<1> DEFINE x == op[o].cpls
           y == rx_cpl_queues[op[o].tag]
           z == todo[o]
<1>1. /\ z # <<>> /\ op[o].req \in [addr : Nat, len : Nat \ {0}] /\ x \in Seq(Cpl) /\ z \in Seq(Cpl) /\ y \in Seq(Cpl)
      /\ Head(z) \in Cpl /\ Tail(z) \in Seq(Cpl) /\ Len(z) \in Nat \ {0} /\ Len(Tail(z)) = Len(z) - 1
      /\ \A k \in 1 .. Len(z) - 1 : Tail(z)[k] = z[k + 1]
      /\ late = 0 => \E A : /\ AnswerTo(op[o].req, A) /\ Along(A, x, y, z) /\ Len(x) < Len(A)
                            /\ \A k \in 1 .. Len(z) : z[k].ok
  <2>1. z # <<>>
    BY DEF Answer
  <2>2. QED
    BY <2>1, StillToCome
<1>2. /\ rx_cpl_queues' = [rx_cpl_queues EXCEPT ![op[o].tag] = Append(@, Head(z))]
      /\ todo' = [todo EXCEPT ![o] = Tail(z)]
      /\ UNCHANGED <<caller, op, current_tag, tag_active, asserted, late>>
  BY DEF Answer
<1>3. ASSUME late = 0
      PROVE  \E A : /\ AnswerTo(op[o].req, A) /\ Along(A, x, Append(y, Head(z)), Tail(z)) /\ Len(x) < Len(A)
                    /\ \A k \in 1 .. Len(Tail(z)) : Tail(z)[k].ok
  <2>1. PICK A : /\ AnswerTo(op[o].req, A) /\ Along(A, x, y, z) /\ Len(x) < Len(A)
                 /\ \A k \in 1 .. Len(z) : z[k].ok
    BY <1>1, <1>3
  <2> HIDE DEF x, y, z
  <2>2. A \in Seq(Cpl)
    BY <2>1 DEF AnswerTo
  <2>3. Along(A, x, Append(y, Head(z)), Tail(z))
    BY <1>1, <2>1, <2>2, AlongFiled
  <2>4. \A k \in 1 .. Len(Tail(z)) : Tail(z)[k].ok
    BY <1>1, <2>1
  <2>5. QED
    BY <2>1, <2>3, <2>4
<1>4. QED
  BY <1>1, <1>2, <1>3, FiledKeeps

LEMMA AnswerBadlyNext ==
  ASSUME DInv, NEW o \in DOMAIN op, AnswerBadly(o)
  PROVE  DInv'
<1> DEFINE x == op[o].cpls
           y == rx_cpl_queues[op[o].tag]
           z == todo[o]
           c == Bad(Head(z))
<1>1. /\ z # <<>> /\ op[o].req \in [addr : Nat, len : Nat \ {0}] /\ x \in Seq(Cpl) /\ z \in Seq(Cpl) /\ y \in Seq(Cpl)
      /\ Head(z) \in Cpl
      /\ late = 0 => \E A : /\ AnswerTo(op[o].req, A) /\ Along(A, x, y, z) /\ Len(x) < Len(A)
                            /\ \A k \in 1 .. Len(z) : z[k].ok
  <2>1. z # <<>>
    BY DEF AnswerBadly
  <2>2. QED
    BY <2>1, StillToCome
<1>2. /\ rx_cpl_queues' = [rx_cpl_queues EXCEPT ![op[o].tag] = Append(@, c)]
      /\ todo' = [todo EXCEPT ![o] = <<>>]
      /\ UNCHANGED <<caller, op, current_tag, tag_active, asserted, late>>
  BY DEF AnswerBadly, Bad
<1>3. c \in Cpl /\ <<>> \in Seq(Cpl) /\ Len(<<>>) = 0
  <2>1. Head(z) \in Cpl
    BY <1>1
  <2> HIDE DEF z
  <2>2. QED
    BY <2>1, EmptySeq DEF Bad, Cpl
<1>4. ASSUME late = 0
      PROVE  \E A : /\ AnswerTo(op[o].req, A) /\ Along(A, x, Append(y, c), <<>>) /\ Len(x) < Len(A)
                    /\ \A k \in 1 .. Len(<<>>) : (<<>>)[k].ok
  <2>1. PICK A : /\ AnswerTo(op[o].req, A) /\ Along(A, x, y, z) /\ Len(x) < Len(A)
                 /\ \A k \in 1 .. Len(z) : z[k].ok
    BY <1>1, <1>4
  <2> DEFINE req == op[o].req
  <2>2. req \in [addr : Nat, len : Nat \ {0}]
    BY <1>1
  <2> HIDE DEF x, y, z, req
  <2>3. PICK B : /\ AnswerTo(req, B) /\ Along(B, x, Append(y, Bad(Head(z))), <<>>)
                 /\ Len(B) = Len(x) + Len(y) + 1
    BY <1>1, <2>1, <2>2, AlongBad DEF req
  <2>4. Len(x) \in Nat /\ Len(y) \in Nat
    BY <1>1, LenProperties
  <2>5. Len(x) < Len(B)
    BY <2>3, <2>4
  <2>6. \A k \in 1 .. Len(<<>>) : (<<>>)[k].ok
    BY <1>3
  <2>7. QED
    BY <2>3, <2>5, <2>6 DEF req
<1> HIDE DEF c
<1>5. QED
  BY <1>1, <1>2, <1>3, <1>4, FiledKeeps

\* Joining what follows: the callers other than c.
LEMMA OtherCallers ==
  ASSUME InTime, NEW c \in Callers, NEW e, caller' = [caller EXCEPT ![c] = e], DOMAIN op \subseteq DOMAIN op',
         \A p \in DOMAIN op : op'[p].req = op[p].req,
         NEW d \in Callers, d # c, caller'[d].pc = "join"
  PROVE  Joining(d)'
<1>1. caller[d].ops \in Seq(Nat) /\ caller'[d] = caller[d]
  BY DEF InTime
<1>2. Joining(d)
  BY <1>1 DEF InTime
<1> DEFINE ops == caller[d].ops
<1>3. \A i \in 1 .. Len(ops) :
         ops[i] \in DOMAIN op /\ From(d, i) + op[ops[i]].req.len = From(d, i + 1)
  BY <1>2 DEF Joining
<1>4. \A i \in 1 .. Len(ops) + 1 : From(d, i)' = From(d, i)
  BY <1>1, <1>3 DEF From
<1>5. Len(ops) \in Nat /\ 1 \in 1 .. Len(ops) + 1 /\ \A i \in 1 .. Len(ops) : i + 1 \in 1 .. Len(ops) + 1
  BY <1>1, LenProperties
<1>6. From(d, 1)' = From(d, 1) /\ \A i \in 1 .. Len(ops) : From(d, i)' = From(d, i) /\ From(d, i + 1)' = From(d, i + 1)
  BY <1>4, <1>5
<1>7. \A i \in 1 .. Len(ops) : ops[i] \in DOMAIN op' /\ op'[ops[i]].req = op[ops[i]].req
  BY <1>3
<1>8. \A i \in 1 .. Len(caller'[d].ops) :
         caller'[d].ops[i] \in DOMAIN op' /\ From(d, i)' + op'[caller'[d].ops[i]].req.len = From(d, i + 1)'
  BY <1>1, <1>3, <1>6, <1>7, SMTT(30)
<1>9. /\ caller[d].read \in Nat \X (Nat \ {0}) /\ caller[d].read[1] <= From(d, 1)
      /\ caller[d].data = Bytes(caller[d].read[1], From(d, 1) - caller[d].read[1])
  BY <1>2 DEF Joining
<1>10. QED
  BY <1>1, <1>6, <1>8, <1>9 DEF Joining

LEMMA ReturnNext ==
  ASSUME DInv, NEW c \in Callers, Return(c)
  PROVE  DInv'
<1>1. /\ DTypeOK /\ HeldApart /\ (late = 0 => InTime) /\ caller' = [caller EXCEPT ![c] = IdleCaller]
      /\ UNCHANGED <<op, current_tag, tag_active, rx_cpl_queues, todo, asserted, errors, late>>
  BY DEF DInv, Return
<1>2. DTypeOK' /\ HeldApart'
  BY <1>1 DEF DTypeOK, HeldApart, Holds
<1>3. ASSUME late = 0 PROVE InTime'
  <2>1. InTime
    BY <1>1, <1>3
  <2>2. IdleCaller \in [pc : {"idle", "join", "raised"}, read : Nat \X Nat, ops : Seq(Nat), data : Seq(Nat)]
        /\ IdleCaller.pc = "idle"
    BY EmptySeq DEF IdleCaller
  <2>3. caller' \in [Callers -> [pc : {"idle", "join", "raised"}, read : Nat \X Nat, ops : Seq(Nat), data : Seq(Nat)]]
        /\ caller'[c].pc = "idle"
    BY <1>1, <2>1, <2>2 DEF InTime
  <2>4. ASSUME NEW d \in Callers, caller'[d].pc = "join" PROVE Joining(d)'
    <3>1. d # c
      BY <2>3, <2>4
    <3>2. QED
      BY <1>1, <2>1, <2>4, <3>1, OtherCallers
  <2>5. (\A o \in DOMAIN op : Answering(o)') /\ (\A t \in Tags : Filed(t)')
    BY <1>1, <2>1 DEF InTime, Answering, Filed
  <2>6. QED
    BY <1>1, <2>1, <2>3, <2>4, <2>5 DEF InTime
<1>4. QED
  BY <1>1, <1>2, <1>3 DEF DInv

LEMMA JoinNext ==
  ASSUME DInv, NEW c \in Callers, Join(c)
  PROVE  DInv'
<1> DEFINE ops == caller[c].ops
           h == Head(ops)
           st == Collected(h)
           len == op[h].req.len
           fine == [caller[c] EXCEPT !.ops = Tail(ops), !.data = caller[c].data \o st.data]
           raised == [caller[c] EXCEPT !.pc = "raised"]
           e == IF st.m >= len THEN fine ELSE raised
<1>1. /\ DTypeOK /\ HeldApart /\ (late = 0 => InTime)
      /\ UNCHANGED <<op, current_tag, tag_active, rx_cpl_queues, todo, errors, late>>
      /\ caller' = [caller EXCEPT ![c] = e] /\ asserted' = (asserted /\ st.end # "assertion")
      /\ caller[c].pc = "join" /\ ops # <<>> /\ op[h].pc = "done"
  BY DEF DInv, Join
<1>2. DTypeOK' /\ HeldApart'
  BY <1>1 DEF DTypeOK, HeldApart, Holds
<1>3. ASSUME late = 0 PROVE InTime'
  <2>1. InTime /\ Joining(c)
    BY <1>1, <1>3 DEF InTime
  <2> DEFINE Caller0 == [pc : {"idle", "join", "raised"}, read : Nat \X Nat, ops : Seq(Nat), data : Seq(Nat)]
  <2>2. /\ caller \in [Callers -> Caller0] /\ caller[c] \in Caller0 /\ ops \in Seq(Nat) /\ caller[c].data \in Seq(Nat)
    BY <2>1 DEF InTime
  <2>3. /\ Len(ops) \in Nat \ {0} /\ h = ops[1] /\ Tail(ops) \in Seq(Nat) /\ Len(Tail(ops)) = Len(ops) - 1
        /\ \A i \in 1 .. Len(ops) - 1 : Tail(ops)[i] = ops[i + 1]
    BY <1>1, <2>2, EmptySeq, HeadTailProperties
  <2>4. /\ h \in DOMAIN op /\ From(c, 1) = op[h].req.addr /\ From(c, 2) = op[h].req.addr + len
        /\ op[h].req \in [addr : Nat, len : Nat \ {0}]
    <3>1. 1 \in 1 .. Len(ops) /\ 1 <= Len(ops) /\ 1 + 1 = 2
      BY <2>3
    <3>2. h \in DOMAIN op /\ From(c, 1) = op[h].req.addr /\ From(c, 1) + op[h].req.len = From(c, 2)
      BY <2>1, <2>3, <3>1 DEF Joining, From
    <3>3. QED
      BY <1>1, <3>2, OpFields
  <2> HIDE DEF h
  <2>5. /\ st.m >= len => st.data = Bytes(op[h].req.addr, len)
        /\ st.end # "assertion"
    <3>1. AnswerTo(op[h].req, op[h].cpls)
      BY <1>1, <2>1, <2>4 DEF InTime, Answering
    <3>2. QED
      BY <2>4, <3>1, AnswerGives
  <2> DEFINE r1 == caller[c].read[1]
             a == op[h].req.addr
  <2>6. /\ r1 \in Nat /\ a \in Nat /\ len \in Nat \ {0} /\ r1 <= a /\ caller[c].data = Bytes(r1, a - r1)
        /\ caller[c].read \in Nat \X (Nat \ {0})
    BY <2>1, <2>4 DEF Joining
  <2> HIDE DEF st
  <2>7. CASE ~(st.m >= len)
    <3>1. e \in Caller0 /\ e.pc = "raised"
      BY <2>2, <2>7
    <3> HIDE DEF e
    <3>2. caller' \in [Callers -> Caller0] /\ caller'[c].pc = "raised"
      BY <1>1, <2>2, <3>1
    <3>3. ASSUME NEW d \in Callers, caller'[d].pc = "join" PROVE Joining(d)'
      <4>1. d # c
        BY <3>2, <3>3
      <4>2. QED
        BY <1>1, <2>1, <3>3, <4>1, OtherCallers
    <3>4. (\A o \in DOMAIN op : Answering(o)') /\ (\A t \in Tags : Filed(t)')
      BY <1>1, <2>1 DEF InTime, Answering, Filed
    <3>5. asserted'
      BY <1>1, <2>1, <2>5 DEF InTime
    <3>6. QED
      BY <1>1, <2>1, <3>2, <3>3, <3>4, <3>5 DEF InTime
  <2>8. CASE st.m >= len
    <3>1. /\ st.data \in Seq(Nat) /\ Bytes(r1, a - r1) \o st.data = Bytes(r1, a + len - r1)
          /\ Bytes(r1, a + len - r1) \in Seq(Nat)
      <4>1. st.data = Bytes(a, len)
        BY <2>5, <2>8
      <4> DEFINE n == a - r1
      <4>2. n \in Nat /\ r1 + n = a /\ n + len = a + len - r1 /\ n + len \in Nat
        BY <2>6
      <4> HIDE DEF r1, a, len, n
      <4>3. r1 \in Nat /\ n \in Nat /\ len \in Nat
        BY <2>6, <4>2
      <4>6. Bytes(r1, n) \o Bytes(r1 + n, len) = Bytes(r1, n + len)
        BY ONLY <4>3, BytesOf, Zenon
      <4>4. Bytes(a, len) \in Seq(Nat) /\ Bytes(r1, n + len) \in Seq(Nat)
        BY <2>6, <4>2, BytesOf
      <4>5. QED
        BY <4>1, <4>2, <4>6, <4>4 DEF n
    <3>2. /\ e \in Caller0 /\ e.pc = "join" /\ e.ops = Tail(ops) /\ e.read = caller[c].read
          /\ e.data = Bytes(r1, a + len - r1)
      <4>1. e = fine
        BY <2>8
      <4> DEFINE nd == caller[c].data \o st.data
                 no == Tail(ops)
      <4>2. fine = [caller[c] EXCEPT !.ops = no, !.data = nd]
        OBVIOUS
      <4>3. nd \in Seq(Nat) /\ nd = Bytes(r1, a + len - r1) /\ no \in Seq(Nat) /\ caller[c].pc = "join"
        BY <1>1, <2>3, <2>6, <3>1
      <4> HIDE DEF nd, e
      <4>4. QED
        BY <2>2, <4>1, <4>2, <4>3
    <3> HIDE DEF e
    <3>3. caller' \in [Callers -> Caller0] /\ caller'[c] = e
      BY <1>1, <2>2, <3>2
    <3>4. Joining(c)'
      <4>1. \A i \in 1 .. Len(ops) : From(c, i)' = From(c, i + 1)
        <5> TAKE i \in 1 .. Len(ops)
        <5>1. op' = op /\ caller'[c].ops = Tail(ops) /\ caller'[c].read = caller[c].read
          BY <1>1, <3>2, <3>3
        <5>2. CASE i <= Len(ops) - 1
          <6>1. i <= Len(Tail(ops)) /\ i + 1 <= Len(ops) /\ Tail(ops)[i] = ops[i + 1]
            BY <2>3, <5>2
          <6>2. QED
            BY <5>1, <6>1 DEF From
        <5>3. CASE ~(i <= Len(ops) - 1)
          <6>1. ~(i <= Len(Tail(ops))) /\ ~(i + 1 <= Len(ops))
            BY <2>3, <5>3
          <6>2. QED
            BY <5>1, <6>1 DEF From
        <5>4. QED
          BY <5>2, <5>3
      <4>2. ASSUME NEW i \in 1 .. Len(Tail(ops))
            PROVE  /\ Tail(ops)[i] \in DOMAIN op
                   /\ From(c, i)' + op[Tail(ops)[i]].req.len = From(c, i + 1)'
        <5>1. i \in 1 .. Len(ops) /\ i + 1 \in 1 .. Len(ops) /\ Tail(ops)[i] = ops[i + 1]
          BY <2>3
        <5>2. ops[i + 1] \in DOMAIN op /\ From(c, i + 1) + op[ops[i + 1]].req.len = From(c, (i + 1) + 1)
          BY <2>1, <5>1 DEF Joining
        <5>3. From(c, i)' = From(c, i + 1) /\ From(c, i + 1)' = From(c, (i + 1) + 1)
          BY <4>1, <5>1
        <5>4. QED
          BY <5>1, <5>2, <5>3
      <4>3. From(c, 1)' = a + len
        <5>1. 1 \in 1 .. Len(ops) /\ 1 + 1 = 2
          BY <2>3
        <5>2. QED
          BY <2>4, <4>1, <5>1
      <4>4. r1 <= a + len
        BY <2>6
      <4>5. /\ caller'[c].ops = Tail(ops) /\ caller'[c].read = caller[c].read /\ op' = op
            /\ caller'[c].data = Bytes(r1, a + len - r1)
        BY <1>1, <3>2, <3>3
      <4>6. \A i \in 1 .. Len(caller'[c].ops) :
               caller'[c].ops[i] \in DOMAIN op' /\ From(c, i)' + op'[caller'[c].ops[i]].req.len = From(c, i + 1)'
        <5> HIDE DEF ops, h, r1, a, len
        <5>1. QED
          BY <4>2, <4>5
      <4>7. /\ caller'[c].read \in Nat \X (Nat \ {0}) /\ caller'[c].read[1] <= From(c, 1)'
            /\ caller'[c].data = Bytes(caller'[c].read[1], From(c, 1)' - caller'[c].read[1])
        BY <2>6, <4>3, <4>4, <4>5
      <4>8. QED
        BY <4>6, <4>7 DEF Joining
    <3>5. ASSUME NEW d \in Callers, caller'[d].pc = "join" PROVE Joining(d)'
      <4>1. CASE d = c
        BY <3>4, <4>1
      <4>2. CASE d # c
        BY <1>1, <2>1, <3>5, <4>2, OtherCallers
      <4>3. QED
        BY <4>1, <4>2
    <3>6. (\A o \in DOMAIN op : Answering(o)') /\ (\A t \in Tags : Filed(t)')
      BY <1>1, <2>1 DEF InTime, Answering, Filed
    <3>7. asserted'
      BY <1>1, <2>1, <2>5 DEF InTime
    <3>8. QED
      BY <1>1, <2>1, <3>3, <3>5, <3>6, <3>7 DEF InTime
  <2>9. QED
    BY <2>7, <2>8
<1>4. QED
  BY <1>1, <1>2, <1>3 DEF DInv

LEMMA ReadNext ==
  ASSUME DInv, NEW c \in Callers, NEW r \in Reads, Read(c, r)
  PROVE  DInv'
<1> DEFINE reqs == Requests(r[1], r[2])
           n == Len(reqs)
           news == [k \in 1 .. n |-> [req |-> reqs[k], pc |-> "alloc", tag |-> NoTag, cpls |-> <<>>]]
           none == [k \in 1 .. n |-> <<>>]
           ops == [k \in 1 .. n |-> Len(op) + k]
           e == [pc |-> "join", read |-> r, data |-> <<>>, ops |-> ops]
<1>1. /\ DTypeOK /\ HeldApart /\ (late = 0 => InTime)
      /\ caller' = [caller EXCEPT ![c] = e] /\ op' = op \o news /\ todo' = todo \o none
      /\ UNCHANGED <<current_tag, tag_active, rx_cpl_queues, asserted, errors, late>>
  BY DEF DInv, Read
<1>2. r \in Nat \X (Nat \ {0}) /\ r[1] \in Nat /\ r[2] \in Nat \ {0}
  <2>1. r \in Nat \X (Nat \ {0})
    BY DmaAssumption
  <2>2. QED
    BY <2>1
<1>3. /\ reqs \in Seq(LegalRequest) /\ reqs # <<>> /\ reqs[1].addr = r[1]
      /\ \A k \in 1 .. Len(reqs) : reqs[k].addr + reqs[k].len = IF k < Len(reqs) THEN reqs[k + 1].addr ELSE r[1] + r[2]
      /\ n \in Nat \ {0}
  <2>1. /\ reqs \in Seq(LegalRequest) /\ reqs # <<>> /\ reqs[1].addr = r[1]
        /\ \A k \in 1 .. Len(reqs) : reqs[k].addr + reqs[k].len = IF k < Len(reqs) THEN reqs[k + 1].addr ELSE r[1] + r[2]
    BY <1>2, RequestsAreTheRead
  <2> HIDE DEF reqs
  <2>2. Len(reqs) \in Nat \ {0}
    BY <2>1, EmptySeq
  <2>3. QED
    BY <2>1, <2>2
<1> HIDE DEF reqs
<1>4. /\ news \in Seq(Op) /\ Len(news) = n /\ none \in Seq(Seq(Cpl)) /\ Len(none) = n
      /\ \A k \in 1 .. n : /\ news[k].req = reqs[k] /\ news[k].pc = "alloc" /\ news[k].cpls = <<>>
                           /\ none[k] = <<>>
      /\ ops \in Seq(Nat) /\ Len(ops) = n /\ \A k \in 1 .. n : ops[k] = Len(op) + k
  <2>1. <<>> \in Seq(Cpl) /\ Len(op) \in Nat
    BY <1>1, OpFields, EmptySeq
  <2>2. \A k \in 1 .. n : [req |-> reqs[k], pc |-> "alloc", tag |-> NoTag, cpls |-> <<>>] \in Op
    <3>1. \A k \in 1 .. n : reqs[k] \in LegalRequest
      BY <1>3, ElementOfSeq
    <3> HIDE DEF n
    <3>2. QED
      BY <2>1, <3>1 DEF Op
  <2>3. n \in Nat
    BY <1>3
  <2> HIDE DEF n
  <2>4. news \in Seq(Op) /\ Len(news) = n
    BY <2>2, <2>3
  <2>5. none \in Seq(Seq(Cpl)) /\ Len(none) = n
    BY <2>1, <2>3
  <2>6. ops \in Seq(Nat) /\ Len(ops) = n
    BY <2>1, <2>3
  <2>7. QED
    BY <2>3, <2>4, <2>5, <2>6
<1> HIDE DEF news, none, ops
<1>5. Len(op) \in Nat /\ DOMAIN op = 1 .. Len(op) /\ op \in Seq(Op) /\ todo \in Seq(Seq(Cpl)) /\ Len(todo) = Len(op)
  BY <1>1, OpFields DEF DTypeOK
<1> DEFINE m == Len(op)
<1>6. /\ op' \in Seq(Op) /\ todo' \in Seq(Seq(Cpl)) /\ Len(op') = m + n /\ Len(todo') = m + n /\ DOMAIN op' = 1 .. m + n
      /\ \A p \in 1 .. m : op'[p] = op[p] /\ todo'[p] = todo[p]
      /\ \A k \in 1 .. n : op'[m + k] = news[k] /\ todo'[m + k] = none[k]
  <2>1. /\ op' \in Seq(Op) /\ Len(op') = m + n
        /\ \A i \in 1 .. m + n : op'[i] = IF i <= m THEN op[i] ELSE news[i - m]
    <3>a. op \in Seq(Op) /\ news \in Seq(Op)
      BY <1>4, <1>5
    <3>1. /\ op \o news \in Seq(Op) /\ Len(op \o news) = Len(op) + Len(news)
          /\ \A i \in 1 .. Len(op) + Len(news) : (op \o news)[i] = IF i <= Len(op) THEN op[i] ELSE news[i - Len(op)]
      BY ONLY <3>a, ConcatProperties
    <3>2. QED
      BY <1>1, <1>4, <3>1
  <2>2. /\ todo' \in Seq(Seq(Cpl)) /\ Len(todo') = m + n
        /\ \A i \in 1 .. m + n : todo'[i] = IF i <= m THEN todo[i] ELSE none[i - m]
    <3>a. todo \in Seq(Seq(Cpl)) /\ none \in Seq(Seq(Cpl))
      BY <1>4, <1>5
    <3>1. /\ todo \o none \in Seq(Seq(Cpl)) /\ Len(todo \o none) = Len(todo) + Len(none)
          /\ \A i \in 1 .. Len(todo) + Len(none) :
                (todo \o none)[i] = IF i <= Len(todo) THEN todo[i] ELSE none[i - Len(todo)]
      BY ONLY <3>a, ConcatProperties
    <3>2. QED
      BY <1>1, <1>4, <1>5, <3>1
  <2>3. m \in Nat /\ n \in Nat
    BY <1>3, <1>5
  <2> HIDE DEF m, n
  <2>4. \A p \in 1 .. m : p \in 1 .. m + n /\ p <= m
    BY <2>3
  <2>5. \A k \in 1 .. n : m + k \in 1 .. m + n /\ ~(m + k <= m) /\ (m + k) - m = k
    BY <2>3
  <2>6. DOMAIN op' = 1 .. m + n
    BY <2>1, LenProperties
  <2>7. \A p \in 1 .. m : op'[p] = op[p] /\ todo'[p] = todo[p]
    BY <2>1, <2>2, <2>4
  <2>8. \A k \in 1 .. n : op'[m + k] = news[k] /\ todo'[m + k] = none[k]
    BY <2>1, <2>2, <2>5
  <2>9. QED
    BY <2>1, <2>2, <2>6, <2>7, <2>8
<1>7. /\ m \in Nat /\ n \in Nat \ {0} /\ DOMAIN op = 1 .. m
      /\ \A p \in DOMAIN op' : p \in DOMAIN op \/ \E k \in 1 .. n : p = m + k
      /\ DOMAIN op \subseteq DOMAIN op' /\ \A k \in 1 .. n : m + k \in DOMAIN op'
  <2>1. m \in Nat /\ n \in Nat \ {0} /\ DOMAIN op = 1 .. m /\ DOMAIN op' = 1 .. m + n
    BY <1>3, <1>5, <1>6
  <2> HIDE DEF m, n
  <2>2. ASSUME NEW p \in 1 .. m + n PROVE p \in 1 .. m \/ \E k \in 1 .. n : p = m + k
    <3>1. CASE p <= m
      BY <2>1, <3>1
    <3>2. CASE ~(p <= m)
      <4>1. p - m \in 1 .. n /\ p = m + (p - m)
        BY <2>1, <3>2
      <4>2. QED
        BY <4>1
    <3>3. QED
      BY <3>1, <3>2
  <2>3. 1 .. m \subseteq 1 .. m + n /\ \A k \in 1 .. n : m + k \in 1 .. m + n
    BY <2>1
  <2>4. QED
    BY <2>1, <2>2, <2>3
<1> HIDE DEF m, n
\* a new operation
<1>8. ASSUME NEW p \in DOMAIN op'
      PROVE  \/ p \in DOMAIN op /\ op'[p] = op[p] /\ todo'[p] = todo[p]
             \/ ~(p \in DOMAIN op) /\ op'[p].pc = "alloc" /\ op'[p].cpls = <<>> /\ todo'[p] = <<>>
  <2>1. CASE p \in DOMAIN op
    BY <1>6, <1>7, <2>1
  <2>2. CASE ~(p \in DOMAIN op)
    <3>1. PICK k \in 1 .. n : p = m + k
      BY <1>7, <2>2
    <3>2. QED
      BY <1>4, <1>6, <2>2, <3>1
  <2>3. QED
    BY <2>1, <2>2
<1>9. /\ \A p \in DOMAIN op' : Holds(p)' => p \in DOMAIN op /\ Holds(p) /\ op'[p] = op[p]
      /\ \A p \in DOMAIN op : p \in DOMAIN op' /\ op'[p] = op[p] /\ (Holds(p)' <=> Holds(p))
  BY <1>6, <1>7, <1>8 DEF Holds
<1>10. DTypeOK'
  <2>1. \A p \in DOMAIN op' : Holds(p)' \/ todo'[p] # <<>> => op'[p].tag \in Tags
    BY <1>1, <1>8, <1>9 DEF DTypeOK
  <2>2. QED
    BY <1>1, <1>6, <2>1 DEF DTypeOK
<1>11. HeldApart'
  <2>1. \A p, q \in DOMAIN op' : Holds(p)' /\ Holds(q)' /\ op'[p].tag = op'[q].tag => p = q
    BY <1>1, <1>9 DEF HeldApart
  <2>2. \A u \in Tags : tag_active'[u] <=> \E p \in DOMAIN op' : Holds(p)' /\ op'[p].tag = u
    BY <1>1, <1>9 DEF HeldApart
  <2>3. QED
    BY <2>1, <2>2 DEF HeldApart
<1>12. ASSUME late = 0 PROVE InTime'
  <2>1. InTime
    BY <1>1, <1>12
  <2>2. ASSUME NEW p \in DOMAIN op' PROVE Answering(p)'
    <3>1. CASE p \in DOMAIN op
      <4>1. Answering(p) /\ Woke(p) /\ todo'[p] = todo[p] /\ rx_cpl_queues' = rx_cpl_queues
        BY <1>1, <1>8, <2>1, <3>1 DEF InTime, Woke
      <4>2. QED
        BY <4>1, AnsweringKept
    <3>2. CASE ~(p \in DOMAIN op)
      BY <1>8, <3>2 DEF Answering
    <3>3. QED
      BY <3>1, <3>2
  <2>3. ASSUME NEW u \in Tags PROVE Filed(u)'
    BY <1>1, <1>9, <2>1 DEF InTime, Filed
  <2> DEFINE Caller0 == [pc : {"idle", "join", "raised"}, read : Nat \X Nat, ops : Seq(Nat), data : Seq(Nat)]
  <2>4. e \in Caller0
    BY <1>2, <1>4, EmptySeq
  <2>5. /\ caller' \in [Callers -> Caller0] /\ caller'[c] = e
        /\ e.ops = ops /\ e.read = r /\ e.data = <<>>
    <3>1. e.ops = ops /\ e.read = r /\ e.data = <<>>
      OBVIOUS
    <3> HIDE DEF e
    <3>2. QED
      BY <1>1, <2>1, <2>4, <3>1 DEF InTime
  <2>6. ASSUME NEW k \in 1 .. n
        PROVE  ops[k] \in DOMAIN op' /\ op'[ops[k]].req = reqs[k] /\ From(c, k)' = reqs[k].addr
    <3>1. ops[k] \in DOMAIN op' /\ op'[ops[k]].req = reqs[k]
      <4>1. ops[k] = m + k /\ m + k \in DOMAIN op'
        BY <1>4, <1>6, <1>7 DEF m
      <4>2. op'[m + k].req = reqs[k]
        BY <1>4, <1>6 DEF m
      <4>3. QED
        BY <4>1, <4>2
    <3>2. k <= Len(ops)
      BY <1>4, <1>7
    <3>3. QED
      BY <2>5, <3>1, <3>2 DEF From
  <2>7. From(c, n + 1)' = r[1] + r[2]
    <3>1. ~(n + 1 <= Len(ops))
      BY <1>4, <1>7
    <3>2. QED
      BY <2>5, <3>1 DEF From
  <2>8. Joining(c)'
    <3>1. ASSUME NEW k \in 1 .. n
          PROVE  ops[k] \in DOMAIN op' /\ From(c, k)' + op'[ops[k]].req.len = From(c, k + 1)'
      <4>1. reqs[k].addr + reqs[k].len = IF k < n THEN reqs[k + 1].addr ELSE r[1] + r[2]
        BY <1>3 DEF n
      <4>2. CASE k < n
        <5>1. k + 1 \in 1 .. n
          BY <1>7, <4>2
        <5>2. QED
          BY <2>6, <4>1, <4>2, <5>1
      <4>3. CASE ~(k < n)
        <5>1. k = n
          BY <1>7, <4>3
        <5>2. QED
          BY <2>6, <2>7, <4>1, <4>3, <5>1
      <4>4. QED
        BY <4>2, <4>3
    <3>2. From(c, 1)' = r[1]
      BY <1>3, <1>7, <2>6
    <3>3. Bytes(r[1], 0) = <<>> /\ r[1] - r[1] = 0 /\ r[1] <= r[1]
      <4>1. Bytes(r[1], 0) \in Seq(Nat) /\ Len(Bytes(r[1], 0)) = 0
        BY <1>2, BytesOf
      <4>2. QED
        BY <1>2, <4>1, EmptySeq
    <3>4. Len(caller'[c].ops) = n /\ caller'[c].ops = ops /\ caller'[c].read = r /\ caller'[c].data = <<>>
      BY <1>4, <2>5
    <3>5. /\ \A i \in 1 .. Len(caller'[c].ops) :
                caller'[c].ops[i] \in DOMAIN op' /\ From(c, i)' + op'[caller'[c].ops[i]].req.len = From(c, i + 1)'
          /\ caller'[c].read \in Nat \X (Nat \ {0}) /\ caller'[c].read[1] <= From(c, 1)'
          /\ caller'[c].data = Bytes(caller'[c].read[1], From(c, 1)' - caller'[c].read[1])
      BY <1>2, <3>1, <3>2, <3>3, <3>4
    <3>6. QED
      BY <3>5 DEF Joining
  <2>9. ASSUME NEW d \in Callers, caller'[d].pc = "join" PROVE Joining(d)'
    <3>1. CASE d = c
      BY <2>8, <3>1
    <3>2. CASE d # c
      <4> HIDE DEF e
      <4>1. \A p \in DOMAIN op : op'[p].req = op[p].req
        BY <1>9
      <4>2. QED
        BY <1>1, <1>7, <2>1, <2>9, <3>2, <4>1, OtherCallers
    <3>3. QED
      BY <3>1, <3>2
  <2>10. QED
    BY <1>1, <2>1, <2>2, <2>3, <2>5, <2>9 DEF InTime
<1>13. QED
  BY <1>1, <1>10, <1>11, <1>12 DEF DInv

LEMMA DmaNext == DInv /\ [Next]_vars => DInv'
<1> SUFFICES ASSUME DInv, [Next]_vars PROVE DInv'
  OBVIOUS
<1>1. ASSUME NEW c \in Callers, Caller(c) PROVE DInv'
  BY <1>1, JoinNext, ReturnNext DEF Caller
<1>2. ASSUME NEW c \in Callers, NEW r \in Reads, Read(c, r) PROVE DInv'
  BY <1>2, ReadNext
<1>3. ASSUME NEW o \in DOMAIN op, Operation(o) PROVE DInv'
  BY <1>3, AllocTagNext, SendRequestNext, RecvCplNext DEF Operation
<1>4. ASSUME NEW o \in DOMAIN op, TimeOut(o) PROVE DInv'
  BY <1>4, TimeOutNext
<1>5. ASSUME NEW o \in DOMAIN op, Answer(o) \/ AnswerBadly(o) PROVE DInv'
  BY <1>5, AnswerNext, AnswerBadlyNext
<1>6. CASE UNCHANGED vars
  <2>1. DTypeOK /\ HeldApart /\ (late = 0 => InTime)
    BY DEF DInv
  <2>2. UNCHANGED <<caller, op, current_tag, tag_active, rx_cpl_queues, todo, asserted, late>>
    BY <1>6 DEF vars
  <2>3. DTypeOK' /\ HeldApart'
    BY <2>1, <2>2 DEF DTypeOK, HeldApart, Holds
  <2>4. ASSUME InTime PROVE InTime'
    <3>1. \A p \in DOMAIN op : Answering(p)'
      BY <2>2, <2>4, AnsweringKept DEF InTime, Woke
    <3>2. \A u \in Tags : Filed(u)'
      BY <2>2, <2>4 DEF InTime, Filed
    <3>3. QED
      BY <2>2, <2>4, <3>1, <3>2, CallersKept
  <2>5. QED
    BY <2>1, <2>2, <2>3, <2>4 DEF DInv
<1>7. QED
  BY <1>1, <1>2, <1>3, <1>4, <1>5, <1>6 DEF Next

LEMMA DmaInvariant == Spec => []DInv
<1>1. Init => DInv
  BY DmaInit
<1>2. DInv /\ [Next]_vars => DInv'
  BY DmaNext
<1>3. QED
  BY <1>1, <1>2, PTL DEF Spec

\* What an operation has taken in time is the beginning of an answer to it.
LEMMA TakenIsAnswer ==
  ASSUME DInv, late = 0, NEW o \in DOMAIN op, NEW k \in 1 .. Len(op[o].cpls)
  PROVE  \E A : /\ AnswerTo(op[o].req, A) /\ k \in 1 .. Len(A) /\ op[o].cpls[k] = A[k]
                /\ op[o].pc = "recv" => k < Len(A)
<1>1. Answering(o)
  BY DEF DInv, InTime
<1>2. op[o].pc \in {"alloc", "wait", "send", "recv", "done"} /\ op[o].cpls \in Seq(Cpl) /\ Len(op[o].cpls) \in Nat
  BY OpFields, LenProperties DEF DInv
<1>3. op[o].pc \in {"recv", "done"}
  <2>1. CASE op[o].cpls = <<>>
    <3>1. Len(op[o].cpls) = 0
      BY <2>1
    <3>2. FALSE
      BY <3>1
    <3>3. QED
      BY <3>2
  <2>2. CASE op[o].cpls # <<>>
    BY <1>1, <1>2, <2>2 DEF Answering
  <2>3. QED
    BY <2>1, <2>2
<1>4. CASE op[o].pc = "recv"
  <2>1. PICK A : /\ AnswerTo(op[o].req, A) /\ Along(A, op[o].cpls, rx_cpl_queues[op[o].tag], todo[o])
                 /\ Len(op[o].cpls) < Len(A)
    BY <1>1, <1>4 DEF Answering
  <2>2. Len(A) \in Nat
    BY <2>1, LenProperties DEF AnswerTo
  <2>3. k < Len(A) /\ k \in 1 .. Len(A)
    BY <1>2, <2>1, <2>2
  <2>4. op[o].cpls[k] = A[k]
    BY <2>1 DEF Along
  <2>5. QED
    BY <2>1, <2>3, <2>4
<1>5. CASE op[o].pc = "done"
  BY <1>1, <1>5 DEF Answering
<1>6. QED
  BY <1>3, <1>4, <1>5

\* A tag is one operation's while it is active, and while no recv_cpl has timed
\* out nothing is filed under a tag but what its holder has still to take: the
\* scan of alloc_tag, the completer's count of bytes and the requester's test
\* for the last completion, for every way to cut every read.
THEOREM TagsStayClean == Spec => []TagsAreClean
<1>1. DInv => TagsAreClean
  <2> SUFFICES ASSUME DInv PROVE TagsAreClean
    OBVIOUS
  <2>1. DTypeOK /\ HeldApart /\ (late = 0 => InTime)
    BY DEF DInv
  <2>2. TagsExclusive
    <3> SUFFICES ASSUME NEW t \in Tags
                 PROVE  Cardinality(Holders(t)) = IF tag_active[t] THEN 1 ELSE 0
      BY DEF TagsExclusive
    <3>1. Holders(t) = {o \in DOMAIN op : Holds(o) /\ op[o].tag = t}
      BY DEF Holders, Holds
    <3>2. CASE tag_active[t]
      <4>1. PICK o \in DOMAIN op : Holds(o) /\ op[o].tag = t
        BY <2>1, <3>2 DEF HeldApart
      <4>2. Holders(t) = {o}
        BY <2>1, <3>1, <4>1 DEF HeldApart
      <4>3. QED
        BY <3>2, <4>2, FS_Singleton
    <3>3. CASE ~tag_active[t]
      <4>1. Holders(t) = {}
        BY <2>1, <3>1, <3>3 DEF HeldApart
      <4>2. QED
        BY <3>3, <4>1, FS_EmptySet
    <3>4. QED
      BY <3>2, <3>3
  <2>3. NothingLeftOver
    <3> SUFFICES ASSUME late = 0, NEW t \in Tags, rx_cpl_queues[t] # <<>>
                 PROVE  \E o \in Holders(t) : /\ op[o].pc = "recv"
                                              /\ \A k \in DOMAIN op[o].cpls : ~IsLast(op[o].cpls[k])
      BY DEF NothingLeftOver
    <3>1. PICK o \in DOMAIN op : op[o].pc = "recv" /\ op[o].tag = t
      BY <2>1 DEF InTime, Filed
    <3>2. o \in Holders(t)
      BY <3>1 DEF Holders
    <3>3. ASSUME NEW k \in DOMAIN op[o].cpls PROVE ~IsLast(op[o].cpls[k])
      <4>1. k \in 1 .. Len(op[o].cpls) /\ op[o].req \in [addr : Nat, len : Nat \ {0}]
        BY <2>1, OpFields, LenProperties
      <4>2. PICK A : AnswerTo(op[o].req, A) /\ k \in 1 .. Len(A) /\ op[o].cpls[k] = A[k] /\ k < Len(A)
        BY <3>1, <4>1, TakenIsAnswer
      <4>3. IsLast(A[k]) <=> k = Len(A)
        BY <4>1, <4>2, LastIsLast
      <4>4. k # Len(A)
        BY <4>2
      <4>5. QED
        BY <4>2, <4>3, <4>4
    <3>4. QED
      BY <3>1, <3>2, <3>3
  <2>4. QED
    BY <2>2, <2>3 DEF TagsAreClean
<1>2. QED
  BY <1>1, DmaInvariant, PTL

\* Every request stays within a page and the largest request, every completion
\* within the payload size and, but for the last, up to a completion boundary;
\* and what dma_mem_read puts together from them is, unless a recv_cpl timed
\* out, the bytes it was asked for, each of them once and in order.
THEOREM ReadsStayWhole == Spec => []ReadsWhole
<1>1. DInv => ReadsWhole
  <2> SUFFICES ASSUME DInv PROVE ReadsWhole
    OBVIOUS
  <2>1. DTypeOK /\ HeldApart /\ (late = 0 => InTime)
    BY DEF DInv
  <2>2. ReadsItsBytes
    <3> SUFFICES ASSUME late = 0, NEW c \in Callers, caller[c].pc = "join" /\ caller[c].ops = <<>>
                 PROVE  caller[c].data = [k \in 1 .. caller[c].read[2] |-> caller[c].read[1] + k - 1]
      BY DEF ReadsItsBytes
    <3>1. Joining(c)
      BY <2>1 DEF InTime
    <3> DEFINE r1 == caller[c].read[1]
               r2 == caller[c].read[2]
    <3>2. /\ caller[c].read \in Nat \X (Nat \ {0})
          /\ caller[c].data = Bytes(r1, From(c, 1) - r1)
      BY <3>1 DEF Joining
    <3>3. r1 \in Nat /\ r2 \in Nat
      BY <3>2
    <3>4. From(c, 1) = r1 + r2
      <4>1. Len(caller[c].ops) = 0 /\ ~(1 <= 0)
        OBVIOUS
      <4>2. QED
        BY <4>1 DEF From
    <3>5. From(c, 1) - r1 = r2
      BY <3>3, <3>4
    <3>6. QED
      BY <3>2, <3>5 DEF Bytes
  <2>3. SplitLegally
    <3> SUFFICES ASSUME NEW o \in DOMAIN op
                 PROVE  LET r == op[o].req
                            cpls == op[o].cpls
                        IN /\ r.addr \div Page = (r.addr + r.len - 1) \div Page
                           /\ Dwords(r) * DW <= MaxReadReq
                           /\ \A k \in DOMAIN cpls :
                                /\ cpls[k].length * DW <= MaxPayload
                                /\ (late = 0 /\ ~IsLast(cpls[k])) =>
                                      Divides(Rcb, cpls[k].first + cpls[k].length * DW)
      BY DEF SplitLegally
    <3> DEFINE r == op[o].req
               cpls == op[o].cpls
    <3>1. r \in LegalRequest /\ cpls \in Seq(Cpl) /\ DOMAIN cpls = 1 .. Len(cpls) /\ r \in [addr : Nat, len : Nat \ {0}]
      BY <2>1, OpFields, LenProperties
    <3>2. r.addr \div Page = (r.addr + r.len - 1) \div Page /\ Dwords(r) * DW <= MaxReadReq
      BY <3>1 DEF LegalRequest
    <3>3. ASSUME NEW k \in DOMAIN cpls PROVE cpls[k].length * DW <= MaxPayload
      <4>1. cpls[k] \in Cpl
        BY <3>1, <3>3, ElementOfSeq
      <4>2. QED
        BY <4>1 DEF Cpl
    <3>4. ASSUME NEW k \in DOMAIN cpls, late = 0, ~IsLast(cpls[k])
          PROVE  Divides(Rcb, cpls[k].first + cpls[k].length * DW)
      <4>1. k \in 1 .. Len(cpls)
        BY <3>1, <3>4
      <4>2. PICK A : AnswerTo(r, A) /\ k \in 1 .. Len(A) /\ cpls[k] = A[k]
        BY <3>4, <4>1, TakenIsAnswer
      <4> DEFINE C == Completions(r)
      <4>3. Cut(r, C)
        BY <3>1, CompletionsCut
      <4> HIDE DEF r, cpls
      <4>4. k # Len(A)
        BY <3>1, <3>4, <4>2, LastIsLast
      <4>5. A[k] = C[k] /\ Len(A) <= Len(C) /\ Len(A) \in Nat /\ Len(C) \in Nat
        <5>1. A \in Seq(Cpl) /\ Len(A) <= Len(C) /\ A[k] = C[k]
          BY <4>2, <4>4 DEF AnswerTo
        <5>2. C \in Seq(Cpl)
          BY <4>3 DEF Cut
        <5>3. QED
          BY <5>1, <5>2, LenProperties
      <4> HIDE DEF C
      <4>6. k \in 1 .. Len(C) /\ k < Len(C)
        BY <4>2, <4>4, <4>5
      <4>7. Divides(Rcb, Ends(C, k))
        BY <4>3, <4>6 DEF Cut
      <4>8. QED
        BY <4>2, <4>5, <4>7, DmaConstants DEF Ends
    <3>5. QED
      BY <3>2, <3>3, <3>4
  <2>4. QED
    BY <2>2, <2>3 DEF ReadsWhole
<1>2. QED
  BY <1>1, DmaInvariant, PTL

\* The assertions of dma_mem_read, which a completion left behind by a time-out
\* can break, hold as long as there is none.
THEOREM AssertionsHoldInTime == Spec => [](late = 0 => AssertionsHold)
<1>1. DInv => (late = 0 => AssertionsHold)
  BY DEF DInv, InTime, AssertionsHold
<1>2. QED
  BY <1>1, DmaInvariant, PTL


-----------------------------------------------------------------------------
(* The segmented stream.                                                   *)

\* Where a side of the stream is: the frame that goes on or comes next, how
\* much of it there was, and its length once it has begun.
Cursor == {c \in [id : Nat, off : Nat, len : Nat] : c.off > 0 => c.off < c.len}
Begin(i) == [id |-> i, off |-> 0, len |-> 0]
Segment == [valid : BOOLEAN, sop : BOOLEAN, eop : BOOLEAN, id : Nat, len : Nat, off : Nat, n : Nat]

\* Segment g goes on at c and leads to d.
Leads(c, g, d) ==
  \/ ~g.valid /\ d = c
  \/ /\ g.valid /\ g.id = c.id /\ g.off = c.off
     /\ c.off > 0 => g.len = c.len
     /\ g.sop <=> c.off = 0
     /\ g.n = S!Smaller(Lanes, g.len - g.off)
     /\ g.eop <=> g.off + g.n >= g.len
     /\ d = IF g.eop THEN Begin(g.id + 1) ELSE [id |-> g.id, off |-> g.off + g.n, len |-> g.len]

\* The segments s lead from a to b.
Chain(a, s, b) ==
  \E p \in [1 .. Len(s) + 1 -> Cursor] :
    /\ p[1] = a /\ p[Len(s) + 1] = b
    /\ \A k \in 1 .. Len(s) : Leads(p[k], s[k], p[k + 1])

LEMMA NoChain ==
  ASSUME NEW a \in Cursor
  PROVE  Chain(a, <<>>, a)
<1> DEFINE p == [k \in 1 .. 1 |-> a]
<1>1. Len(<<>>) = 0
  OBVIOUS
<1>2. p \in [1 .. Len(<<>>) + 1 -> Cursor] /\ p[1] = a /\ p[Len(<<>>) + 1] = a
  BY <1>1
<1>3. \A k \in 1 .. Len(<<>>) : Leads(p[k], <<>>[k], p[k + 1])
  BY <1>1
<1> HIDE DEF p
<1>4. QED
  BY <1>2, <1>3 DEF Chain

LEMMA EmptyChain ==
  ASSUME NEW a, NEW b, Chain(a, <<>>, b)
  PROVE  a = b /\ a \in Cursor
<1>1. Len(<<>>) = 0
  OBVIOUS
<1>2. QED
  BY <1>1 DEF Chain

LEMMA ChainEnds ==
  ASSUME NEW s \in Seq(Segment), NEW a, NEW b, Chain(a, s, b)
  PROVE  a \in Cursor /\ b \in Cursor
<1>1. Len(s) \in Nat
  OBVIOUS
<1>2. QED
  BY <1>1 DEF Chain

LEMMA ChainAppend ==
  ASSUME NEW s \in Seq(Segment), NEW g \in Segment, NEW a, NEW b, NEW c \in Cursor,
         Chain(a, s, b), Leads(b, g, c)
  PROVE  Chain(a, Append(s, g), c)
<1> DEFINE l == Len(s)
           t == Append(s, g)
<1>1. l \in Nat /\ Len(t) = l + 1 /\ (\A k \in 1 .. l : t[k] = s[k]) /\ t[l + 1] = g
  BY AppendProperties
<1>2. PICK p \in [1 .. l + 1 -> Cursor] :
        /\ p[1] = a /\ p[l + 1] = b
        /\ \A k \in 1 .. l : Leads(p[k], s[k], p[k + 1])
  BY DEF Chain
<1> DEFINE q == [k \in 1 .. Len(t) + 1 |-> IF k = l + 2 THEN c ELSE p[k]]
<1> HIDE DEF l, t
<1>3. \A k \in 1 .. Len(t) + 1 : k = l + 2 \/ k \in 1 .. l + 1
  BY <1>1
<1>4. q \in [1 .. Len(t) + 1 -> Cursor]
  BY <1>2, <1>3
<1>5. q[1] = a /\ q[Len(t) + 1] = c
  BY <1>1, <1>2
<1>6. ASSUME NEW k \in 1 .. Len(t) PROVE Leads(q[k], t[k], q[k + 1])
  <2>1. k \in 1 .. l + 1 /\ q[k] = p[k]
    BY <1>1
  <2>2. CASE k = l + 1
    <3>1. q[k] = b /\ t[k] = g /\ q[k + 1] = c
      BY <1>1, <1>2, <2>1, <2>2
    <3>2. QED
      BY <3>1
  <2>3. CASE k # l + 1
    <3>1. k \in 1 .. l
      BY <1>1, <2>1, <2>3
    <3>2. q[k + 1] = p[k + 1] /\ t[k] = s[k]
      BY <1>1, <3>1
    <3>3. QED
      BY <1>2, <2>1, <3>1, <3>2
  <2>4. QED
    BY <2>2, <2>3
<1> HIDE DEF q
<1>7. QED
  BY <1>4, <1>5, <1>6 DEF Chain, t

LEMMA ChainTail ==
  ASSUME NEW s \in Seq(Segment), s # <<>>, NEW a, NEW b, Chain(a, s, b)
  PROVE  \E m \in Cursor : Leads(a, Head(s), m) /\ Chain(m, Tail(s), b)
<1> DEFINE l == Len(s)
           t == Tail(s)
<1>1. l \in Nat /\ l > 0 /\ Len(t) = l - 1 /\ (\A k \in 1 .. l - 1 : t[k] = s[k + 1]) /\ Head(s) = s[1]
  BY EmptySeq, LenProperties, HeadTailProperties
<1>2. PICK p \in [1 .. l + 1 -> Cursor] :
        /\ p[1] = a /\ p[l + 1] = b
        /\ \A k \in 1 .. l : Leads(p[k], s[k], p[k + 1])
  BY DEF Chain
<1> DEFINE q == [k \in 1 .. Len(t) + 1 |-> p[k + 1]]
<1> HIDE DEF l, t
<1>3. q \in [1 .. Len(t) + 1 -> Cursor] /\ q[1] = p[2] /\ q[Len(t) + 1] = b
  BY <1>1, <1>2
<1>4. ASSUME NEW k \in 1 .. Len(t) PROVE Leads(q[k], t[k], q[k + 1])
  <2>1. k + 1 \in 1 .. l /\ q[k] = p[k + 1] /\ t[k] = s[k + 1] /\ q[k + 1] = p[(k + 1) + 1]
    BY <1>1
  <2>2. QED
    BY <1>2, <2>1
<1>5. Leads(a, Head(s), p[2]) /\ p[2] \in Cursor
  BY <1>1, <1>2
<1>6. Chain(p[2], t, b)
  <2> HIDE DEF q
  <2>1. QED
    BY <1>3, <1>4 DEF Chain
<1>7. QED
  BY <1>5, <1>6 DEF t

StreamFrame == [id : Nat, len : Nat]
InFrame == {c \in Cursor : c.off > 0}
SourceAt(c, q) == IF c = S!None THEN Begin(sent - Len(q) + 1) ELSE c
SinkAt == IF partial = S!None THEN Begin(received + 1) ELSE [id |-> partial.id, off |-> partial.got, len |-> partial.len]

\* Frames are numbered as they are sent: the source is in the middle of the
\* one before those that are queued.
Queued(c, q) ==
  /\ q \in Seq(StreamFrame) /\ Len(q) <= sent
  /\ \A i \in 1 .. Len(q) : q[i].id = sent - Len(q) + i
  /\ c # S!None => c \in InFrame /\ c.id = sent - Len(q)

\* A beat: segments of frames that were sent.
Beat(s, n) == s \in Seq(Segment) /\ Len(s) <= n /\ \A k \in 1 .. Len(s) : s[k].id <= sent

Packing(st, k) ==
  /\ st \in [beat : Seq(Segment), cur : InFrame \cup {S!None}, queue : Seq(StreamFrame)]
  /\ Beat(st.beat, k) /\ Queued(st.cur, st.queue) /\ Len(st.queue) <= Len(queue)
  /\ Chain(SourceAt(cur, queue), st.beat, SourceAt(st.cur, st.queue))

LEMMA StreamConstants ==
  /\ SegCount \in Nat \ {0} /\ Lanes \in Nat \ {0} /\ SourceLimit \in Nat \ {0} /\ SinkLimit \in Nat \ {0}
  /\ MaxFrames \in Nat \ {0} /\ Lengths \subseteq Nat
BY PartsAssumption DEF S!StreamAssumption

LEMMA NoneIsNoFrame == S!None \notin Cursor
<1>1. DOMAIN S!None = {"none"}
  BY DEF S!None
<1>2. \A c \in Cursor : DOMAIN c = {"id", "off", "len"}
  BY DEF Cursor
<1>3. QED
  BY <1>1, <1>2

LEMMA BeginIsCursor == \A i \in Nat : Begin(i) \in Cursor
BY DEF Begin, Cursor

LEMMA BeatAppend ==
  ASSUME NEW s, NEW k \in Nat, Beat(s, k), NEW g \in Segment, g.id <= sent
  PROVE  Beat(Append(s, g), k + 1)
<1> DEFINE t == Append(s, g)
<1>1. Len(s) \in Nat /\ t \in Seq(Segment) /\ Len(t) = Len(s) + 1 /\ (\A i \in 1 .. Len(s) : t[i] = s[i]) /\ t[Len(s) + 1] = g
  BY AppendProperties DEF Beat
<1> HIDE DEF t
<1>2. \A i \in 1 .. Len(t) : i \in 1 .. Len(s) \/ i = Len(s) + 1
  BY <1>1
<1>3. QED
  BY <1>1, <1>2 DEF Beat, t

\* One segment more: the beat goes on from the frame in hand to the next.
LEMMA FillSegmentOne ==
  ASSUME NEW k \in Nat, NEW st, Packing(st, k), sent \in Nat
  PROVE  Packing(S!FillSegment(st), k + 1)
<1> DEFINE q == st.queue
           c == st.cur
           b == st.beat
           new == S!FillSegment(st)
<1>1. /\ b \in Seq(Segment) /\ q \in Seq(StreamFrame) /\ c \in InFrame \cup {S!None}
      /\ Beat(b, k) /\ Queued(c, q) /\ Len(q) <= Len(queue) /\ Len(q) \in Nat
      /\ Chain(SourceAt(cur, queue), b, SourceAt(c, q))
      /\ st = [beat |-> b, cur |-> c, queue |-> q]
  BY DEF Packing
<1>2. Lanes \in Nat \ {0}
  BY StreamConstants
<1>3. CASE c = S!None /\ q = <<>>
  <2> DEFINE e == S!EmptySegment
  <2>1. e \in Segment /\ ~e.valid /\ e.id <= sent
    BY DEF S!EmptySegment, Segment
  <2>2. new = [beat |-> Append(b, e), cur |-> c, queue |-> q]
    BY <1>1, <1>3 DEF S!FillSegment
  <2> HIDE DEF e, b, c, q, new
  <2>3. SourceAt(c, q) \in Cursor
    BY <1>1, ChainEnds
  <2>4. Leads(SourceAt(c, q), e, SourceAt(c, q))
    BY <2>1 DEF Leads
  <2>5. Chain(SourceAt(cur, queue), Append(b, e), SourceAt(c, q))
    BY <1>1, <2>1, <2>3, <2>4, ChainAppend
  <2>6. Beat(Append(b, e), k + 1)
    BY <1>1, <2>1, BeatAppend
  <2>7. /\ new.beat = Append(b, e) /\ new.cur = c /\ new.queue = q
        /\ new \in [beat : Seq(Segment), cur : InFrame \cup {S!None}, queue : Seq(StreamFrame)]
    BY <1>1, <2>1, <2>2
  <2>8. Packing(new, k + 1)
    BY <1>1, <2>5, <2>6, <2>7 DEF Packing
  <2>9. QED
    BY <2>8 DEF new
<1>4. CASE c # S!None \/ q # <<>>
  <2> DEFINE start == c = S!None
             f == IF start THEN [id |-> Head(q).id, len |-> Head(q).len, off |-> 0] ELSE c
             n == S!Smaller(Lanes, f.len - f.off)
             eop == f.off + n >= f.len
             g == [valid |-> TRUE, sop |-> start, eop |-> eop, id |-> f.id, len |-> f.len, off |-> f.off, n |-> n]
             c2 == IF eop THEN S!None ELSE [f EXCEPT !.off = @ + n]
             q2 == IF start THEN Tail(q) ELSE q
  <2>1. new = [beat |-> Append(b, g), cur |-> c2, queue |-> q2]
    BY <1>1, <1>4 DEF S!FillSegment
  <2>2. /\ q2 \in Seq(StreamFrame) /\ Len(q2) \in Nat /\ Len(q2) <= Len(q) /\ Len(q2) <= sent
        /\ \A i \in 1 .. Len(q2) : q2[i].id = sent - Len(q2) + i
        /\ f \in Cursor /\ f.id = sent - Len(q2) /\ (start <=> f.off = 0)
        /\ start => SourceAt(c, q) = Begin(f.id)
        /\ ~start => SourceAt(c, q) = f
    <3>1. CASE start
      <4>1. /\ q # <<>> /\ Head(q) = q[1] /\ Head(q) \in StreamFrame /\ Tail(q) \in Seq(StreamFrame)
            /\ Len(Tail(q)) = Len(q) - 1 /\ Len(q) > 0 /\ \A i \in 1 .. Len(Tail(q)) : Tail(q)[i] = q[i + 1]
        BY <1>1, <1>4, <3>1, EmptySeq, LenProperties, HeadTailProperties
      <4>2. \A i \in 1 .. Len(q) : q[i].id = sent - Len(q) + i
        BY <1>1 DEF Queued
      <4>3. f = [id |-> Head(q).id, len |-> Head(q).len, off |-> 0] /\ q2 = Tail(q) /\ Len(q) <= sent
        BY <1>1, <3>1 DEF Queued
      <4>4. f \in Cursor /\ f.off = 0 /\ f.id = Head(q).id
        BY <4>1, <4>3 DEF Cursor, StreamFrame
      <4>5. SourceAt(c, q) = Begin(sent - Len(q) + 1)
        BY <3>1 DEF SourceAt
      <4> HIDE DEF f, q2, q, c
      <4>6. f.id = sent - Len(q) + 1
        BY <1>1, <4>1, <4>2, <4>4
      <4>7. \A i \in 1 .. Len(q2) : q2[i].id = sent - Len(q2) + i
        <5> TAKE i \in 1 .. Len(q2)
        <5>1. i + 1 \in 1 .. Len(q) /\ q2[i] = q[i + 1] /\ Len(q2) = Len(q) - 1
          BY <1>1, <4>1, <4>3
        <5>2. q[i + 1].id = sent - Len(q) + (i + 1)
          BY <4>2, <5>1
        <5>3. QED
          BY <1>1, <5>1, <5>2
      <4>8. QED
        BY <1>1, <3>1, <4>1, <4>3, <4>4, <4>5, <4>6, <4>7
    <3>2. CASE ~start
      <4>1. f = c /\ q2 = q /\ c \in InFrame /\ c.id = sent - Len(q) /\ SourceAt(c, q) = c
        BY <1>1, <3>2 DEF Queued, SourceAt
      <4>2. c \in Cursor /\ c.off # 0
        BY <4>1 DEF InFrame, Cursor
      <4>3. Len(q) <= sent /\ \A i \in 1 .. Len(q) : q[i].id = sent - Len(q) + i
        BY <1>1 DEF Queued
      <4> HIDE DEF f, q2, q, c
      <4>4. QED
        BY <1>1, <3>2, <4>1, <4>2, <4>3
    <3>3. QED
      BY <3>1, <3>2
  <2>3. /\ n \in Nat /\ f.id \in Nat /\ f.len \in Nat /\ f.off \in Nat
        /\ ~eop => n = Lanes /\ f.off + n < f.len
        /\ f.off > 0 => f.off < f.len
    <3>1. f.id \in Nat /\ f.len \in Nat /\ f.off \in Nat /\ (f.off > 0 => f.off < f.len)
      BY <2>2 DEF Cursor
    <3> HIDE DEF f
    <3>2. f.len - f.off \in Nat
      BY <3>1
    <3>3. QED
      BY <1>2, <3>1, <3>2 DEF S!Smaller
  <2> DEFINE at == SourceAt(c, q)
             to == IF eop THEN Begin(f.id + 1) ELSE [id |-> f.id, off |-> f.off + n, len |-> f.len]
  <2>4. g \in Segment /\ g.id <= sent
    <3>1. eop \in BOOLEAN /\ start \in BOOLEAN
      OBVIOUS
    <3> HIDE DEF f, n, eop, start, q2
    <3>2. QED
      BY <2>2, <2>3, <3>1 DEF Segment
  <2>5. at.id = f.id /\ at.off = f.off /\ (at.off > 0 => at.len = f.len)
    <3> HIDE DEF f, q2, q, c
    <3>1. QED
      BY <2>2 DEF Begin
  <2>6. Leads(at, g, to)
    <3> HIDE DEF at, f, c, start
    <3>1. QED
      BY <2>2, <2>5 DEF Leads
  <2>7. to \in Cursor /\ SourceAt(c2, q2) = to /\ (c2 # S!None => c2 \in InFrame /\ c2.id = sent - Len(q2))
    <3>1. CASE eop
      <4>1. c2 = S!None /\ to = Begin(f.id + 1)
        BY <3>1
      <4>2. sent - Len(q2) + 1 = f.id + 1
        BY <2>2
      <4> HIDE DEF c2, to, f, q2
      <4>3. QED
        BY <2>3, <4>1, <4>2, BeginIsCursor DEF SourceAt
    <3>2. CASE ~eop
      <4>1. f \in [id : Nat, off : Nat, len : Nat]
        BY <2>2 DEF Cursor
      <4>2. c2 = [f EXCEPT !.off = f.off + n] /\ to = [id |-> f.id, off |-> f.off + n, len |-> f.len]
        BY <3>2
      <4> HIDE DEF f, n, c2, to, q2
      <4>3. c2 = to
        BY <4>1, <4>2
      <4>4. to \in InFrame /\ to.id = f.id
        BY <1>2, <2>3, <3>2, <4>2 DEF InFrame, Cursor
      <4>5. to \in Cursor /\ c2 # S!None
        BY <4>3, <4>4, NoneIsNoFrame DEF InFrame
      <4>6. QED
        BY <2>2, <4>3, <4>4, <4>5 DEF SourceAt
    <3>3. QED
      BY <3>1, <3>2
  <2> HIDE DEF to, c2, q2, g, at, f, n, eop, start
  <2>8. Chain(SourceAt(cur, queue), Append(b, g), to)
    <3> HIDE DEF b, c, q
    <3>1. QED
      BY <1>1, <2>4, <2>6, <2>7, ChainAppend DEF at
  <2>9. Beat(Append(b, g), k + 1)
    BY <1>1, <2>4, BeatAppend
  <2>10. Queued(c2, q2)
    BY <2>2, <2>7 DEF Queued
  <2>11. c2 \in InFrame \cup {S!None}
    BY <2>7
  <2> HIDE DEF b, c, q, new
  <2>12. /\ new.beat = Append(b, g) /\ new.cur = c2 /\ new.queue = q2
         /\ new \in [beat : Seq(Segment), cur : InFrame \cup {S!None}, queue : Seq(StreamFrame)]
    BY <1>1, <2>1, <2>2, <2>4, <2>11
  <2>13. Len(q2) <= Len(queue)
    <3>1. Len(queue) >= Len(q) /\ Len(q) >= Len(q2)
      BY <1>1, <2>2
    <3>2. QED
      BY <2>2, <1>1, <3>1
  <2>14. Packing(new, k + 1)
    BY <2>7, <2>8, <2>9, <2>10, <2>12, <2>13 DEF Packing
  <2>15. QED
    BY <2>14 DEF new
<1>5. QED
  BY <1>3, <1>4

PackStart == [beat |-> <<>>, cur |-> cur, queue |-> queue]
Filling(f, n) == f = [k \in 0 .. n |-> IF k = 0 THEN PackStart ELSE S!FillSegment(f[k - 1])]

LEMMA FillingExists == \E f : Filling(f, SegCount)
<1> DEFINE body(f, k) == IF k = 0 THEN PackStart ELSE S!FillSegment(f[k - 1])
           X == {j \in Nat : \E f : f = [k \in 0 .. j |-> body(f, k)]}
<1>1. 0 \in X
  <2> DEFINE f == [k \in 0 .. 0 |-> PackStart]
  <2>1. f = [k \in 0 .. 0 |-> body(f, k)]
    OBVIOUS
  <2>2. QED
    BY <2>1
<1>2. ASSUME NEW j \in X PROVE j + 1 \in X
  <2>1. j \in Nat
    OBVIOUS
  <2>2. PICK f : f = [k \in 0 .. j |-> body(f, k)]
    OBVIOUS
  <2> DEFINE g == [k \in 0 .. j + 1 |-> IF k = j + 1 THEN S!FillSegment(f[j]) ELSE f[k]]
  <2> HIDE DEF X
  <2>3. \A k \in 0 .. j + 1 : g[k] = body(g, k)
    <3> TAKE k \in 0 .. j + 1
    <3>1. CASE k = j + 1
      <4>1. g[k] = S!FillSegment(f[j]) /\ k # 0 /\ k - 1 = j
        BY <2>1, <3>1
      <4>2. g[j] = f[j]
        BY <2>1
      <4> HIDE DEF g
      <4>3. QED
        BY <3>1, <4>1, <4>2
    <3>2. CASE k # j + 1
      <4>1. k \in 0 .. j /\ g[k] = f[k]
        BY <2>1, <3>2
      <4>2. f[k] = body(f, k)
        BY <2>2, <4>1
      <4>3. k # 0 => g[k - 1] = f[k - 1]
        BY <2>1, <4>1
      <4> HIDE DEF g
      <4>4. QED
        BY <4>1, <4>2, <4>3
    <3>3. QED
      BY <3>1, <3>2
  <2>4. g = [k \in 0 .. j + 1 |-> g[k]]
    OBVIOUS
  <2> HIDE DEF g
  <2>5. g = [k \in 0 .. j + 1 |-> body(g, k)]
    BY <2>3, <2>4
  <2>6. QED
    BY <2>1, <2>5 DEF X
<1>3. X = Nat
  <2>1. X \in SUBSET Nat
    OBVIOUS
  <2> HIDE DEF X
  <2>2. QED
    BY <1>1, <1>2, <2>1, Induct
<1>4. PICK f : f = [k \in 0 .. SegCount |-> body(f, k)]
  BY <1>3, StreamConstants
<1>5. QED
  BY <1>4 DEF Filling

STypeOK ==
  /\ sent \in Nat /\ received \in Nat /\ Queued(cur, queue)
  /\ Beat(sample_obj, SegCount) /\ Beat(bus, SegCount) /\ Beat(drive_obj, SegCount) /\ Beat(pend, SegCount)
  /\ partial # S!None => /\ partial \in [id : Nat, len : Nat, got : Nat]
                         /\ partial.id = received + 1 /\ partial.got > 0 /\ partial.got < partial.len
  /\ rx \in Seq(Nat)

\* From where the sink is, the beats lead to where the source is.
Linked ==
  \E a, b, c \in Cursor :
    /\ Chain(SinkAt, sample_obj, a) /\ Chain(a, bus, b) /\ Chain(b, drive_obj, c)
    /\ Chain(c, pend, SourceAt(cur, queue))

\* Two beats can be under way when the sink takes ready back, one can after.
Bounded ==
  /\ Len(queue) <= SourceLimit + 1
  /\ Len(rx) + Len(sample_obj) <= SinkLimit + 2 * SegCount
  /\ ready => Len(rx) + Len(sample_obj) <= SinkLimit + SegCount

SInv == STypeOK /\ Linked /\ Bounded /\ framing = TRUE /\ S!WaitMeansSent

\* What _run packs goes on from where the source is.
LEMMA PackBeatPacks ==
  ASSUME STypeOK
  PROVE  Packing(S!PackBeat, SegCount)
<1>1. PICK f : Filling(f, SegCount)
  BY FillingExists
<1>2. \E f0 : Filling(f0, SegCount) /\ S!PackBeat = f0[SegCount]
  <2>1. Filling(CHOOSE f1 : Filling(f1, SegCount), SegCount)
    BY <1>1
  <2>2. S!PackBeat = (CHOOSE f1 : Filling(f1, SegCount))[SegCount]
    BY DEF S!PackBeat, Filling, PackStart
  <2>3. QED
    BY <2>1, <2>2
<1>3. PICK F : Filling(F, SegCount) /\ S!PackBeat = F[SegCount]
  BY <1>2
<1> DEFINE X == {k \in Nat : k <= SegCount => Packing(F[k], k)}
<1>4. SegCount \in Nat /\ sent \in Nat /\ SegCount \in 0 .. SegCount
  BY StreamConstants DEF STypeOK
<1>5. \A k \in 0 .. SegCount : F[k] = IF k = 0 THEN PackStart ELSE S!FillSegment(F[k - 1])
  BY <1>3 DEF Filling
<1>6. 0 \in X
  <2>1. F[0] = PackStart
    BY <1>4, <1>5
  <2>2. SourceAt(cur, queue) \in Cursor
    <3>1. CASE cur = S!None
      <4>1. sent - Len(queue) + 1 \in Nat
        BY <3>1 DEF STypeOK, Queued
      <4>2. QED
        BY <3>1, <4>1, BeginIsCursor DEF SourceAt
    <3>2. CASE cur # S!None
      BY <3>2 DEF STypeOK, Queued, InFrame, SourceAt
    <3>3. QED
      BY <3>1, <3>2
  <2>3. Chain(SourceAt(cur, queue), <<>>, SourceAt(cur, queue))
    BY <2>2, NoChain
  <2>4. Beat(<<>>, 0)
    BY DEF Beat
  <2>5. cur \in InFrame \cup {S!None} /\ queue \in Seq(StreamFrame) /\ Len(queue) \in Nat /\ Queued(cur, queue)
    BY DEF STypeOK, Queued
  <2>6. Packing(PackStart, 0)
    BY <2>3, <2>4, <2>5 DEF Packing, PackStart
  <2>7. QED
    BY <2>1, <2>6
<1>7. ASSUME NEW k \in X PROVE k + 1 \in X
  <2>1. k \in Nat
    OBVIOUS
  <2>2. SUFFICES ASSUME k + 1 <= SegCount PROVE Packing(F[k + 1], k + 1)
    BY <2>1
  <2>3. Packing(F[k], k)
    BY <1>4, <1>7, <2>1, <2>2
  <2>4. F[k + 1] = S!FillSegment(F[k])
    <3>1. k + 1 \in 0 .. SegCount /\ k + 1 # 0 /\ (k + 1) - 1 = k
      BY <1>4, <2>1, <2>2
    <3>2. QED
      BY <1>5, <3>1
  <2>5. QED
    BY <1>4, <2>1, <2>3, <2>4, FillSegmentOne
<1>8. X = Nat
  <2>1. X \in SUBSET Nat
    OBVIOUS
  <2> HIDE DEF X
  <2>2. QED
    BY <1>6, <1>7, <2>1, Induct
<1>9. SegCount \in X
  BY <1>4, <1>8
<1>10. QED
  BY <1>3, <1>4, <1>9

LEMMA StreamInit == S!Init => SInv
<1> SUFFICES ASSUME S!Init PROVE SInv
  OBVIOUS
<1>1. /\ cur = S!None /\ queue = <<>> /\ sent = 0 /\ received = 0 /\ partial = S!None /\ rx = <<>>
      /\ sample_obj = <<>> /\ bus = <<>> /\ drive_obj = <<>> /\ pend = <<>>
      /\ framing = TRUE /\ ready = FALSE
  BY DEF S!Init, S!InitSource, S!InitSink, S!NoBeat
<1>2. /\ SegCount \in Nat \ {0} /\ SourceLimit \in Nat \ {0} /\ SinkLimit \in Nat \ {0}
      /\ Len(<<>>) = 0 /\ \A E : <<>> \in Seq(E)
  BY StreamConstants
<1>3. \A n \in Nat : Beat(<<>>, n)
  BY <1>2 DEF Beat
<1>4. STypeOK
  <2>1. Queued(cur, queue)
    BY <1>1, <1>2 DEF Queued
  <2>2. QED
    BY <1>1, <1>2, <1>3, <2>1 DEF STypeOK
<1>5. SinkAt = Begin(1) /\ SourceAt(cur, queue) = Begin(1) /\ Begin(1) \in Cursor
  BY <1>1, <1>2, BeginIsCursor DEF SinkAt, SourceAt
<1>6. Linked
  BY <1>1, <1>5, NoChain DEF Linked
<1>7. Bounded
  BY <1>1, <1>2 DEF Bounded
<1>8. S!WaitMeansSent
  BY <1>1 DEF S!WaitMeansSent, S!NoBeat
<1>9. QED
  BY <1>1, <1>4, <1>6, <1>7, <1>8 DEF SInv

LEMMA SendNext ==
  ASSUME SInv, NEW s \in Senders, NEW len \in Lengths, S!Send(s, len)
  PROVE  SInv' /\ received' = received /\ (sent' = sent \/ (sent' = sent + 1 /\ sent < MaxFrames))
<1>1. UNCHANGED <<cur, pend, drive_obj, sample_obj, partial, framing, rx, received, bus, ready, raced>>
  BY DEF S!Send, S!sink
<1>2. CASE S!SourceFull
  <2>1. UNCHANGED <<queue, idle_event, sent>>
    BY <1>2 DEF S!Send
  <2>2. QED
    BY <1>1, <2>1 DEF SInv, STypeOK, Queued, Beat, Linked, SinkAt, SourceAt, Bounded, S!WaitMeansSent
<1>3. CASE ~S!SourceFull
  <2> DEFINE e == [id |-> sent + 1, len |-> len]
             q == queue
  <2>1. queue' = Append(q, e) /\ idle_event' = FALSE /\ sent' = sent + 1 /\ sent < MaxFrames
    BY <1>3 DEF S!Send
  <2>2. /\ sent \in Nat /\ q \in Seq(StreamFrame) /\ Len(q) \in Nat /\ Len(q) <= sent
        /\ \A i \in 1 .. Len(q) : q[i].id = sent - Len(q) + i
        /\ cur # S!None => cur \in InFrame /\ cur.id = sent - Len(q)
    BY DEF SInv, STypeOK, Queued
  <2>3. e \in StreamFrame /\ e.id = sent + 1
    BY <2>2, StreamConstants DEF StreamFrame
  <2> HIDE DEF e, q
  <2>4. /\ queue' \in Seq(StreamFrame) /\ Len(queue') = Len(q) + 1
        /\ (\A i \in 1 .. Len(q) : queue'[i] = q[i]) /\ queue'[Len(q) + 1] = e
    BY <2>1, <2>2, <2>3, AppendProperties
  <2>5. \A i \in 1 .. Len(queue') : queue'[i].id = sent' - Len(queue') + i
    <3> TAKE i \in 1 .. Len(queue')
    <3>1. CASE i = Len(q) + 1
      BY <2>1, <2>2, <2>3, <2>4, <3>1
    <3>2. CASE i # Len(q) + 1
      <4>1. i \in 1 .. Len(q)
        BY <2>2, <2>4, <3>2
      <4>2. q[i].id = sent - Len(q) + i /\ queue'[i] = q[i]
        BY <2>2, <2>4, <4>1
      <4>3. QED
        BY <2>1, <2>2, <2>4, <4>1, <4>2
    <3>3. QED
      BY <3>1, <3>2
  <2>6. Queued(cur, queue)'
    BY <1>1, <2>1, <2>2, <2>4, <2>5 DEF Queued
  <2>7. (\A n : (Beat(sample_obj, n) => Beat(sample_obj, n)'))
        /\ (\A n : (Beat(bus, n) => Beat(bus, n)')) /\ (\A n : (Beat(drive_obj, n) => Beat(drive_obj, n)'))
        /\ (\A n : (Beat(pend, n) => Beat(pend, n)'))
    <3>1. ASSUME NEW x, NEW n, Beat(x, n) PROVE x \in Seq(Segment) /\ Len(x) <= n /\ \A k \in 1 .. Len(x) : x[k].id <= sent'
      <4>1. x \in Seq(Segment) /\ Len(x) <= n /\ Len(x) \in Nat /\ \A k \in 1 .. Len(x) : x[k].id <= sent
        BY <3>1 DEF Beat
      <4>2. \A k \in 1 .. Len(x) : x[k].id \in Nat
        <5>1. \A k \in 1 .. Len(x) : x[k] \in Segment
          BY <4>1, ElementOfSeq
        <5>2. QED
          BY <5>1 DEF Segment
      <4>3. QED
        BY <2>1, <2>2, <4>1, <4>2
    <3>2. QED
      BY <1>1, <3>1 DEF Beat
  <2>8. STypeOK'
    <3>1. sent' \in Nat /\ received' \in Nat
      BY <1>1, <2>1, <2>2 DEF SInv, STypeOK
    <3>2. Beat(sample_obj, SegCount)' /\ Beat(bus, SegCount)' /\ Beat(drive_obj, SegCount)' /\ Beat(pend, SegCount)'
      BY <2>7 DEF SInv, STypeOK
    <3>3. QED
      BY <1>1, <2>6, <3>1, <3>2 DEF SInv, STypeOK
  <2>9. SinkAt' = SinkAt /\ SourceAt(cur, queue)' = SourceAt(cur, queue)
    <3>1. sent' - Len(queue') + 1 = sent - Len(q) + 1
      BY <2>1, <2>2, <2>4
    <3>2. QED
      BY <1>1, <3>1 DEF SinkAt, SourceAt, q
  <2>10. Linked'
    BY <1>1, <2>9 DEF SInv, Linked
  <2>11. Bounded'
    <3>1. Len(queue') <= SourceLimit + 1
      BY <1>3, <2>2, <2>4, StreamConstants DEF S!SourceFull, q
    <3>2. QED
      BY <1>1, <3>1 DEF SInv, Bounded
  <2>12. S!WaitMeansSent'
    BY <2>1 DEF S!WaitMeansSent
  <2>13. QED
    BY <1>1, <2>1, <2>8, <2>10, <2>11, <2>12 DEF SInv
<1>4. QED
  BY <1>2, <1>3

LEMMA PackNext ==
  ASSUME SInv, S!Pack
  PROVE  SInv' /\ UNCHANGED <<sent, received>>
<1> DEFINE st == S!PackBeat
<1>1. /\ cur' = st.cur /\ queue' = st.queue
      /\ \/ drive_obj = <<>> /\ drive_obj' = st.beat /\ pend' = pend
         \/ drive_obj # <<>> /\ pend' = st.beat /\ drive_obj' = drive_obj
      /\ UNCHANGED <<idle_event, sample_obj, partial, framing, rx, received, bus, ready, raced, sent>>
      /\ pend = <<>> /\ (cur # S!None \/ queue # <<>>)
  BY DEF S!Pack, S!CanPack, S!NoBeat, S!sink
<1>2. Packing(st, SegCount)
  BY PackBeatPacks DEF SInv
<1> HIDE DEF st
<1>3. STypeOK'
  BY <1>1, <1>2 DEF SInv, STypeOK, Packing, Queued, Beat
<1>4. PICK a, b, c \in Cursor :
        /\ Chain(SinkAt, sample_obj, a) /\ Chain(a, bus, b) /\ Chain(b, drive_obj, c)
        /\ Chain(c, pend, SourceAt(cur, queue))
  BY DEF SInv, Linked
<1>5. c = SourceAt(cur, queue)
  BY <1>1, <1>4, EmptyChain
<1> DEFINE d == SourceAt(st.cur, st.queue)
<1>6. Chain(c, st.beat, d) /\ d \in Cursor /\ d = SourceAt(cur, queue)'
  <2>1. Chain(c, st.beat, d) /\ d = SourceAt(cur, queue)' /\ st.beat \in Seq(Segment)
    BY <1>1, <1>2, <1>5 DEF Packing, SourceAt, Beat
  <2> HIDE DEF d
  <2>2. QED
    BY <2>1, ChainEnds
<1>7. SinkAt' = SinkAt
  BY <1>1 DEF SinkAt
<1> HIDE DEF d
<1>8. Linked'
  <2>1. CASE drive_obj = <<>> /\ drive_obj' = st.beat /\ pend' = pend
    <3>1. b = c
      BY <1>4, <2>1, EmptyChain
    <3>2. Chain(d, pend', d) /\ Chain(b, drive_obj', d)
      BY <1>1, <1>6, <2>1, <3>1, NoChain
    <3>3. QED
      BY <1>1, <1>4, <1>6, <1>7, <3>2 DEF Linked
  <2>2. CASE drive_obj # <<>> /\ pend' = st.beat /\ drive_obj' = drive_obj
    BY <1>1, <1>4, <1>6, <1>7, <2>2 DEF Linked
  <2>3. QED
    BY <1>1, <2>1, <2>2
<1>9. Bounded'
  <2>1. Len(queue) <= SourceLimit + 1 /\ Len(st.queue) <= Len(queue) /\ Len(queue) \in Nat /\ Len(st.queue) \in Nat
    BY <1>2 DEF SInv, Bounded, Packing, STypeOK, Queued
  <2>2. Len(queue') <= SourceLimit + 1
    BY <1>1, <2>1, StreamConstants
  <2>3. QED
    BY <1>1, <2>2 DEF SInv, Bounded
<1>10. S!WaitMeansSent'
  BY <1>1 DEF SInv, S!WaitMeansSent
<1>11. QED
  BY <1>1, <1>3, <1>8, <1>9, <1>10 DEF SInv

LEMMA DriveNext ==
  ASSUME SInv, S!Drive
  PROVE  SInv' /\ UNCHANGED <<sent, received>>
<1>1. /\ pend # <<>> /\ drive_obj = <<>> /\ drive_obj' = pend /\ pend' = <<>>
      /\ UNCHANGED <<queue, cur, idle_event, sample_obj, partial, framing, rx, received, bus, ready, raced, sent>>
  BY DEF S!Drive, S!CanDrive, S!NoBeat, S!sink
<1>2. STypeOK'
  <2>1. Beat(<<>>, SegCount)
    BY StreamConstants DEF Beat
  <2>2. QED
    BY <1>1, <2>1 DEF SInv, STypeOK, Queued, Beat
<1>3. Linked'
  <2>1. PICK a, b, c \in Cursor :
          /\ Chain(SinkAt, sample_obj, a) /\ Chain(a, bus, b) /\ Chain(b, drive_obj, c)
          /\ Chain(c, pend, SourceAt(cur, queue))
    BY DEF SInv, Linked
  <2> DEFINE d == SourceAt(cur, queue)
  <2>2. b = c /\ d \in Cursor /\ SinkAt' = SinkAt /\ SourceAt(cur, queue)' = d
    <3>1. pend \in Seq(Segment)
      BY DEF SInv, STypeOK, Beat
    <3>2. b = c /\ d \in Cursor
      BY <1>1, <2>1, <3>1, EmptyChain, ChainEnds
    <3>3. QED
      BY <1>1, <3>2 DEF SinkAt, SourceAt
  <2> HIDE DEF d
  <2>3. Chain(b, pend, d) /\ Chain(d, <<>>, d)
    BY <2>1, <2>2, NoChain DEF d
  <2>4. QED
    BY <1>1, <2>1, <2>2, <2>3 DEF Linked
<1>4. Bounded' /\ S!WaitMeansSent'
  BY <1>1 DEF SInv, Bounded, S!WaitMeansSent, S!NoBeat
<1>5. QED
  BY <1>1, <1>2, <1>3, <1>4 DEF SInv

\* What becomes of the sink when it takes segment g, and g leads to m.
Moved(st, g, m) ==
  /\ st.framing = TRUE
  /\ st.partial # S!None => /\ st.partial \in [id : Nat, len : Nat, got : Nat]
                            /\ st.partial.id = st.received + 1
                            /\ st.partial.got > 0 /\ st.partial.got < st.partial.len
  /\ m = IF st.partial = S!None THEN Begin(st.received + 1)
         ELSE [id |-> st.partial.id, off |-> st.partial.got, len |-> st.partial.len]
  /\ \/ st.rx = rx /\ st.received = received
     \/ /\ st.rx = Append(rx, received + 1) /\ st.received = received + 1 /\ g.id = received + 1

\* The sink takes a segment: its frame goes on, ends, or begins.
LEMMA TakeSegmentOne ==
  ASSUME NEW g \in Segment, NEW m, Leads(SinkAt, g, m), framing = TRUE,
         received \in Nat, rx \in Seq(Nat),
         partial # S!None => /\ partial \in [id : Nat, len : Nat, got : Nat]
                             /\ partial.id = received + 1 /\ partial.got > 0 /\ partial.got < partial.len,
         NEW st, st = S!TakeSegment([framing |-> framing, partial |-> partial, rx |-> rx, received |-> received], g)
  PROVE  Moved(st, g, m)
<1> DEFINE old == [framing |-> framing, partial |-> partial, rx |-> rx, received |-> received]
<1>1. CASE ~g.valid
  <2>1. st = old
    BY <1>1 DEF S!TakeSegment
  <2>2. m = SinkAt
    BY <1>1 DEF Leads
  <2>3. old.framing = framing /\ old.partial = partial /\ old.rx = rx /\ old.received = received
    OBVIOUS
  <2> HIDE DEF old
  <2>4. QED
    BY <2>1, <2>2, <2>3 DEF SinkAt, Moved
<1>2. CASE g.valid
  <2> DEFINE c == SinkAt
             f == IF g.sop THEN [id |-> g.id, len |-> g.len, got |-> 0] ELSE partial
             n == S!Smaller(Lanes, f.len - f.got)
             ok == /\ g.sop <=> partial = S!None
                   /\ g.eop => f.got + n = f.len
                   /\ g.id = f.id /\ g.off = f.got /\ g.n = n
  <2>1. /\ g.id = c.id /\ g.off = c.off
        /\ c.off > 0 => g.len = c.len
        /\ g.sop <=> c.off = 0
        /\ g.n = S!Smaller(Lanes, g.len - g.off)
        /\ g.eop <=> g.off + g.n >= g.len
        /\ m = IF g.eop THEN Begin(g.id + 1) ELSE [id |-> g.id, off |-> g.off + g.n, len |-> g.len]
    BY <1>2 DEF Leads
  <2>2. /\ c.id = received + 1 /\ (c.off = 0 <=> partial = S!None)
        /\ partial # S!None => c.off = partial.got /\ c.len = partial.len /\ c.id = partial.id
    <3>1. CASE partial = S!None
      BY <3>1 DEF SinkAt, Begin
    <3>2. CASE partial # S!None
      BY <3>2 DEF SinkAt
    <3>3. QED
      BY <3>1, <3>2
  <2>3. /\ g.id \in Nat /\ g.len \in Nat /\ g.off \in Nat /\ g.n \in Nat /\ g.valid \in BOOLEAN
        /\ g.sop \in BOOLEAN /\ g.eop \in BOOLEAN /\ Lanes \in Nat \ {0}
    BY StreamConstants DEF Segment
  <2> HIDE DEF c
  <2>4. /\ f \in [id : Nat, len : Nat, got : Nat] /\ f.id = g.id /\ f.len = g.len /\ f.got = g.off
        /\ g.sop <=> partial = S!None
        /\ g.off <= g.len
    <3>1. CASE partial = S!None
      <4>1. g.sop /\ g.off = 0
        BY <2>1, <2>2, <3>1
      <4>2. f = [id |-> g.id, len |-> g.len, got |-> 0]
        BY <4>1
      <4> HIDE DEF f
      <4>3. QED
        BY <2>3, <3>1, <4>1, <4>2
    <3>2. CASE partial # S!None
      <4>1. ~g.sop /\ f = partial /\ g.off = partial.got /\ g.len = partial.len /\ g.id = partial.id
        BY <2>1, <2>2, <3>2
      <4> HIDE DEF f
      <4>2. QED
        BY <2>3, <3>2, <4>1
    <3>3. QED
      BY <3>1, <3>2
  <2>5. st = [framing |-> ok,
              partial |-> IF g.eop THEN S!None ELSE [f EXCEPT !.got = @ + n],
              rx |-> IF ok /\ g.eop THEN Append(rx, f.id) ELSE rx,
              received |-> IF ok /\ g.eop THEN f.id ELSE received]
    <3>1. ~(~g.sop /\ partial = S!None)
      BY <2>4
    <3>2. old.framing = framing /\ old.partial = partial /\ old.rx = rx /\ old.received = received
      OBVIOUS
    <3>3. st = S!TakeSegment(old, g)
      OBVIOUS
    <3> HIDE DEF old
    <3>4. QED
      BY <1>2, <3>1, <3>2, <3>3 DEF S!TakeSegment
  <2>6. n = g.n /\ ok = TRUE
    <3>1. n = g.n
      BY <2>1, <2>4
    <3> HIDE DEF f, n
    <3>2. g.eop => f.got + n = f.len
      <4>1. f.got = g.off /\ f.len = g.len /\ n = S!Smaller(Lanes, g.len - g.off)
        BY <2>1, <2>4, <3>1
      <4>2. n <= g.len - g.off
        BY <2>3, <2>4, <4>1 DEF S!Smaller
      <4>3. g.eop => g.off + g.n >= g.len
        BY <2>1
      <4>4. g.eop => g.off + n = g.len
        BY ONLY <2>3, <3>1, <4>2, <4>3
      <4>5. QED
        BY <4>1, <4>4
    <3>3. ok
      BY <2>4, <3>1, <3>2
    <3>4. ok \in BOOLEAN
      OBVIOUS
    <3>5. QED
      BY <3>1, <3>3, <3>4
  <2> HIDE DEF ok
  <2>7. /\ st.framing = ok
        /\ st.partial = IF g.eop THEN S!None ELSE [f EXCEPT !.got = f.got + n]
        /\ st.rx = IF g.eop THEN Append(rx, g.id) ELSE rx
        /\ st.received = IF g.eop THEN g.id ELSE received
    <3> HIDE DEF n, f
    <3>1. st.framing = ok
      BY ONLY <2>5
    <3>2. st.partial = IF g.eop THEN S!None ELSE [f EXCEPT !.got = f.got + n]
      BY ONLY <2>5
    <3>3. st.rx = IF ok /\ g.eop THEN Append(rx, f.id) ELSE rx
      BY ONLY <2>5
    <3>4. st.received = IF ok /\ g.eop THEN f.id ELSE received
      BY ONLY <2>5
    <3>5. QED
      BY ONLY <2>4, <2>6, <3>1, <3>2, <3>3, <3>4
  <2>8. CASE g.eop
    <3>1. st.partial = S!None /\ m = Begin(g.id + 1) /\ st.received = g.id /\ st.rx = Append(rx, g.id)
      BY <2>1, <2>7, <2>8
    <3>2. QED
      BY <2>1, <2>2, <2>6, <2>7, <3>1 DEF Moved
  <2>9. CASE ~g.eop
    <3>1. /\ st.partial = [f EXCEPT !.got = f.got + n] /\ st.received = received /\ st.rx = rx
          /\ m = [id |-> g.id, off |-> g.off + g.n, len |-> g.len]
      BY <2>1, <2>7, <2>9
    <3> HIDE DEF f, n
    <3>2. /\ st.partial \in [id : Nat, len : Nat, got : Nat] /\ st.partial.id = g.id /\ st.partial.len = g.len
          /\ st.partial.got = g.off + g.n
      BY <2>3, <2>4, <2>6, <3>1
    <3>3. g.off + g.n > 0 /\ g.off + g.n < g.len
      <4>1. g.off + g.n < g.len
        BY <2>1, <2>3, <2>9
      <4>2. g.n # 0
        BY <2>1, <2>3, <2>4, <4>1 DEF S!Smaller
      <4>3. QED
        BY <2>3, <4>1, <4>2
    <3>4. st.partial # S!None
      <4>1. DOMAIN st.partial = {"id", "len", "got"} /\ DOMAIN S!None = {"none"}
        BY <3>2 DEF S!None
      <4>2. QED
        BY <4>1
    <3>5. m = [id |-> st.partial.id, off |-> st.partial.got, len |-> st.partial.len]
      BY <3>1, <3>2
    <3>6. g.id = received + 1 /\ st.framing = TRUE
      BY <2>1, <2>2, <2>6, <2>7
    <3>7. st.partial.id = st.received + 1 /\ st.partial.got > 0 /\ st.partial.got < st.partial.len
      BY ONLY <3>1, <3>2, <3>3, <3>6
    <3>8. st.rx = rx /\ st.received = received
      BY ONLY <3>1
    <3>9. QED
      BY ONLY <3>2, <3>4, <3>5, <3>6, <3>7, <3>8 DEF Moved
  <2>10. QED
    BY <2>8, <2>9
<1>3. QED
  BY <1>1, <1>2

LEMMA UnpackNext ==
  ASSUME SInv, S!Unpack
  PROVE  SInv' /\ sent' = sent /\ (received' = received \/ (received' = received + 1 /\ received < sent))
<1> DEFINE g == Head(sample_obj)
           st == S!TakeSegment([framing |-> framing, partial |-> partial, rx |-> rx, received |-> received], g)
<1>1. /\ sample_obj # <<>> /\ sample_obj' = Tail(sample_obj)
      /\ framing' = st.framing /\ partial' = st.partial /\ rx' = st.rx /\ received' = st.received
      /\ UNCHANGED <<queue, cur, pend, drive_obj, idle_event, bus, ready, raced, sent>>
  BY DEF S!Unpack, S!CanUnpack, S!NoBeat, S!source
<1>2. /\ sample_obj \in Seq(Segment) /\ Len(sample_obj) \in Nat /\ Len(sample_obj) <= SegCount
      /\ \A k \in 1 .. Len(sample_obj) : sample_obj[k].id <= sent
      /\ received \in Nat /\ sent \in Nat /\ rx \in Seq(Nat) /\ framing = TRUE /\ SegCount \in Nat
  BY StreamConstants DEF SInv, STypeOK, Beat
<1>3. /\ g \in Segment /\ g.id <= sent /\ g = sample_obj[1] /\ Tail(sample_obj) \in Seq(Segment)
      /\ Len(Tail(sample_obj)) = Len(sample_obj) - 1
      /\ \A k \in 1 .. Len(Tail(sample_obj)) : Tail(sample_obj)[k] = sample_obj[k + 1]
  BY <1>1, <1>2, EmptySeq, LenProperties, HeadTailProperties
<1>4. PICK a, b, c \in Cursor :
        /\ Chain(SinkAt, sample_obj, a) /\ Chain(a, bus, b) /\ Chain(b, drive_obj, c)
        /\ Chain(c, pend, SourceAt(cur, queue))
  BY DEF SInv, Linked
<1>5. PICK m \in Cursor : Leads(SinkAt, g, m) /\ Chain(m, Tail(sample_obj), a)
  BY <1>1, <1>2, <1>4, ChainTail
<1>6. partial # S!None => /\ partial \in [id : Nat, len : Nat, got : Nat]
                          /\ partial.id = received + 1 /\ partial.got > 0 /\ partial.got < partial.len
  BY DEF SInv, STypeOK
<1> HIDE DEF g
<1>7. Moved(st, g, m)
  BY <1>2, <1>3, <1>5, <1>6, TakeSegmentOne
<1> HIDE DEF st
<1>7a. /\ st.framing = TRUE
       /\ st.partial # S!None => /\ st.partial \in [id : Nat, len : Nat, got : Nat]
                                 /\ st.partial.id = st.received + 1
                                 /\ st.partial.got > 0 /\ st.partial.got < st.partial.len
       /\ m = IF st.partial = S!None THEN Begin(st.received + 1)
              ELSE [id |-> st.partial.id, off |-> st.partial.got, len |-> st.partial.len]
       /\ \/ st.rx = rx /\ st.received = received
          \/ /\ st.rx = Append(rx, received + 1) /\ st.received = received + 1 /\ g.id = received + 1
  BY <1>7 DEF Moved
<1>8. received' = received \/ (received' = received + 1 /\ received < sent)
  BY <1>1, <1>2, <1>3, <1>7a
<1>9. /\ rx' \in Seq(Nat) /\ Len(rx) \in Nat /\ Len(rx') \in Nat /\ Len(rx') <= Len(rx) + 1 /\ received' \in Nat
  <2>1. Append(rx, received + 1) \in Seq(Nat) /\ Len(Append(rx, received + 1)) = Len(rx) + 1 /\ Len(rx) \in Nat
    BY <1>2, AppendProperties
  <2>2. CASE st.rx = rx /\ st.received = received
    <3>1. rx' = rx /\ received' = received
      BY <1>1, <2>2
    <3>2. QED
      BY <1>2, <2>1, <3>1
  <2>3. CASE st.rx = Append(rx, received + 1) /\ st.received = received + 1
    <3>1. rx' = Append(rx, received + 1) /\ received' = received + 1
      BY <1>1, <2>3
    <3>2. QED
      BY <1>2, <2>1, <3>1
  <2>4. QED
    BY <1>7a, <2>2, <2>3
<1>10. Beat(sample_obj, SegCount)'
  <2>1. \A k \in 1 .. Len(Tail(sample_obj)) : Tail(sample_obj)[k].id <= sent
    <3> TAKE k \in 1 .. Len(Tail(sample_obj))
    <3>1. k + 1 \in 1 .. Len(sample_obj) /\ Tail(sample_obj)[k] = sample_obj[k + 1]
      BY <1>2, <1>3
    <3>2. QED
      BY <1>2, <3>1
  <2>2. Len(Tail(sample_obj)) <= SegCount
    BY <1>2, <1>3
  <2>3. QED
    BY <1>1, <1>3, <2>1, <2>2 DEF Beat
<1>11. STypeOK'
  <2>1. (partial # S!None => /\ partial \in [id : Nat, len : Nat, got : Nat]
                             /\ partial.id = received + 1 /\ partial.got > 0 /\ partial.got < partial.len)'
    BY <1>1, <1>7a
  <2>2. Queued(cur, queue)' /\ Beat(bus, SegCount)' /\ Beat(drive_obj, SegCount)' /\ Beat(pend, SegCount)'
    BY <1>1 DEF SInv, STypeOK, Queued, Beat
  <2>3. QED
    BY <1>1, <1>2, <1>9, <1>10, <2>1, <2>2 DEF STypeOK
<1>12. Linked'
  <2>1. m = SinkAt' /\ SourceAt(cur, queue)' = SourceAt(cur, queue)
    BY <1>1, <1>7a DEF SinkAt, SourceAt
  <2>2. QED
    BY <1>1, <1>4, <1>5, <2>1 DEF Linked
<1>13. Bounded'
  <2>1. /\ Len(queue') <= SourceLimit + 1
        /\ Len(rx) + Len(sample_obj) <= SinkLimit + 2 * SegCount
        /\ ready' => Len(rx) + Len(sample_obj) <= SinkLimit + SegCount
    BY <1>1 DEF SInv, Bounded
  <2>2. Len(rx') + Len(sample_obj') <= Len(rx) + Len(sample_obj) /\ Len(rx') + Len(sample_obj') \in Nat
    BY <1>1, <1>2, <1>3, <1>9
  <2>3. SinkLimit \in Nat /\ SinkLimit + 2 * SegCount \in Nat
    BY <1>2, StreamConstants
  <2>4. QED
    BY <1>2, <1>9, <2>1, <2>2, <2>3 DEF Bounded
<1>14. S!WaitMeansSent'
  BY <1>1 DEF SInv, S!WaitMeansSent
<1>15. QED
  BY <1>1, <1>7a, <1>8, <1>11, <1>12, <1>13, <1>14 DEF SInv

LEMMA RecvNext ==
  ASSUME SInv, S!Recv
  PROVE  SInv' /\ UNCHANGED <<sent, received>>
<1>1. /\ rx # <<>> /\ rx' = Tail(rx)
      /\ UNCHANGED <<queue, cur, pend, drive_obj, idle_event, sample_obj, partial, framing, received, bus, ready, raced, sent>>
  BY DEF S!Recv, S!source
<1>2. rx' \in Seq(Nat) /\ Len(rx) \in Nat /\ Len(rx') = Len(rx) - 1 /\ Len(sample_obj) \in Nat
  BY <1>1, HeadTailProperties DEF SInv, STypeOK, Beat
<1>3. STypeOK'
  BY <1>1, <1>2 DEF SInv, STypeOK, Queued, Beat
<1>4. Linked'
  BY <1>1 DEF SInv, Linked, SinkAt, SourceAt
<1>5. Bounded'
  BY <1>1, <1>2, StreamConstants DEF SInv, Bounded
<1>6. S!WaitMeansSent'
  BY <1>1 DEF SInv, S!WaitMeansSent
<1>7. QED
  BY <1>1, <1>3, <1>4, <1>5, <1>6 DEF SInv

LEMMA EdgeNext ==
  ASSUME SInv, NEW psrc \in BOOLEAN, NEW psink \in BOOLEAN, S!Edge(psrc, psink)
  PROVE  SInv' /\ UNCHANGED <<sent, received>>
<1>1. /\ sample_obj = <<>> /\ ~(pend # <<>> /\ drive_obj = <<>>)
      /\ (pend = <<>> /\ (cur # S!None \/ queue # <<>>)) => cur = S!None
      /\ raced' = (raced \/ (pend = <<>> /\ (cur # S!None \/ queue # <<>>)))
      /\ UNCHANGED <<queue, cur, pend, partial, framing, rx, received, sent>>
  BY DEF S!Edge, S!CanUnpack, S!CanDrive, S!CanPack, S!NoBeat
<1>2. /\ sample_obj' = (IF ready /\ bus # <<>> THEN bus ELSE sample_obj)
      /\ ready' => ~S!SinkFull
  BY DEF S!Edge, S!SinkEdge, S!NoBeat
<1>3. \/ /\ ready \/ bus = <<>>
         /\ drive_obj # <<>> /\ bus' = drive_obj /\ drive_obj' = <<>> /\ idle_event' = idle_event
      \/ /\ ready \/ bus = <<>>
         /\ bus' = <<>> /\ idle_event' = (idle_event \/ drive_obj = <<>>) /\ drive_obj' = drive_obj
      \/ /\ ~ready /\ bus # <<>>
         /\ bus' = bus /\ drive_obj' = drive_obj /\ idle_event' = idle_event
  BY DEF S!Edge, S!SourceEdge, S!NoBeat
<1>4. /\ \A n \in Nat : Beat(<<>>, n)
      /\ Len(<<>>) = 0 /\ SegCount \in Nat /\ SinkLimit \in Nat /\ Len(rx) \in Nat
      /\ Beat(bus, SegCount) /\ Len(bus) \in Nat /\ Len(bus) <= SegCount
      /\ bus \in Seq(Segment) /\ drive_obj \in Seq(Segment)
  BY StreamConstants DEF SInv, STypeOK, Beat
<1>5. STypeOK'
  <2>1. Beat(sample_obj, SegCount)' /\ Beat(bus, SegCount)' /\ Beat(drive_obj, SegCount)'
    BY <1>1, <1>2, <1>3, <1>4 DEF SInv, STypeOK, Beat
  <2>2. Queued(cur, queue)' /\ Beat(pend, SegCount)'
    BY <1>1 DEF SInv, STypeOK, Queued, Beat
  <2>3. QED
    BY <1>1, <2>1, <2>2 DEF SInv, STypeOK
<1>6. PICK a, b, c \in Cursor :
        /\ Chain(SinkAt, sample_obj, a) /\ Chain(a, bus, b) /\ Chain(b, drive_obj, c)
        /\ Chain(c, pend, SourceAt(cur, queue))
  BY DEF SInv, Linked
<1>7. SinkAt' = SinkAt /\ SourceAt(cur, queue)' = SourceAt(cur, queue) /\ a = SinkAt
  BY <1>1, <1>6, EmptyChain DEF SinkAt, SourceAt
\* The beat on the bus is taken by the sink when the source may replace it.
<1>8. \E x \in Cursor :
        /\ Chain(a, sample_obj', x) /\ (bus' = bus /\ ~ready => x = a)
        /\ (ready \/ bus = <<>>) => x = b
  <2>1. CASE ready /\ bus # <<>>
    BY <1>2, <1>6, <2>1
  <2>2. CASE bus = <<>>
    <3>1. a = b /\ sample_obj' = <<>>
      BY <1>1, <1>2, <1>6, <2>2, EmptyChain
    <3>2. QED
      BY <1>6, <3>1, NoChain
  <2>3. CASE ~ready /\ bus # <<>>
    BY <1>1, <1>2, <1>6, <2>3, NoChain
  <2>4. QED
    BY <2>1, <2>2, <2>3
<1>9. Linked'
  <2>1. PICK x \in Cursor :
        /\ Chain(a, sample_obj', x) /\ (bus' = bus /\ ~ready => x = a)
        /\ (ready \/ bus = <<>>) => x = b
    BY <1>8
  <2>2. Chain(SinkAt', sample_obj', x) /\ Chain(c, pend', SourceAt(cur, queue)')
    BY <1>1, <1>6, <1>7, <2>1
  <2>3. CASE (ready \/ bus = <<>>) /\ bus' = drive_obj /\ drive_obj' = <<>>
    <3>1. Chain(x, bus', c) /\ Chain(c, drive_obj', c)
      BY <1>6, <2>1, <2>3, NoChain
    <3>2. QED
      BY <2>2, <3>1 DEF Linked
  <2>4. CASE (ready \/ bus = <<>>) /\ bus' = <<>> /\ drive_obj' = drive_obj
    <3>1. Chain(x, bus', b) /\ Chain(b, drive_obj', c)
      BY <1>6, <2>1, <2>4, NoChain
    <3>2. QED
      BY <2>2, <3>1 DEF Linked
  <2>5. CASE ~ready /\ bus' = bus /\ drive_obj' = drive_obj
    <3>1. Chain(x, bus', b) /\ Chain(b, drive_obj', c)
      BY <1>6, <2>1, <2>5
    <3>2. QED
      BY <2>2, <3>1 DEF Linked
  <2>6. QED
    BY <1>3, <2>3, <2>4, <2>5
<1>10. Bounded'
  <2>1. /\ Len(queue') <= SourceLimit + 1
        /\ Len(rx) <= SinkLimit + 2 * SegCount
        /\ ready => Len(rx) <= SinkLimit + SegCount
    BY <1>1, <1>4 DEF SInv, Bounded
  <2>2. /\ sample_obj' = <<>> \/ (ready /\ sample_obj' = bus)
        /\ ready' => Len(rx) <= SinkLimit
    <3>1. ready' => ~(Len(rx) > SinkLimit)
      BY <1>2 DEF S!SinkFull
    <3>2. ready' => Len(rx) <= SinkLimit
      BY <1>4, <3>1
    <3>3. QED
      BY <1>1, <1>2, <3>2
  <2>3. Len(rx') + Len(sample_obj') <= SinkLimit + 2 * SegCount
    BY <1>1, <1>4, <2>1, <2>2
  <2>4. ready' => Len(rx') + Len(sample_obj') <= SinkLimit + SegCount
    BY <1>1, <1>4, <2>1, <2>2
  <2>5. QED
    BY <2>1, <2>3, <2>4 DEF Bounded
<1>11. S!WaitMeansSent'
  <2>1. SUFFICES ASSUME idle_event', ~raced' PROVE queue' = <<>> /\ cur' = S!None /\ pend' = <<>> /\ drive_obj' = <<>> /\ bus' = <<>>
    BY DEF S!WaitMeansSent, S!NoBeat
  <2>2. ~raced /\ ~(pend = <<>> /\ (cur # S!None \/ queue # <<>>))
    BY <1>1, <2>1
  <2>3. idle_event => queue = <<>> /\ cur = S!None /\ pend = <<>> /\ drive_obj = <<>> /\ bus = <<>>
    BY <2>2 DEF SInv, S!WaitMeansSent, S!NoBeat
  <2>4. CASE idle_event
    BY <1>1, <1>3, <2>3, <2>4
  <2>5. CASE ~idle_event
    BY <1>1, <1>3, <2>1, <2>2, <2>5
  <2>6. QED
    BY <2>4, <2>5
<1>12. QED
  BY <1>1, <1>5, <1>9, <1>10, <1>11 DEF SInv

\* Every step of the stream keeps the invariant and sends or delivers at most
\* one frame.
LEMMA StreamNext ==
  ASSUME SInv, [S!Next]_(S!vars)
  PROVE  /\ SInv'
         /\ \/ UNCHANGED <<sent, received>>
            \/ sent' = sent + 1 /\ sent < MaxFrames /\ received' = received
            \/ received' = received + 1 /\ received < sent /\ sent' = sent
<1>1. ASSUME NEW s \in Senders, NEW len \in Lengths, S!Send(s, len)
      PROVE  SInv' /\ received' = received /\ (sent' = sent \/ (sent' = sent + 1 /\ sent < MaxFrames))
  BY <1>1, SendNext
<1>2. ASSUME NEW p \in BOOLEAN, NEW q \in BOOLEAN, S!Edge(p, q)
      PROVE  SInv' /\ UNCHANGED <<sent, received>>
  BY <1>2, EdgeNext
<1>3. CASE UNCHANGED S!vars
  BY <1>3 DEF S!vars, S!source, S!sink, SInv, STypeOK, Queued, Beat, Linked, SinkAt, SourceAt, Bounded, S!WaitMeansSent
<1>4. CASE S!Next
  BY <1>1, <1>2, <1>4, PackNext, DriveNext, UnpackNext, RecvNext DEF S!Next
<1>5. QED
  BY <1>3, <1>4

\* Whatever the frames, the beats' width, the pauses and the order in which the
\* coroutines of an edge run: no framing assertion of the sink fails, each
\* queue exceeds its limit by no more than what was under way, and wait() of
\* the source returns when all has left, unless a frame was sent on the edge.
THEOREM StreamStaysWhole == S!Spec => []StreamKeepsFrames
<1>1. S!Init => SInv
  BY StreamInit
<1>2. SInv /\ [S!Next]_(S!vars) => SInv'
  BY StreamNext
<1>3. SInv => StreamKeepsFrames
  <2> SUFFICES ASSUME SInv PROVE StreamKeepsFrames
    OBVIOUS
  <2>1. S!FramingHolds /\ S!WaitMeansSent
    BY DEF SInv, S!FramingHolds
  <2>2. S!QueueBounds
    <3>1. Len(sample_obj) \in Nat /\ Len(rx) \in Nat /\ SinkLimit \in Nat /\ SegCount \in Nat
      BY StreamConstants DEF SInv, STypeOK, Beat
    <3>2. Len(queue) <= SourceLimit + 1 /\ Len(rx) + Len(sample_obj) <= SinkLimit + 2 * SegCount
      BY DEF SInv, Bounded
    <3>3. QED
      BY <3>1, <3>2 DEF S!QueueBounds
  <2>3. QED
    BY <2>1, <2>2 DEF StreamKeepsFrames, S!StreamKeepsFrames
<1>4. QED
  BY <1>1, <1>2, <1>3, PTL DEF S!Spec

\* Every step of the stream is a step of the ordered channel or none: frames
\* come out once each and in the order they were sent.
THEOREM StreamDeliversInOrder == S!Spec => StreamIsOrdered
<1>1. S!Init => SInv /\ S!Channel!ChInit
  <2> SUFFICES ASSUME S!Init PROVE SInv /\ S!Channel!ChInit
    OBVIOUS
  <2>1. sent = 0 /\ received = 0
    BY DEF S!Init
  <2>2. QED
    BY <2>1, StreamInit DEF S!Channel!ChInit
<1>2. SInv /\ [S!Next]_(S!vars) => SInv' /\ [S!Channel!ChNext]_(S!Channel!chvars)
  <2> SUFFICES ASSUME SInv, [S!Next]_(S!vars) PROVE SInv' /\ [S!Channel!ChNext]_(S!Channel!chvars)
    OBVIOUS
  <2>1. sent \in Nat /\ received \in Nat /\ MaxFrames \in Nat
    BY StreamConstants DEF SInv, STypeOK
  <2>2. CASE UNCHANGED <<sent, received>>
    BY <2>2, StreamNext DEF S!Channel!chvars
  <2>3. CASE sent' = sent + 1 /\ sent < MaxFrames /\ received' = received
    <3>1. S!Channel!Send(0)
      BY <2>1, <2>3 DEF S!Channel!Send
    <3>2. QED
      BY <3>1, StreamNext DEF S!Channel!ChNext
  <2>4. CASE received' = received + 1 /\ received < sent /\ sent' = sent
    <3>1. S!Channel!Receive(0)
      BY <2>1, <2>4 DEF S!Channel!Receive
    <3>2. QED
      BY <3>1, StreamNext DEF S!Channel!ChNext
  <2>5. QED
    BY <2>2, <2>3, <2>4, StreamNext
<1>3. QED
  BY <1>1, <1>2, PTL DEF S!Spec, StreamIsOrdered, S!StreamIsOrdered
=============================================================================
