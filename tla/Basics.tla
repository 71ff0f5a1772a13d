-------------------------------- MODULE Basics --------------------------------
(***************************************************************************)
(* Facts about numbers and sequences that the proofs about several         *)
(* components rest on.  The first of them stands in for induction.         *)
(***************************************************************************)
EXTENDS Integers, Sequences, SequencesExt, FiniteSetsExt, FiniteSetTheorems,
        SequenceTheorems, WellFoundedInduction, TLAPS

\* Every inhabited set of numbers has a least one.
LEMMA Least ==
    ASSUME NEW S \in SUBSET Nat, S # {}
    PROVE  \E m \in S : \A n \in S : m <= n
<1> DEFINE Below == {p \in Nat \X Nat : p[1] < p[2]}
<1>1. IsWellFoundedOn(Below, Nat)
    BY NatLessThanWellFounded DEF OpToRel
<1>2. PICK x \in S : \A y \in S : <<y, x>> \notin Below
    <2> HIDE DEF Below
    <2> QED
        BY <1>1, WFMin
<1>3. \A y \in S : ~ (y < x)
    BY <1>2
<1> QED
    BY <1>3

LEMMA MinIsLeast ==
    ASSUME NEW S \in SUBSET Nat, S # {}
    PROVE  Min(S) \in S /\ \A n \in S : Min(S) <= n
BY Least DEF Min

\* Every inhabited set of numbers with a bound has a greatest one.
LEMMA MaxIsGreatest ==
    ASSUME NEW k \in Nat, NEW S \in SUBSET (0..k), S # {}
    PROVE  Max(S) \in S /\ \A n \in S : Max(S) >= n
<1> DEFINE T == {k - n : n \in S}
<1>1. T \in SUBSET Nat /\ T # {}
    <2>1. \A n \in S : k - n \in Nat
        OBVIOUS
    <2>2. \A t \in T : t \in Nat
        BY <2>1
    <2>3. PICK n \in S : TRUE
        OBVIOUS
    <2>4. k - n \in T
        BY <2>3
    <2> QED
        BY <2>2, <2>4
<1>2. PICK t \in T : \A u \in T : t <= u
    <2> HIDE DEF T
    <2> QED
        BY <1>1, Least
<1>3. PICK m \in S : t = k - m
    OBVIOUS
<1>4. \A n \in S : m >= n
    <2> TAKE n \in S
    <2>1. k - m <= k - n
        BY <1>2, <1>3
    <2> QED
        BY <2>1
<1> QED
    BY <1>4 DEF Max

\* Induction from a up to b, and from b down to a, on a set of numbers.
LEMMA Upwards ==
    ASSUME NEW a \in Nat, NEW b \in Nat, NEW S, a \in S,
           \A i \in a..(b - 1) : i \in S => i + 1 \in S
    PROVE  \A i \in a..b : i \in S
<1> DEFINE Bad == {i \in a..b : i \notin S}
<1> SUFFICES ASSUME Bad # {} PROVE FALSE
    OBVIOUS
<1>1. PICK n \in Bad : \A k \in Bad : n <= k
    <2>1. Bad \in SUBSET Nat
        OBVIOUS
    <2> HIDE DEF Bad
    <2> QED
        BY <2>1, Least
<1>2. n \in a..b /\ n \notin S /\ n # a
    BY <1>1
<1>3. n - 1 \in a..(b - 1) /\ n - 1 \in a..b /\ (n - 1) + 1 = n /\ ~(n <= n - 1)
    BY <1>2
<1>4. n - 1 \in S
    BY <1>1, <1>3
<1> QED
    BY <1>2, <1>3, <1>4

LEMMA Downwards ==
    ASSUME NEW a \in Nat, NEW b \in Nat, NEW S,
           \A i \in a..b : (\A j \in (i + 1)..b : j \in S) => i \in S
    PROVE  \A i \in a..b : i \in S
<1> DEFINE Bad == {i \in a..b : i \notin S}
<1> SUFFICES ASSUME Bad # {} PROVE FALSE
    OBVIOUS
<1>1. PICK n \in Bad : \A k \in Bad : n >= k
    <2>1. Bad \in SUBSET (0..b)
        OBVIOUS
    <2> HIDE DEF Bad
    <2>2. Max(Bad) \in Bad /\ \A k \in Bad : Max(Bad) >= k
        BY <2>1, MaxIsGreatest
    <2> QED
        BY <2>2
<1>2. n \in a..b /\ n \notin S
    BY <1>1
<1>3. \A j \in (n + 1)..b : j \in S
    <2> TAKE j \in (n + 1)..b
    <2>1. j \in a..b /\ ~(n >= j)
        BY <1>2
    <2> QED
        BY <1>1, <2>1
<1> QED
    BY <1>2, <1>3

-----------------------------------------------------------------------------
(* Flattening. *)

\* The function by which FlattenSeq is defined exists.
LEMMA FlattenExists ==
    ASSUME NEW N \in Nat, NEW seqs
    PROVE  \E f : f = [i \in 1..N |-> IF i = 1 THEN seqs[i] ELSE f[i - 1] \o seqs[i]]
<1> DEFINE Defined(n, f) ==
        f = [i \in 1..n |-> IF i = 1 THEN seqs[i] ELSE f[i - 1] \o seqs[i]]
           Bad == {n \in Nat : ~ \E f : Defined(n, f)}
<1>1. 0 \notin Bad
    <2> DEFINE f == [i \in 1..0 |-> 0]
    <2>1. Defined(0, f)
        OBVIOUS
    <2> QED
        BY <2>1
<1>2. ASSUME NEW n \in Nat, n # 0, n - 1 \notin Bad
      PROVE  n \notin Bad
    <2>1. PICK f : Defined(n - 1, f)
        <3> HIDE DEF Defined
        <3> QED
            BY <1>2
    <2> DEFINE g == [i \in 1..n |-> IF i < n THEN f[i]
                                    ELSE IF n = 1 THEN seqs[1] ELSE f[n - 1] \o seqs[n]]
               h == [i \in 1..n |-> IF i = 1 THEN seqs[i] ELSE g[i - 1] \o seqs[i]]
    <2>2. \A i \in 1..(n - 1) : f[i] = IF i = 1 THEN seqs[i] ELSE f[i - 1] \o seqs[i]
        <3>1. \A k \in Nat : Defined(k, f) =>
                  \A i \in 1..k : f[i] = IF i = 1 THEN seqs[i] ELSE f[i - 1] \o seqs[i]
            OBVIOUS
        <3>2. n - 1 \in Nat
            BY <1>2
        <3> HIDE DEF Defined
        <3> QED
            BY <2>1, <3>1, <3>2
    <2>3. ASSUME NEW i \in 1..n PROVE g[i] = h[i]
        <3>1. CASE i = 1
            BY <2>2, <3>1
        <3>2. CASE i # 1
            <4>1. i - 1 \in 1..(n - 1) /\ i - 1 \in 1..n /\ i - 1 < n
                BY <3>2
            <4>2. g[i - 1] = f[i - 1]
                BY <4>1
            <4>3. h[i] = f[i - 1] \o seqs[i]
                BY <3>2, <4>2
            <4>4. CASE i < n
                <5>1. i \in 1..(n - 1)
                    BY <4>4
                <5> QED
                    BY <2>2, <3>2, <4>3, <4>4, <5>1
            <4>5. CASE ~ (i < n)
                <5>1. i = n /\ n # 1
                    BY <3>2, <4>5
                <5>2. g[i] = f[n - 1] \o seqs[n]
                    BY <4>5, <5>1
                <5> QED
                    BY <4>3, <5>1, <5>2
            <4> QED
                BY <4>4, <4>5
        <3> QED
            BY <3>1, <3>2
    <2>4. g = h
        BY <2>3
    <2>5. Defined(n, g)
        BY <2>4
    <2> QED
        BY <2>5
<1> HIDE DEF Bad
<1>3. Bad = {}
    <2> SUFFICES ASSUME Bad # {} PROVE FALSE
        OBVIOUS
    <2>1. Bad \in SUBSET Nat
        BY DEF Bad
    <2>2. PICK n \in Bad : \A k \in Bad : n <= k
        BY <2>1, Least
    <2>3. n \in Nat /\ n # 0
        BY <1>1, <2>1
    <2>4. n - 1 \in Nat /\ n - 1 \notin Bad
        BY <2>2, <2>3
    <2> QED
        BY <1>2, <2>3, <2>4
<1> QED
    BY <1>3 DEF Bad

\* The prefixes that a sequence of sequences is flattened by.
LEMMA FlattenFunction ==
    ASSUME NEW T, NEW seqs \in Seq(Seq(T))
    PROVE  \E f \in [1..Len(seqs) -> Seq(T)] :
              /\ \A i \in 1..Len(seqs) : f[i] = IF i = 1 THEN seqs[i] ELSE f[i - 1] \o seqs[i]
              /\ Len(seqs) # 0 => FlattenSeq(seqs) = f[Len(seqs)]
              /\ Len(seqs) = 0 => FlattenSeq(seqs) = << >>
<1> DEFINE N == Len(seqs)
           Defined(f) ==
               f = [i \in 1..N |-> IF i = 1 THEN seqs[i] ELSE f[i - 1] \o seqs[i]]
           f == CHOOSE g : Defined(g)
<1>1. N \in Nat /\ \A i \in 1..N : seqs[i] \in Seq(T)
    OBVIOUS
<1>2. Defined(f)
    <2>1. \E g : Defined(g)
        BY <1>1, FlattenExists
    <2> QED
        BY <2>1
<1>3. \A i \in 1..N : f[i] = IF i = 1 THEN seqs[i] ELSE f[i - 1] \o seqs[i]
    <2> HIDE DEF f
    <2> QED
        BY <1>2
<1>4. N # 0 => FlattenSeq(seqs) = f[N]
    BY DEF FlattenSeq
<1>5. N = 0 => FlattenSeq(seqs) = << >>
    BY DEF FlattenSeq
<1> HIDE DEF f
<1> DEFINE Bad == {i \in 1..N : f[i] \notin Seq(T)}
<1>6. Bad = {}
    <2> HIDE DEF N
    <2> SUFFICES ASSUME Bad # {} PROVE FALSE
        OBVIOUS
    <2>1. Bad \in SUBSET Nat
        BY <1>1
    <2>2. PICK n \in Bad : \A k \in Bad : n <= k
        BY <2>1, Least
    <2>3. n \in 1..N /\ f[n] \notin Seq(T)
        OBVIOUS
    <2>4. n # 1
        BY <1>1, <1>3, <2>3
    <2>5. n - 1 \in 1..N /\ n - 1 \notin Bad
        BY <1>1, <2>2, <2>3, <2>4
    <2>6. f[n - 1] \in Seq(T) /\ seqs[n] \in Seq(T) /\ f[n] = f[n - 1] \o seqs[n]
        BY <1>1, <1>3, <2>3, <2>4, <2>5
    <2> QED
        BY <2>3, <2>6
<1>7. f \in [1..N -> Seq(T)]
    <2>1. f = [i \in 1..N |-> IF i = 1 THEN seqs[i] ELSE f[i - 1] \o seqs[i]]
        BY <1>2
    <2>2. DOMAIN f = 1..N
        <3> DEFINE g == [i \in 1..N |-> IF i = 1 THEN seqs[i] ELSE f[i - 1] \o seqs[i]]
        <3>1. DOMAIN g = 1..N
            OBVIOUS
        <3> QED
            BY <2>1, <3>1
    <2>3. f = [i \in 1..N |-> f[i]]
        <3>1. f = [i \in DOMAIN f |-> f[i]]
            BY <2>1
        <3> QED
            BY <2>2, <3>1
    <2> QED
        BY <1>6, <2>3
<1> QED
    BY <1>3, <1>4, <1>5, <1>7

\* Where the elements of the parts go: the i-th part begins after off[i - 1].
LEMMA FlattenPlaces ==
    ASSUME NEW T, NEW seqs \in Seq(Seq(T))
    PROVE  /\ FlattenSeq(seqs) \in Seq(T)
           /\ \E off \in [0..Len(seqs) -> Nat] :
                 /\ off[0] = 0 /\ off[Len(seqs)] = Len(FlattenSeq(seqs))
                 /\ \A i \in 1..Len(seqs) : off[i] = off[i - 1] + Len(seqs[i])
                 /\ \A i \in 1..Len(seqs) : \A o \in 1..Len(seqs[i]) :
                       FlattenSeq(seqs)[off[i - 1] + o] = seqs[i][o]
<1> DEFINE N == Len(seqs)
<1>1. N \in Nat /\ \A i \in 1..N : seqs[i] \in Seq(T)
    OBVIOUS
<1>2. PICK f \in [1..N -> Seq(T)] :
              /\ \A i \in 1..N : f[i] = IF i = 1 THEN seqs[i] ELSE f[i - 1] \o seqs[i]
              /\ N # 0 => FlattenSeq(seqs) = f[N]
              /\ N = 0 => FlattenSeq(seqs) = << >>
    BY FlattenFunction
<1> HIDE DEF N
<1> DEFINE off == [i \in 0..N |-> IF i = 0 THEN 0 ELSE Len(f[i])]
<1>3. \A i \in 1..N : f[i] \in Seq(T) /\ Len(f[i]) \in Nat
    BY <1>1, <1>2
<1>4. off \in [0..N -> Nat]
    BY <1>1, <1>3
<1>5. off[0] = 0 /\ \A i \in 1..N : off[i] = Len(f[i])
    BY <1>1
<1> HIDE DEF off
<1>6. \A i \in 1..N : off[i] = off[i - 1] + Len(seqs[i])
    <2> TAKE i \in 1..N
    <2>1. CASE i = 1
        <3>1. f[i] = seqs[i] /\ i - 1 = 0
            <4>1. f[i] = IF i = 1 THEN seqs[i] ELSE f[i - 1] \o seqs[i]
                BY <1>2
            <4>2. i - 1 = 0
                BY <2>1
            <4> QED
                BY <2>1, <4>1, <4>2, Zenon
        <3>2. off[i - 1] = 0 /\ off[i] = Len(seqs[i]) /\ Len(seqs[i]) \in Nat
            BY <1>3, <1>5, <3>1
        <3> QED
            BY <3>2
    <2>2. CASE i # 1
        <3>1. i - 1 \in 1..N
            BY <1>1, <2>2
        <3>2. f[i] = f[i - 1] \o seqs[i]
            BY <1>2, <2>2
        <3>3. f[i - 1] \in Seq(T) /\ seqs[i] \in Seq(T)
            BY <1>1, <1>3, <3>1
        <3>4. Len(f[i]) = Len(f[i - 1]) + Len(seqs[i])
            BY <3>2, <3>3
        <3> QED
            BY <1>5, <3>1, <3>4
    <2> QED
        BY <2>1, <2>2
<1> DEFINE Placed(n, i) == \A o \in 1..Len(seqs[i]) : f[n][off[i - 1] + o] = seqs[i][o]
<1>7. \A i \in 1..N : Placed(i, i)
    <2> TAKE i \in 1..N
    <2>1. CASE i = 1
        <3>1. f[i] = seqs[i] /\ i - 1 = 0
            <4>1. f[i] = IF i = 1 THEN seqs[i] ELSE f[i - 1] \o seqs[i]
                BY <1>2
            <4>2. i - 1 = 0
                BY <2>1
            <4> QED
                BY <2>1, <4>1, <4>2, Zenon
        <3>2. off[i - 1] = 0
            BY <1>5, <3>1
        <3>3. \A o \in 1..Len(seqs[i]) : off[i - 1] + o = o
            BY <3>2
        <3> QED
            BY <3>1, <3>3
    <2>2. CASE i # 1
        <3>1. i - 1 \in 1..N
            BY <1>1, <2>2
        <3>2. f[i] = f[i - 1] \o seqs[i]
            BY <1>2, <2>2
        <3>3. f[i - 1] \in Seq(T) /\ seqs[i] \in Seq(T) /\ off[i - 1] = Len(f[i - 1])
            BY <1>1, <1>3, <1>5, <3>1
        <3> DEFINE s == f[i - 1]
                   t == seqs[i]
        <3>4. \A o \in 1..Len(t) : (s \o t)[Len(s) + o] = t[o]
            <4>1. s \in Seq(T) /\ t \in Seq(T)
                BY <3>3
            <4> HIDE DEF s, t
            <4> QED
                BY <4>1
        <3> QED
            BY <3>2, <3>3, <3>4
    <2> QED
        BY <2>1, <2>2
<1>8. ASSUME NEW n \in 1..N, n # 1, NEW i \in 1..(n - 1), Placed(n - 1, i),
             off[i] <= off[n - 1]
      PROVE  Placed(n, i) /\ off[i] <= off[n]
    <2>1. n - 1 \in 1..N /\ i \in 1..N /\ n \in 0..N /\ n - 1 \in 0..N /\ i \in 0..N /\ i - 1 \in 0..N
        BY <1>1, <1>8
    <2> DEFINE s == f[n - 1]
               t == seqs[n]
    <2>2. f[n] = s \o t /\ s \in Seq(T) /\ t \in Seq(T) /\ Len(s) = off[n - 1]
        BY <1>1, <1>2, <1>3, <1>5, <1>8, <2>1
    <2>3. off[i] \in Nat /\ off[i - 1] \in Nat /\ off[n - 1] \in Nat /\ off[n] \in Nat
        BY <1>4, <2>1
    <2>4. off[n] = off[n - 1] + Len(t) /\ off[i] = off[i - 1] + Len(seqs[i])
        BY <1>6, <1>8, <2>1
    <2> HIDE DEF s, t
    <2>5. \A k \in 1..Len(s) : (s \o t)[k] = s[k]
        BY <2>2
    <2>6. Len(t) \in Nat
        BY <2>2
    <2>7. off[i] <= off[n]
        BY <1>8, <2>3, <2>4, <2>6
    <2>8. Placed(n, i)
        <3> TAKE o \in 1..Len(seqs[i])
        <3>1. Len(seqs[i]) \in Nat
            BY <1>1, <2>1
        <3>2. off[i - 1] + o \in 1..Len(s)
            <4> DEFINE a == off[i - 1]
                       b == off[n - 1]
                       l == Len(seqs[i])
            <4>1. a \in Nat /\ b \in Nat /\ l \in Nat /\ o \in 1..l /\ a + l <= b
                  /\ Len(s) = b
                BY <1>8, <2>2, <2>3, <2>4, <3>1
            <4> HIDE DEF a, b, l
            <4>2. a + o \in 1..b
                BY <4>1
            <4> QED
                BY <4>1, <4>2 DEF a
        <3>3. f[n][off[i - 1] + o] = s[off[i - 1] + o]
            BY <2>2, <2>5, <3>2
        <3> QED
            BY <1>8, <3>3 DEF s
    <2> QED
        BY <2>7, <2>8
<1> DEFINE Bad == {n \in 1..N : ~ \A i \in 1..n : Placed(n, i) /\ off[i] <= off[n]}
<1>9. Bad = {}
    <2> HIDE DEF Placed
    <2> SUFFICES ASSUME Bad # {} PROVE FALSE
        OBVIOUS
    <2>1. Bad \in SUBSET Nat
        BY <1>1
    <2>2. PICK n \in Bad : \A k \in Bad : n <= k
        BY <2>1, Least
    <2>3. n \in 1..N
        OBVIOUS
    <2>4. PICK i \in 1..n : ~(Placed(n, i) /\ off[i] <= off[n])
        OBVIOUS
    <2>5. off[n] \in Nat
        BY <1>1, <1>4, <2>3
    <2>6. i # n
        BY <1>7, <2>3, <2>4, <2>5
    <2>7. n # 1 /\ i \in 1..(n - 1) /\ n - 1 \in 1..N
        BY <1>1, <2>3, <2>4, <2>6
    <2>8. n - 1 \notin Bad
        BY <2>2, <2>3, <2>7
    <2>9. Placed(n - 1, i) /\ off[i] <= off[n - 1]
        BY <2>7, <2>8
    <2> QED
        BY <1>8, <2>3, <2>4, <2>7, <2>9
<1>10. CASE N = 0
    <2>1. FlattenSeq(seqs) = << >> /\ Len(<< >>) = 0 /\ << >> \in Seq(T)
        BY <1>2, <1>10, EmptySeq
    <2>2. off[N] = Len(FlattenSeq(seqs))
        BY <1>5, <1>10, <2>1
    <2>3. 1..N = {}
        BY <1>10
    <2> QED
        BY <1>4, <1>5, <2>1, <2>2, <2>3 DEF N
<1>11. CASE N # 0
    <2>1. N \in 1..N
        BY <1>1, <1>11
    <2>2. FlattenSeq(seqs) = f[N]
        BY <1>2, <1>11
    <2>3. FlattenSeq(seqs) \in Seq(T) /\ off[N] = Len(FlattenSeq(seqs))
        BY <1>3, <1>5, <2>1, <2>2
    <2>4. \A i \in 1..N : Placed(N, i)
        <3> HIDE DEF Placed
        <3> QED
            BY <1>9, <2>1
    <2>5. \A i \in 1..N : \A o \in 1..Len(seqs[i]) :
              FlattenSeq(seqs)[off[i - 1] + o] = seqs[i][o]
        BY <2>2, <2>4
    <2> QED
        BY <1>4, <1>5, <1>6, <2>3, <2>5 DEF N
<1> QED
    BY <1>10, <1>11

\* Offsets grow, and every place of the flattened sequence lies in a part.
LEMMA OffsetsGrow ==
    ASSUME NEW N \in Nat, NEW off \in [0..N -> Nat], NEW len \in [1..N -> Nat],
           \A i \in 1..N : off[i] = off[i - 1] + len[i]
    PROVE  \A i, j \in 0..N : i <= j => off[i] <= off[j]
<1> SUFFICES ASSUME NEW i \in 0..N
             PROVE  \A j \in 0..N : i <= j => off[i] <= off[j]
    OBVIOUS
<1> DEFINE Bad == {j \in 0..N : i <= j /\ ~(off[i] <= off[j])}
<1> SUFFICES ASSUME Bad # {} PROVE FALSE
    OBVIOUS
<1>1. Bad \in SUBSET Nat
    OBVIOUS
<1>2. PICK j \in Bad : \A k \in Bad : j <= k
    <2> HIDE DEF Bad
    <2> QED
        BY <1>1, Least
<1>3. j \in 0..N /\ i <= j /\ ~(off[i] <= off[j]) /\ off[i] \in Nat
    OBVIOUS
<1>4. i # j
    BY <1>3
<1>5. j \in 1..N /\ j - 1 \in 0..N /\ i <= j - 1
    BY <1>3, <1>4
<1>6. j - 1 \notin Bad
    <2>1. ~(j <= j - 1)
        BY <1>5
    <2> HIDE DEF Bad
    <2> QED
        BY <1>2, <2>1
<1>7. off[i] <= off[j - 1]
    BY <1>5, <1>6
<1>8. off[j] = off[j - 1] + len[j] /\ off[j - 1] \in Nat /\ len[j] \in Nat
    BY <1>5
<1> QED
    BY <1>3, <1>7, <1>8, SMTT(30)

LEMMA FlattenFrom ==
    ASSUME NEW N \in Nat, NEW off \in [0..N -> Nat], NEW len \in [1..N -> Nat],
           off[0] = 0, \A i \in 1..N : off[i] = off[i - 1] + len[i],
           NEW k \in 1..off[N]
    PROVE  \E i \in 1..N : \E o \in 1..len[i] : k = off[i - 1] + o
<1> DEFINE S == {i \in 0..N : k <= off[i]}
<1>1. S \in SUBSET Nat /\ N \in S
    OBVIOUS
<1>2. PICK i \in S : \A j \in S : i <= j
    <2> HIDE DEF S
    <2> QED
        BY <1>1, Least
<1>3. i \in 0..N /\ k <= off[i]
    OBVIOUS
<1>4. i # 0
    BY <1>3
<1>5. i \in 1..N /\ i - 1 \in 0..N
    BY <1>3, <1>4
<1>6. i - 1 \notin S
    <2>1. ~(i <= i - 1)
        BY <1>5
    <2> HIDE DEF S
    <2> QED
        BY <1>2, <2>1
<1>7. off[i - 1] < k
    <2>1. off[i - 1] \in Nat
        BY <1>5
    <2> QED
        BY <1>5, <1>6, <2>1
<1> DEFINE o == k - off[i - 1]
<1>8. o \in 1..len[i] /\ k = off[i - 1] + o
    <2>1. off[i] = off[i - 1] + len[i] /\ off[i - 1] \in Nat /\ len[i] \in Nat
        BY <1>5
    <2> QED
        BY <1>3, <1>7, <2>1
<1> QED
    BY <1>5, <1>8

\* What a flattened sequence begins with.
LEMMA FlattenIsSeq ==
    ASSUME NEW T, NEW seqs \in Seq(Seq(T))
    PROVE  /\ FlattenSeq(seqs) \in Seq(T)
           /\ seqs # << >> /\ seqs[1] # << >> =>
                 FlattenSeq(seqs) # << >> /\ FlattenSeq(seqs)[1] = seqs[1][1]
<1> DEFINE N == Len(seqs)
           flat == FlattenSeq(seqs)
<1>1. PICK off \in [0..N -> Nat] :
                 /\ off[0] = 0 /\ off[N] = Len(flat)
                 /\ \A i \in 1..N : off[i] = off[i - 1] + Len(seqs[i])
                 /\ \A i \in 1..N : \A o \in 1..Len(seqs[i]) :
                       flat[off[i - 1] + o] = seqs[i][o]
    BY FlattenPlaces
<1>2. flat \in Seq(T)
    BY FlattenPlaces
<1>3. ASSUME seqs # << >>, seqs[1] # << >>
      PROVE  flat # << >> /\ flat[1] = seqs[1][1]
    <2>1. N \in Nat \ {0}
        BY <1>3, EmptySeq
    <2>2. 1 \in 1..N
        BY <2>1
    <2>3. seqs[1] \in Seq(T) /\ Len(seqs[1]) \in Nat \ {0}
        BY <1>3, <2>2, EmptySeq
    <2> HIDE DEF N, flat
    <2>4. flat[off[1 - 1] + 1] = seqs[1][1]
        BY <1>1, <2>2, <2>3
    <2>5. off[1 - 1] + 1 = 1
        BY <1>1
    <2>6. flat[1] = seqs[1][1]
        BY <2>4, <2>5
    <2> DEFINE len == [i \in 1..N |-> Len(seqs[i])]
    <2>7. len \in [1..N -> Nat] /\ \A i \in 1..N : off[i] = off[i - 1] + len[i]
        <3>1. \A i \in 1..N : Len(seqs[i]) \in Nat
            BY DEF N
        <3> QED
            BY <1>1, <3>1
    <2>8. off[1] <= off[N]
        <3> HIDE DEF len
        <3>1. N \in Nat /\ off \in [0..N -> Nat]
            BY <1>1, <2>1
        <3>2. \A i, j \in 0..N : i <= j => off[i] <= off[j]
            BY <2>7, <3>1, OffsetsGrow
        <3>3. 1 \in 0..N /\ N \in 0..N /\ 1 <= N
            BY <2>1
        <3> QED
            BY <3>2, <3>3
    <2>9. off[1] = off[1 - 1] + Len(seqs[1]) /\ off[1 - 1] = 0
        BY <1>1, <2>2
    <2>10. Len(flat) # 0
        BY <1>1, <2>3, <2>8, <2>9
    <2>11. flat # << >>
        BY <2>10, EmptySeq
    <2> QED
        BY <2>6, <2>11
<1> QED
    BY <1>2, <1>3

\* The first part comes first, and then the others.
LEMMA FlattenFirst ==
    ASSUME NEW T, NEW seqs \in Seq(Seq(T)), seqs # << >>
    PROVE  FlattenSeq(seqs) = seqs[1] \o FlattenSeq(Tail(seqs))
<1> DEFINE N == Len(seqs)
           rest == Tail(seqs)
<1>1. N \in Nat \ {0} /\ seqs[1] \in Seq(T)
    BY EmptySeq
<1>2. rest \in Seq(Seq(T)) /\ Len(rest) = N - 1 /\ \A i \in 1..(N - 1) : rest[i] = seqs[i + 1]
    BY HeadTailProperties
<1>3. PICK f \in [1..N -> Seq(T)] :
              /\ \A i \in 1..N : f[i] = IF i = 1 THEN seqs[i] ELSE f[i - 1] \o seqs[i]
              /\ FlattenSeq(seqs) = f[N]
    BY <1>1, FlattenFunction
<1> HIDE DEF rest, N
<1>4. PICK g \in [1..(N - 1) -> Seq(T)] :
              /\ \A i \in 1..(N - 1) : g[i] = IF i = 1 THEN rest[i] ELSE g[i - 1] \o rest[i]
              /\ N - 1 # 0 => FlattenSeq(rest) = g[N - 1]
              /\ N - 1 = 0 => FlattenSeq(rest) = << >>
    <2> DEFINE M == Len(rest)
    <2>1. \E g \in [1..M -> Seq(T)] :
              /\ \A i \in 1..M : g[i] = IF i = 1 THEN rest[i] ELSE g[i - 1] \o rest[i]
              /\ M # 0 => FlattenSeq(rest) = g[M]
              /\ M = 0 => FlattenSeq(rest) = << >>
        BY <1>2, FlattenFunction
    <2>2. M = N - 1
        BY <1>2
    <2> HIDE DEF M
    <2> QED
        BY <2>1, <2>2
<1>5. \A s, t, u \in Seq(T) : (s \o t) \o u = s \o (t \o u)
    BY ConcatAssociative, SMTT(30)
<1>6. CASE N = 1
    BY <1>1, <1>3, <1>4, <1>6, ConcatEmptySeq DEF rest
<1>7. CASE N # 1
    <2> DEFINE Agrees(i) == f[i] = seqs[1] \o g[i - 1]
    <2>1. Agrees(2)
        <3>1. 1 \in 1..N /\ 2 \in 1..N /\ 1 \in 1..(N - 1) /\ 2 - 1 = 1 /\ 1 + 1 = 2 /\ 2 # 1
            BY <1>1, <1>7
        <3>2. f[1] = seqs[1] /\ f[2] = f[1] \o seqs[2]
            BY <1>3, <3>1, Zenon
        <3>3. g[1] = rest[1]
            BY <1>4, <3>1, Zenon
        <3>4. rest[1] = seqs[2]
            BY <1>2, <3>1, Zenon
        <3> QED
            BY <3>1, <3>2, <3>3, <3>4, Zenon
    <2>2. ASSUME NEW i \in 2..(N - 1), Agrees(i) PROVE Agrees(i + 1)
        <3>1. /\ i \in 1..(N - 1) /\ i - 1 \in 1..(N - 1) /\ i # 1 /\ i + 1 \in 1..N
              /\ (i + 1) - 1 = i /\ i + 1 # 1
            BY <1>1
        <3>2. f[i + 1] = f[i] \o seqs[i + 1] /\ g[i] = g[i - 1] \o rest[i]
              /\ rest[i] = seqs[i + 1]
            BY <1>2, <1>3, <1>4, <3>1
        <3>3. g[i - 1] \in Seq(T) /\ seqs[i + 1] \in Seq(T)
            <4>1. rest[i] \in Seq(T)
                BY <1>2, <3>1
            <4> QED
                BY <1>4, <3>1, <3>2, <4>1
        <3>4. (seqs[1] \o g[i - 1]) \o seqs[i + 1] = seqs[1] \o (g[i - 1] \o seqs[i + 1])
            BY <1>1, <1>5, <3>3, Zenon
        <3> QED
            BY <2>2, <3>1, <3>2, <3>4
    <2> DEFINE S == {i \in 2..N : Agrees(i)}
    <2> HIDE DEF Agrees
    <2>3. 2 \in S /\ N \in 2..N
        BY <1>1, <1>7, <2>1
    <2>4. \A i \in 2..(N - 1) : i \in S => i + 1 \in S
        BY <1>1, <2>2
    <2>5. N \in S
        <3> HIDE DEF S
        <3> QED
            BY <1>1, <2>3, <2>4, Upwards
    <2>6. f[N] = seqs[1] \o g[N - 1]
        BY <2>5 DEF Agrees
    <2>7. N - 1 # 0
        BY <1>1, <1>7
    <2> QED
        BY <1>3, <1>4, <2>6, <2>7, Zenon DEF rest
<1> QED
    BY <1>6, <1>7

\* One element to a part gives the elements.
LEMMA FlattenSingles ==
    ASSUME NEW T, NEW seqs \in Seq(Seq(T)), NEW s \in Seq(T), Len(seqs) = Len(s),
           \A i \in 1..Len(s) : seqs[i] = <<s[i]>>
    PROVE  FlattenSeq(seqs) = s
<1> DEFINE N == Len(s)
<1>1. N \in Nat
    OBVIOUS
<1>2. FlattenSeq(seqs) \in Seq(T)
    BY FlattenPlaces
<1>3. PICK off \in [0..N -> Nat] :
                 /\ off[0] = 0 /\ off[N] = Len(FlattenSeq(seqs))
                 /\ \A i \in 1..N : off[i] = off[i - 1] + Len(seqs[i])
                 /\ \A i \in 1..N : \A o \in 1..Len(seqs[i]) :
                       FlattenSeq(seqs)[off[i - 1] + o] = seqs[i][o]
    <2> DEFINE M == Len(seqs)
    <2>1. \E off \in [0..M -> Nat] :
                 /\ off[0] = 0 /\ off[M] = Len(FlattenSeq(seqs))
                 /\ \A i \in 1..M : off[i] = off[i - 1] + Len(seqs[i])
                 /\ \A i \in 1..M : \A o \in 1..Len(seqs[i]) :
                       FlattenSeq(seqs)[off[i - 1] + o] = seqs[i][o]
        BY FlattenPlaces
    <2>2. M = N
        OBVIOUS
    <2> HIDE DEF M, N
    <2> QED
        BY <2>1, <2>2
<1>4. \A i \in 1..N : Len(seqs[i]) = 1 /\ seqs[i][1] = s[i]
    <2>1. \A x : Len(<<x>>) = 1 /\ <<x>>[1] = x
        OBVIOUS
    <2> QED
        BY <2>1
<1> HIDE DEF N
<1>5. \A i \in 0..N : off[i] = i
    <2> DEFINE S == {i \in 0..N : off[i] = i}
    <2>1. 0 \in S
        BY <1>1, <1>3
    <2>2. \A i \in 0..(N - 1) : i \in S => i + 1 \in S
        <3> TAKE i \in 0..(N - 1)
        <3> HAVE i \in S
        <3>1. i + 1 \in 1..N /\ i + 1 \in 0..N /\ (i + 1) - 1 = i
            BY <1>1
        <3>2. off[i + 1] = off[i] + 1
            BY <1>3, <1>4, <3>1
        <3> QED
            BY <3>1, <3>2
    <2>3. \A i \in 0..N : i \in S
        <3> HIDE DEF S
        <3> QED
            BY <1>1, <2>1, <2>2, Upwards
    <2> QED
        BY <2>3
<1>6. Len(FlattenSeq(seqs)) = N
    BY <1>1, <1>3, <1>5
<1>7. \A i \in 1..N : FlattenSeq(seqs)[i] = s[i]
    <2> TAKE i \in 1..N
    <2>1. off[i - 1] = i - 1 /\ (i - 1) + 1 = i
        BY <1>1, <1>5
    <2>2. FlattenSeq(seqs)[off[i - 1] + 1] = seqs[i][1]
        <3>1. \A o \in 1..Len(seqs[i]) : FlattenSeq(seqs)[off[i - 1] + o] = seqs[i][o]
            BY <1>3, Zenon
        <3>2. 1 \in 1..Len(seqs[i])
            BY <1>4
        <3> QED
            BY <3>1, <3>2, Zenon
    <2> QED
        BY <1>4, <2>1, <2>2
<1> QED
    BY <1>2, <1>6, <1>7, SeqEqual DEF N
=============================================================================
