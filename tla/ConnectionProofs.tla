--------------------------- MODULE ConnectionProofs ---------------------------
(***************************************************************************)
(* Proofs about Connection: however the bytes of a stream arrive, the task *)
(* cuts them into the requests that PolicyStream defines by where they     *)
(* end, and each of its steps is one that PolicyStream allows.             *)
(***************************************************************************)
EXTENDS Connection, Basics

USE ByteAssumption, BoundAssumption

\* The first terminator of a buffer is there if any is.
LEMMA FirstTerminator ==
    ASSUME NEW bytes \in Seq(Byte), Terminators(bytes) # {}
    PROVE  /\ TerminatorAt(bytes) \in Terminators(bytes)
           /\ \A j \in Terminators(bytes) : TerminatorAt(bytes) <= j
<1>1. Terminators(bytes) \in SUBSET Nat
    BY DEF Terminators
<1>2. \E i \in Terminators(bytes) : \A j \in Terminators(bytes) : i <= j
    BY <1>1, Least
<1> QED
    BY <1>2 DEF TerminatorAt

(***************************************************************************)
(* The lines of a block are what lies between its cuts.                    *)
(***************************************************************************)

LEMMA SubSeqIsThere ==
    ASSUME NEW block \in Seq(Byte), NEW m \in 1..Len(block), NEW n \in m..Len(block)
    PROVE  SubSeq(block, m, n) # << >>
<1>1. Len(SubSeq(block, m, n)) = n - m + 1
    OBVIOUS
<1>2. Len(SubSeq(block, m, n)) # 0
    BY <1>1
<1> QED
    BY <1>2

LEMMA LinesAgree ==
    ASSUME NEW block \in Seq(Byte)
    PROVE  LinesOf(block) = Promise!Lines(block)
<1> DEFINE pieces == {p \in Cuts(block) \X Cuts(block) :
                         p[1] < p[2] /\ \A k \in Cuts(block) : k <= p[1] \/ p[2] <= k}
<1>0. Cuts(block) \subseteq Int /\ Len(block) \in Nat
    BY DEF Cuts
<1>1. ASSUME NEW p \in pieces, SubSeq(block, p[1] + 1, p[2] - 1) # << >>
      PROVE  <<p[1] + 1, p[2] - 1>> \in Promise!Stretches(block)
    <2>1. p[1] \in Cuts(block) /\ p[2] \in Cuts(block) /\ p[1] < p[2]
        OBVIOUS
    <2>2. p[1] + 1 <= p[2] - 1
        BY <1>0, <1>1, <2>1
    <2>3. \A k \in (p[1] + 1)..(p[2] - 1) : k \in 1..Len(block) /\ block[k] # NL
        BY <1>0, <2>1 DEF Cuts
    <2> QED
        BY <1>0, <2>1, <2>2, <2>3 DEF Cuts, Promise!Stretches
<1>2. ASSUME NEW r \in Promise!Stretches(block)
      PROVE  /\ <<r[1] - 1, r[2] + 1>> \in pieces
             /\ SubSeq(block, r[1], r[2]) # << >>
    <2>1. /\ r[1] \in 1..Len(block) /\ r[2] \in 1..Len(block) /\ r[1] <= r[2]
          /\ \A k \in r[1]..r[2] : block[k] # NL
          /\ r[1] = 1 \/ block[r[1] - 1] = NL
          /\ r[2] = Len(block) \/ block[r[2] + 1] = NL
        BY DEF Promise!Stretches
    <2>2. r[1] - 1 \in Cuts(block) /\ r[2] + 1 \in Cuts(block)
        BY <1>0, <2>1 DEF Cuts
    <2>3. \A k \in Cuts(block) : k <= r[1] - 1 \/ r[2] + 1 <= k
        BY <1>0, <2>1 DEF Cuts
    <2>4. SubSeq(block, r[1], r[2]) # << >>
        <3>1. r[1] \in 1..Len(block) /\ r[2] \in r[1]..Len(block)
            BY <1>0, <2>1
        <3> QED
            BY <3>1, SubSeqIsThere
    <2>5. <<r[1] - 1, r[2] + 1>> \in Cuts(block) \X Cuts(block)
        BY <2>2
    <2>6. /\ r[1] - 1 < r[2] + 1
          /\ \A k \in Cuts(block) : k <= r[1] - 1 \/ r[2] + 1 <= k
        BY <1>0, <2>1, <2>3
    <2> QED
        BY <2>4, <2>5, <2>6
<1>3. ASSUME NEW line \in LinesOf(block) PROVE line \in Promise!Lines(block)
    <2>1. PICK p \in pieces : line = SubSeq(block, p[1] + 1, p[2] - 1)
        BY <1>3 DEF LinesOf
    <2>2. line # << >>
        BY <1>3 DEF LinesOf
    <2>3. PICK r \in Promise!Stretches(block) : r = <<p[1] + 1, p[2] - 1>>
        BY <1>1, <2>1, <2>2
    <2>4. r[1] = p[1] + 1 /\ r[2] = p[2] - 1
        BY <2>3
    <2>5. line = SubSeq(block, r[1], r[2])
        BY <2>1, <2>4
    <2> QED
        BY <2>5 DEF Promise!Lines
<1>4. ASSUME NEW line \in Promise!Lines(block) PROVE line \in LinesOf(block)
    <2>1. PICK r \in Promise!Stretches(block) : line = SubSeq(block, r[1], r[2])
        BY <1>4 DEF Promise!Lines
    <2>2. r[1] \in Int /\ r[2] \in Int
        BY DEF Promise!Stretches
    <2>3. PICK p \in pieces : p = <<r[1] - 1, r[2] + 1>>
        BY <1>2
    <2>4. p[1] + 1 = r[1] /\ p[2] - 1 = r[2]
        BY <2>2, <2>3
    <2>5. line = SubSeq(block, p[1] + 1, p[2] - 1)
        BY <2>1, <2>4
    <2> QED
        BY <1>2, <2>1, <2>5 DEF LinesOf
<1> QED
    BY <1>3, <1>4

(***************************************************************************)
(* Where requests end.  A cut of n is where n requests have ended.         *)
(***************************************************************************)

Until(s, c) == {d \in Promise!Ends(s) : d <= c}

Cut(s, n, c) == /\ c \in {0} \cup Promise!Ends(s)
                /\ Cardinality(Until(s, c)) = n

\* A terminator that ends at e.
Pair(s, e) == s[e - 1] = NL /\ s[e] = NL

LEMMA SameCardinality == \A S : Promise!Cardinality(S) = Cardinality(S)
BY DEF Promise!Cardinality, Cardinality

LEMMA UntilIsFinite ==
    ASSUME NEW s \in Seq(Byte), NEW c \in Int
    PROVE  IsFiniteSet(Until(s, c)) /\ IsFiniteSet(Promise!Ends(s))
<1>1. IsFiniteSet(1..Len(s))
    BY FS_Interval
<1>2. Until(s, c) \in SUBSET (1..Len(s)) /\ Promise!Ends(s) \in SUBSET (1..Len(s))
    BY DEF Until, Promise!Ends
<1> QED
    BY <1>1, <1>2, FS_Subset

\* At most one place is the n-th cut.
LEMMA CutIsUnique ==
    ASSUME NEW s \in Seq(Byte), NEW n, NEW c, NEW d, Cut(s, n, c), Cut(s, n, d)
    PROVE  c = d
<1>1. ASSUME NEW a \in Int, NEW b \in Int, Cut(s, n, a), Cut(s, n, b), a < b
      PROVE  FALSE
    <2>1. b \in Promise!Ends(s)
        BY <1>1 DEF Cut, Promise!Ends
    <2>2. Until(s, a) \in SUBSET Until(s, b)
        BY <1>1, <2>1 DEF Until, Promise!Ends
    <2>3. Until(s, a) = Until(s, b)
        BY <1>1, <2>1, <2>2, UntilIsFinite, FS_Subset DEF Cut
    <2> QED
        BY <1>1, <2>1, <2>3 DEF Until
<1>2. c \in Int /\ d \in Int
    BY DEF Cut, Promise!Ends
<1>3. ~ (c < d)
    BY <1>1, <1>2
<1>4. ~ (d < c)
    BY <1>1, <1>2
<1> QED
    BY <1>2, <1>3, <1>4

LEMMA EndOfCut ==
    ASSUME NEW s \in Seq(Byte), NEW n \in Nat, NEW c, Cut(s, n, c)
    PROVE  Promise!EndOf(s, n) = c
<1>1. CASE n = 0
    <2>1. c \in Int
        BY DEF Cut, Promise!Ends
    <2>2. IsFiniteSet(Until(s, c)) /\ Cardinality(Until(s, c)) = 0
        BY <1>1, <2>1, UntilIsFinite DEF Cut
    <2>3. Until(s, c) = {}
        BY <2>2, FS_EmptySet
    <2>4. c = 0
        BY <2>1, <2>3 DEF Cut, Until
    <2> QED
        BY <1>1, <2>4 DEF Promise!EndOf
<1>2. CASE n # 0
    <2>1. c \in Promise!Ends(s)
        <3>1. Until(s, 0) = {}
            BY DEF Until, Promise!Ends
        <3>2. Cardinality(Until(s, 0)) = 0
            BY <3>1, FS_EmptySet
        <3> QED
            BY <1>2, <3>2 DEF Cut
    <2>2. \A e \in Promise!Ends(s) : Cardinality(Until(s, e)) = n <=> e = c
        <3>1. ASSUME NEW e \in Promise!Ends(s), Cardinality(Until(s, e)) = n
              PROVE  e = c
            <4>1. Cut(s, n, e)
                BY <3>1 DEF Cut
            <4> QED
                BY <4>1, CutIsUnique
        <3>2. Cardinality(Until(s, c)) = n
            BY DEF Cut
        <3> QED
            BY <3>1, <3>2
    <2>3. (CHOOSE e \in Promise!Ends(s) : Cardinality(Until(s, e)) = n) = c
        BY <2>1, <2>2
    <2>4. Promise!EndOf(s, n) = CHOOSE e \in Promise!Ends(s) : Cardinality(Until(s, e)) = n
        BY <1>2, SameCardinality DEF Promise!EndOf, Until
    <2> QED
        BY <2>3, <2>4
<1> QED
    BY <1>1, <1>2

LEMMA EndIsPair ==
    ASSUME NEW s \in Seq(Byte), NEW d \in Promise!Ends(s)
    PROVE  /\ d \in 2..Len(s) /\ Pair(s, d)
           /\ \E j \in 1..(d - 1) : Promise!Run(s, j, d) /\ (d - j) % 2 = 1
<1>1. PICK j \in 1..d : Promise!Run(s, j, d) /\ (d - j) % 2 = 1
    BY DEF Promise!Ends
<1>2. d \in 1..Len(s) /\ j # d
    BY <1>1 DEF Promise!Ends
<1>3. j <= d - 1
    BY <1>2
<1>4. s[d - 1] = NL /\ s[d] = NL
    BY <1>1, <1>2, <1>3 DEF Promise!Run
<1> QED
    BY <1>1, <1>2, <1>3, <1>4 DEF Pair

\* A request does not end right after another one has: the newlines in a row
\* up to there are odd in number.
LEMMA NoEndAfterEnd ==
    ASSUME NEW s \in Seq(Byte), NEW c \in {0} \cup Promise!Ends(s)
    PROVE  c + 1 \notin Promise!Ends(s)
<1> SUFFICES ASSUME c + 1 \in Promise!Ends(s) PROVE FALSE
    OBVIOUS
<1>1. c \in Promise!Ends(s)
    BY EndIsPair
<1>2. PICK j \in 1..(c - 1) : Promise!Run(s, j, c) /\ (c - j) % 2 = 1
    BY <1>1, EndIsPair
<1>3. PICK i \in 1..c : Promise!Run(s, i, c + 1) /\ (c + 1 - i) % 2 = 1
    BY EndIsPair
<1>4. c \in Int
    BY DEF Promise!Ends
<1>5. ~ (i < j)
    BY <1>2, <1>3, <1>4 DEF Promise!Run
<1>6. ~ (j < i)
    BY <1>2, <1>3, <1>4 DEF Promise!Run
<1> QED
    BY <1>2, <1>3, <1>4, <1>5, <1>6

\* The first pair after a cut is where the next request ends, and where there
\* is no pair, none ends.
LEMMA EndsAfter ==
    ASSUME NEW s \in Seq(Byte), NEW c \in {0} \cup Promise!Ends(s),
           NEW e \in Nat, \A i \in (c + 2)..(e - 1) : ~ Pair(s, i)
    PROVE  \A d \in Promise!Ends(s) : c < d => e <= d
<1> SUFFICES ASSUME NEW d \in Promise!Ends(s), c < d, d < e PROVE FALSE
    BY DEF Promise!Ends
<1>1. c \in Int /\ d \in Int /\ d # c + 1
    BY NoEndAfterEnd DEF Promise!Ends
<1>2. d \in (c + 2)..(e - 1)
    BY <1>1
<1> QED
    BY <1>2, EndIsPair

LEMMA FirstPairEnds ==
    ASSUME NEW s \in Seq(Byte), NEW c \in {0} \cup Promise!Ends(s),
           NEW e \in (c + 2)..Len(s), Pair(s, e),
           \A i \in (c + 2)..(e - 1) : ~ Pair(s, i)
    PROVE  e \in Promise!Ends(s)
<1>1. c \in Nat
    BY DEF Promise!Ends
<1>2. CASE e > c + 2
    <2>1. ~ Pair(s, e - 1)
        BY <1>1, <1>2
    <2>2. s[e - 2] # NL
        <3>1. e - 1 - 1 = e - 2
            BY <1>1
        <3> QED
            BY <2>1, <3>1 DEF Pair
    <2>3. Promise!Run(s, e - 1, e)
        BY <1>1, <1>2, <2>2 DEF Promise!Run, Pair
    <2> QED
        BY <1>1, <1>2, <2>3 DEF Promise!Ends
<1>3. CASE e = c + 2 /\ c = 0
    BY <1>3 DEF Promise!Run, Pair, Promise!Ends
<1>4. CASE e = c + 2 /\ c # 0
    <2>1. PICK j \in 1..(c - 1) : Promise!Run(s, j, c) /\ (c - j) % 2 = 1
        BY <1>4, EndIsPair
    <2>2. Promise!Run(s, j, e)
        BY <1>1, <1>4, <2>1 DEF Promise!Run, Pair
    <2>3. (e - j) % 2 = 1
        BY <1>1, <1>4, <2>1
    <2> QED
        BY <1>1, <1>4, <2>1, <2>2, <2>3 DEF Promise!Ends
<1> QED
    BY <1>1, <1>2, <1>3, <1>4

\* With the first pair after a cut, one more request has ended.
LEMMA CutGrows ==
    ASSUME NEW s \in Seq(Byte), NEW n \in Nat, NEW c, Cut(s, n, c),
           NEW e \in (c + 2)..Len(s), Pair(s, e),
           \A i \in (c + 2)..(e - 1) : ~ Pair(s, i)
    PROVE  Cut(s, n + 1, e)
<1>1. c \in {0} \cup Promise!Ends(s) /\ c \in Nat
    BY DEF Cut, Promise!Ends
<1>2. e \in Nat /\ c < e
    BY <1>1
<1>3. e \in Promise!Ends(s)
    BY <1>1, FirstPairEnds
<1>4. \A d \in Promise!Ends(s) : c < d => e <= d
    BY <1>1, <1>2, EndsAfter
<1>5. Until(s, e) = Until(s, c) \cup {e}
    BY <1>1, <1>2, <1>3, <1>4 DEF Until, Promise!Ends
<1>6. e \notin Until(s, c)
    BY <1>1, <1>2 DEF Until
<1>7. Cardinality(Until(s, e)) = n + 1
    <2>1. c \in Int /\ Cardinality(Until(s, c)) = n
        BY <1>1 DEF Cut
    <2>2. IsFiniteSet(Until(s, c))
        BY <2>1, UntilIsFinite
    <2> QED
        BY <1>5, <1>6, <2>1, <2>2, FS_AddElement
<1> QED
    BY <1>3, <1>7 DEF Cut

\* What ended at a cut is a part of what ends in the stream, and all of it when
\* no pair follows.
LEMMA CutIsWhole ==
    ASSUME NEW s \in Seq(Byte), NEW n \in Nat, NEW c, Cut(s, n, c)
    PROVE  /\ Cardinality(Promise!Ends(s)) \in Nat
           /\ n <= Cardinality(Promise!Ends(s))
           /\ (\A i \in (c + 2)..Len(s) : ~ Pair(s, i)) => Cardinality(Promise!Ends(s)) = n
<1>1. c \in {0} \cup Promise!Ends(s) /\ c \in Nat
    BY DEF Cut, Promise!Ends
<1>2. IsFiniteSet(Promise!Ends(s)) /\ Until(s, c) \in SUBSET Promise!Ends(s)
    <2>1. Until(s, c) \in SUBSET Promise!Ends(s)
        BY DEF Until
    <2>2. c \in Int
        BY <1>1
    <2> QED
        BY <2>1, <2>2, UntilIsFinite
<1>3. Cardinality(Promise!Ends(s)) \in Nat /\ n <= Cardinality(Promise!Ends(s))
    BY <1>2, FS_Subset, FS_CardinalityType DEF Cut
<1>4. ASSUME \A i \in (c + 2)..Len(s) : ~ Pair(s, i)
      PROVE  Cardinality(Promise!Ends(s)) = n
    <2> DEFINE e == Len(s) + 1
    <2>1. e \in Nat /\ \A i \in (c + 2)..(e - 1) : ~ Pair(s, i)
        BY <1>4
    <2>2. \A d \in Promise!Ends(s) : c < d => e <= d
        <3> HIDE DEF e
        <3> QED
            BY <1>1, <2>1, EndsAfter
    <2>3. Until(s, c) = Promise!Ends(s)
        BY <1>1, <2>2 DEF Until, Promise!Ends
    <2> QED
        BY <2>3 DEF Cut
<1> QED
    BY <1>3, <1>4

\* What the client goes on to write moves no cut.
LEMMA CutStays ==
    ASSUME NEW s \in Seq(Byte), NEW b \in Byte, NEW n, NEW c, Cut(s, n, c)
    PROVE  Cut(Append(s, b), n, c)
<1> DEFINE t == Append(s, b)
<1>1. /\ t \in Seq(Byte) /\ Len(t) = Len(s) + 1 /\ Len(s) \in Nat
      /\ \A i \in 1..Len(s) : t[i] = s[i]
    OBVIOUS
<1>2. \A i \in 1..Len(s) : i \in Promise!Ends(t) <=> i \in Promise!Ends(s)
    <2> HIDE DEF t
    <2>1. \A i \in 1..Len(s) : \A j \in 1..i : Promise!Run(t, j, i) <=> Promise!Run(s, j, i)
        <3> TAKE i \in 1..Len(s)
        <3> TAKE j \in 1..i
        <3>1. \A k \in j..i : t[k] = s[k]
            BY <1>1
        <3>2. j = 1 \/ t[j - 1] = s[j - 1]
            BY <1>1
        <3> QED
            BY <3>1, <3>2 DEF Promise!Run
    <2> QED
        BY <1>1, <2>1 DEF Promise!Ends
<1>3. c \in Int /\ c <= Len(s)
    BY DEF Cut, Promise!Ends
<1>4. Until(t, c) = Until(s, c)
    <2> HIDE DEF t
    <2>1. \A d : d \in Until(t, c) => d \in 1..Len(s)
        BY <1>1, <1>3 DEF Until, Promise!Ends
    <2>2. \A d : d \in Until(s, c) => d \in 1..Len(s)
        BY DEF Until, Promise!Ends
    <2> QED
        BY <1>2, <2>1, <2>2 DEF Until
<1>5. c \in {0} \cup Promise!Ends(t)
    <2>1. c = 0 \/ (c \in 1..Len(s) /\ c \in Promise!Ends(s))
        BY DEF Cut, Promise!Ends
    <2> QED
        BY <1>2, <2>1
<1> QED
    BY <1>4, <1>5 DEF Cut

(***************************************************************************)
(* The buffer holds what has arrived after a cut.                          *)
(***************************************************************************)

LEMMA PieceIsPiece ==
    ASSUME NEW s \in Seq(Byte), NEW a \in 0..Len(s), NEW c \in 0..a
    PROVE  LET p == SubSeq(s, c + 1, a)
           IN  /\ p \in Seq(Byte) /\ Len(p) = a - c
               /\ \A i \in 1..(a - c) : p[i] = s[c + i]
<1> DEFINE p == SubSeq(s, c + 1, a)
<1>1. /\ a \in Int /\ c + 1 \in Int /\ \A i \in (c + 1)..a : s[i] \in Byte
      /\ a - (c + 1) + 1 = a - c /\ (c + 1 <= a <=> a - c # 0) /\ a - c >= 0
      /\ \A i \in 1..(a - c) : c + 1 + i - 1 = c + i
    OBVIOUS
<1>2. p \in Seq(Byte) /\ Len(p) = IF c + 1 <= a THEN a - (c + 1) + 1 ELSE 0
    BY <1>1, SubSeqProperties
<1>3. \A i \in 1..(a - (c + 1) + 1) : p[i] = s[c + 1 + i - 1]
    BY <1>1, SubSeqProperties
<1> HIDE DEF p
<1>4. \A i \in 1..(a - c) : p[i] = s[c + i]
    BY <1>1, <1>3
<1>5. p \in Seq(Byte) /\ Len(p) = a - c
    BY <1>1, <1>2
<1> QED
    BY <1>4, <1>5 DEF p

LEMMA PieceOfPiece ==
    ASSUME NEW s \in Seq(Byte), NEW a \in 0..Len(s), NEW c \in 0..a,
           NEW m \in 1..(a - c + 1), NEW n \in 0..(a - c)
    PROVE  SubSeq(SubSeq(s, c + 1, a), m, n) = SubSeq(s, c + m, c + n)
<1> DEFINE p == SubSeq(s, c + 1, a)
<1>1. p \in Seq(Byte) /\ Len(p) = a - c /\ \A i \in 1..(a - c) : p[i] = s[c + i]
    BY PieceIsPiece
<1> HIDE DEF p
<1>2. CASE n < m
    BY <1>1, <1>2
<1>3. CASE m <= n
    <2> DEFINE q == SubSeq(p, m, n)
               r == SubSeq(s, c + m, c + n)
    <2>1. q \in Seq(Byte) /\ Len(q) = n - m + 1 /\ \A i \in 1..(n - m + 1) : q[i] = p[m + i - 1]
        BY <1>1, <1>3
    <2>2. r \in Seq(Byte) /\ Len(r) = n - m + 1
          /\ \A i \in 1..(n - m + 1) : r[i] = s[c + m + i - 1]
        BY <1>3
    <2> HIDE DEF q, r
    <2>3. \A i \in 1..(n - m + 1) : q[i] = r[i]
        <3> TAKE i \in 1..(n - m + 1)
        <3>1. m + i - 1 \in 1..(a - c)
            BY <1>3
        <3>2. c + (m + i - 1) = c + m + i - 1
            OBVIOUS
        <3> QED
            BY <1>1, <2>1, <2>2, <3>1, <3>2
    <2> QED
        BY <2>1, <2>2, <2>3, SeqEqual DEF q, r
<1> QED
    BY <1>2, <1>3 DEF p

LEMMA TerminatorsOfRest ==
    ASSUME NEW s \in Seq(Byte), NEW a \in 0..Len(s), NEW c \in 0..a
    PROVE  /\ SubSeq(s, c + 1, a) \in Seq(Byte)
           /\ \A t : t \in Terminators(SubSeq(s, c + 1, a))
                        <=> t \in 1..(a - c - 1) /\ Pair(s, c + t + 1)
<1> DEFINE p == SubSeq(s, c + 1, a)
<1>1. p \in Seq(Byte) /\ Len(p) = a - c /\ \A i \in 1..(a - c) : p[i] = s[c + i]
    BY PieceIsPiece
<1> HIDE DEF p
<1>2. \A t \in 1..(a - c - 1) : /\ p[t] = s[c + t + 1 - 1]
                                /\ p[t + 1] = s[c + t + 1]
    <2> TAKE t \in 1..(a - c - 1)
    <2>1. t \in 1..(a - c) /\ t + 1 \in 1..(a - c)
          /\ c + t = c + t + 1 - 1 /\ c + (t + 1) = c + t + 1
        OBVIOUS
    <2>2. p[t] = s[c + t] /\ p[t + 1] = s[c + (t + 1)]
        BY <1>1, <2>1
    <2> QED
        BY <2>1, <2>2
<1>3. \A t : t \in Terminators(p) <=> t \in 1..(a - c - 1) /\ p[t] = NL /\ p[t + 1] = NL
    BY <1>1 DEF Terminators
<1>4. \A t \in 1..(a - c - 1) : Pair(s, c + t + 1) <=> p[t] = NL /\ p[t + 1] = NL
    <2> TAKE t \in 1..(a - c - 1)
    <2>1. s[c + t + 1 - 1] = p[t] /\ s[c + t + 1] = p[t + 1]
        BY <1>2
    <2> QED
        BY <2>1 DEF Pair
<1>5. \A t : t \in Terminators(p) <=> t \in 1..(a - c - 1) /\ Pair(s, c + t + 1)
    BY <1>3, <1>4
<1> QED
    BY <1>1, <1>5 DEF p

\* The buffer is split where the next request ends.
LEMMA SplitAtEnd ==
    ASSUME NEW s \in Seq(Byte), NEW a \in 0..Len(s), NEW c \in 0..a,
           Terminators(SubSeq(s, c + 1, a)) # {}
    PROVE  \E e \in (c + 2)..a :
              /\ Pair(s, e) /\ \A i \in (c + 2)..(e - 1) : ~ Pair(s, i)
              /\ Split(SubSeq(s, c + 1, a)).block = SubSeq(s, c + 1, e - 2)
              /\ Split(SubSeq(s, c + 1, a)).rest = SubSeq(s, e + 1, a)
<1> DEFINE p == SubSeq(s, c + 1, a)
           t == TerminatorAt(p)
           e == c + t + 1
<1>0. p \in Seq(Byte) /\ Len(p) = a - c
    BY PieceIsPiece
<1>1. \A u : u \in Terminators(p) <=> u \in 1..(a - c - 1) /\ Pair(s, c + u + 1)
    BY TerminatorsOfRest
<1>2. t \in Terminators(p) /\ \A u \in Terminators(p) : t <= u
    <2>1. \A q \in Seq(Byte) :
             Terminators(q) # {} => /\ TerminatorAt(q) \in Terminators(q)
                                    /\ \A u \in Terminators(q) : TerminatorAt(q) <= u
        BY FirstTerminator
    <2>2. p \in Seq(Byte) /\ Terminators(p) # {}
        BY <1>0
    <2> QED
        BY <2>1, <2>2
<1>3. t \in 1..(a - c - 1) /\ Pair(s, e)
    BY <1>1, <1>2
<1>4. ASSUME NEW i \in (c + 2)..(e - 1), Pair(s, i) PROVE FALSE
    <2> HIDE DEF p
    <2>1. i - c - 1 \in 1..(a - c - 1) /\ c + (i - c - 1) + 1 = i /\ i - c - 1 < t
        BY <1>3
    <2>2. i - c - 1 \in Terminators(p)
        BY <1>1, <1>4, <2>1
    <2> QED
        BY <1>2, <1>3, <2>1, <2>2
<1>5. SubSeq(p, 1, t - 1) = SubSeq(s, c + 1, e - 2)
    <2>1. 1 \in 1..(a - c + 1) /\ t - 1 \in 0..(a - c) /\ c + (t - 1) = e - 2
        BY <1>3
    <2> HIDE DEF e, t
    <2> QED
        BY <2>1, PieceOfPiece, SMTT(30)
<1>6. SubSeq(p, t + 2, Len(p)) = SubSeq(s, e + 1, a)
    <2>1. /\ t + 2 \in 1..(a - c + 1) /\ a - c \in 0..(a - c)
          /\ c + (t + 2) = e + 1 /\ c + (a - c) = a
        BY <1>3
    <2> HIDE DEF e, t
    <2>2. SubSeq(p, t + 2, a - c) = SubSeq(s, c + (t + 2), c + (a - c))
        BY <2>1, PieceOfPiece
    <2> QED
        BY <1>0, <2>1, <2>2
<1>7. e \in (c + 2)..a
    BY <1>3
<1>8. Split(p).block = SubSeq(s, c + 1, e - 2) /\ Split(p).rest = SubSeq(s, e + 1, a)
    BY <1>5, <1>6 DEF Split
<1>9. \A i \in (c + 2)..(e - 1) : ~ Pair(s, i)
    BY <1>4
<1> HIDE DEF e
<1> QED
    BY <1>3, <1>7, <1>8, <1>9

(***************************************************************************)
(* The types are kept by every step.                                       *)
(***************************************************************************)

Types == TypeOK /\ replies \in Seq(SUBSET Seq(Byte))

LEMMA SplitType ==
    ASSUME NEW bytes \in Seq(Byte), Terminators(bytes) # {}
    PROVE  Split(bytes).block \in Seq(Byte) /\ Split(bytes).rest \in Seq(Byte)
<1> DEFINE t == TerminatorAt(bytes)
<1>1. t \in 1..(Len(bytes) - 1)
    BY FirstTerminator DEF Terminators
<1>2. /\ 1 \in Int /\ t - 1 \in Int /\ t + 2 \in Int /\ Len(bytes) \in Int
      /\ \A i \in 1..(t - 1) : bytes[i] \in Byte
      /\ \A i \in (t + 2)..Len(bytes) : bytes[i] \in Byte
    BY <1>1
<1>3. SubSeq(bytes, 1, t - 1) \in Seq(Byte) /\ SubSeq(bytes, t + 2, Len(bytes)) \in Seq(Byte)
    <2> HIDE DEF t
    <2> QED
        BY <1>2, SubSeqProperties
<1> QED
    BY <1>3 DEF Split

LEMMA LinesAreBytes ==
    ASSUME NEW block \in Seq(Byte)
    PROVE  LinesOf(block) \subseteq Seq(Byte)
<1> SUFFICES ASSUME NEW line \in LinesOf(block) PROVE line \in Seq(Byte)
    OBVIOUS
<1>1. PICK p \in Cuts(block) \X Cuts(block) : line = SubSeq(block, p[1] + 1, p[2] - 1)
    BY DEF LinesOf
<1>2. p[1] \in 0..(Len(block) + 1) /\ p[2] \in 0..(Len(block) + 1)
    BY DEF Cuts
<1>3. /\ p[1] + 1 \in Int /\ p[2] - 1 \in Int
      /\ \A i \in (p[1] + 1)..(p[2] - 1) : block[i] \in Byte
    BY <1>2
<1> QED
    BY <1>1, <1>3, SubSeqProperties

LEMMA TypesInit == Init => Types
<1> SUFFICES ASSUME Init PROVE Types
    OBVIOUS
<1>1. sent = << >> /\ buf = << >> /\ replies = << >> /\ taken = 0 /\ arrived = 0
    BY DEF Init
<1>2. sent \in Seq(Byte) /\ buf \in Seq(Byte) /\ replies \in Seq(SUBSET Seq(Byte))
    BY <1>1
<1>3. Len(replies) = 0 /\ Len(sent) = 0 /\ DOMAIN replies = {}
    BY <1>1
<1>4. taken \in 0..Len(replies) /\ arrived \in 0..Len(sent)
    BY <1>1, <1>3
<1> QED
    BY <1>2, <1>3, <1>4 DEF Init, Types, TypeOK, AtWork

LEMMA TypesNext == Types /\ [Next]_vars => Types'
<1> SUFFICES ASSUME Types, [Next]_vars PROVE Types'
    OBVIOUS
<1> USE DEF Types, TypeOK, AtWork
<1>1. CASE ClientWrite
    <2>1. PICK b \in Byte : sent' = Append(sent, b)
        BY <1>1 DEF ClientWrite
    <2>2. sent' \in Seq(Byte) /\ Len(sent') = Len(sent) + 1 /\ Len(sent) \in Nat
        BY <2>1, AppendProperties
    <2>3. arrived \in 0..Len(sent')
        BY <2>2
    <2> QED
        BY <1>1, <2>2, <2>3 DEF ClientWrite
<1>2. CASE ClientHangUp
    BY <1>2 DEF ClientHangUp
<1>3. CASE ClientBreakOff
    BY <1>3 DEF ClientBreakOff
<1>4. CASE ClientRead
    <2>1. taken' \in 0..Len(replies)
        BY <1>4 DEF ClientRead
    <2> QED
        BY <1>4, <2>1 DEF ClientRead
<1>5. CASE Shutdown
    BY <1>5 DEF Shutdown, client
<1>6. CASE ReadBytes
    <2>1. PICK n \in (arrived + 1)..Len(sent) :
             buf' = buf \o SubSeq(sent, arrived + 1, n) /\ arrived' = n
        BY <1>6 DEF ReadBytes
    <2>2. SubSeq(sent, arrived + 1, n) \in Seq(Byte)
        <3>1. arrived + 1 \in Int /\ n \in Int /\ \A i \in (arrived + 1)..n : sent[i] \in Byte
            OBVIOUS
        <3> QED
            BY <3>1, SubSeqProperties
    <2>3. buf' \in Seq(Byte) /\ arrived' \in 0..Len(sent)
        BY <2>1, <2>2
    <2> QED
        BY <1>6, <2>3 DEF ReadBytes, client
<1>7. CASE ReadEof
    BY <1>7 DEF ReadEof, client
<1>8. CASE ReadFails
    BY <1>8 DEF ReadFails, Starved, client
<1>9. CASE Decode
    <2> DEFINE lines == LinesOf(Split(buf).block)
    <2>1. Split(buf).block \in Seq(Byte) /\ buf' \in Seq(Byte)
        BY <1>9, SplitType DEF Decode
    <2>2. lines \subseteq Seq(Byte)
        BY <2>1, LinesAreBytes
    <2>3. \/ pc' = "closed" /\ req' = req
          \/ pc' = "handle" /\ req' = lines /\ lines # {}
        BY <1>9 DEF Decode, Rejects
    <2> HIDE DEF lines
    <2>4. /\ pc' \in {"next", "handle", "send", "closed"}
          /\ req' \subseteq Seq(Byte) /\ (AtWork' => req' # {})
        BY <2>2, <2>3
    <2> QED
        BY <1>9, <2>1, <2>4 DEF Decode, client
<1>10. CASE DecodeEof
    BY <1>10 DEF DecodeEof, client
<1>11. CASE SeeShutdown
    BY <1>11 DEF SeeShutdown, client
<1>12. CASE HandleRequest
    BY <1>12 DEF HandleRequest, client
<1>13. CASE Send
    <2>1. /\ replies' = Append(replies, req) /\ req \in SUBSET Seq(Byte) /\ req # {}
          /\ pc' = "next" /\ req' = {} /\ taken' = taken
        BY <1>13 DEF Send, client
    <2>2. /\ replies' \in Seq(SUBSET Seq(Byte)) /\ Len(replies') = Len(replies) + 1
          /\ Len(replies) \in Nat
          /\ \A i \in 1..Len(replies) : replies'[i] = replies[i]
          /\ replies'[Len(replies) + 1] = req
        BY <2>1, AppendProperties
    <2>3. \A i \in DOMAIN replies' : replies'[i] \subseteq Seq(Byte) /\ replies'[i] # {}
        <3>1. \A i \in DOMAIN replies' : i \in 1..Len(replies) \/ i = Len(replies) + 1
            BY <2>2
        <3>2. \A i \in 1..Len(replies) : replies[i] \subseteq Seq(Byte) /\ replies[i] # {}
            OBVIOUS
        <3> QED
            BY <2>1, <2>2, <3>1, <3>2
    <2>4. taken' \in 0..Len(replies')
        BY <2>1, <2>2
    <2> QED
        BY <1>13, <2>1, <2>2, <2>3, <2>4 DEF Send, client
<1>14. CASE SendFails
    BY <1>14 DEF SendFails, client
<1>15. CASE UNCHANGED vars
    BY <1>15 DEF vars
<1> QED
    BY <1>1, <1>2, <1>3, <1>4, <1>5, <1>6, <1>7, <1>8, <1>9, <1>10, <1>11, <1>12,
       <1>13, <1>14, <1>15 DEF Next, Task

\* The state of a connection has its types, and a request at hand or answered
\* has at least one line.
THEOREM ConnectionTypes == Spec => []TypeOK
<1>1. Types => TypeOK
    BY DEF Types
<1> QED
    BY <1>1, TypesInit, TypesNext, PTL DEF Spec

(***************************************************************************)
(* The inductive invariant.                                                *)
(***************************************************************************)

\* The buffer is what has arrived after c.
Rest(c) == c <= arrived /\ buf = SubSeq(sent, c + 1, arrived)

\* Between two requests the buffer begins where the ones answered have ended.
NextInv ==
    pc = "next" => \E c : Cut(sent, Len(replies), c) /\ Rest(c)

\* While one is at work, it is what lies between the ones answered and the
\* buffer, and it is well formed.
WorkInv ==
    AtWork => \E c, e :
        /\ Cut(sent, Len(replies), c) /\ Cut(sent, Len(replies) + 1, e) /\ Rest(e)
        /\ Promise!WellFormed(SubSeq(sent, c + 1, e - 2))
        /\ req = Promise!Lines(SubSeq(sent, c + 1, e - 2))

\* The end of the stream is read when all of it has been.
EofInv == eof => hungup /\ arrived = Len(sent)

StreamInv == Types /\ NextInv /\ WorkInv /\ EofInv

\* A block between two places of the stream stays what it is.
LEMMA BlockStays ==
    ASSUME NEW s \in Seq(Byte), NEW b \in Byte, NEW m \in Nat, NEW n \in Int, n <= Len(s)
    PROVE  SubSeq(Append(s, b), m + 1, n) = SubSeq(s, m + 1, n)
<1> DEFINE p == SubSeq(Append(s, b), m + 1, n)
           q == SubSeq(s, m + 1, n)
<1>1. /\ m + 1 \in Int /\ n \in Int
      /\ \A i \in (m + 1)..n : Append(s, b)[i] = s[i] /\ s[i] \in Byte
    OBVIOUS
<1>2. p \in Seq(Byte) /\ Len(p) = IF m + 1 <= n THEN n - (m + 1) + 1 ELSE 0
    BY <1>1, SubSeqProperties
<1>3. q \in Seq(Byte) /\ Len(q) = IF m + 1 <= n THEN n - (m + 1) + 1 ELSE 0
    BY <1>1, SubSeqProperties
<1>4. \A i \in 1..(n - (m + 1) + 1) : /\ p[i] = Append(s, b)[m + 1 + i - 1]
                                      /\ q[i] = s[m + 1 + i - 1]
    BY <1>1, SubSeqProperties
<1> HIDE DEF p, q
<1>5. \A i \in 1..Len(p) : p[i] = q[i]
    <2> TAKE i \in 1..Len(p)
    <2>1. i \in 1..(n - (m + 1) + 1) /\ m + 1 + i - 1 \in (m + 1)..n
        BY <1>2
    <2> QED
        BY <1>1, <1>4, <2>1
<1>6. Len(p) = Len(q)
    BY <1>2, <1>3
<1> QED
    BY <1>2, <1>3, <1>5, <1>6, SeqEqual DEF p, q

\* A cut is a place of the stream.
LEMMA CutIsPlace ==
    ASSUME NEW s \in Seq(Byte), NEW n, NEW c, Cut(s, n, c)
    PROVE  c \in 0..Len(s) /\ c \in {0} \cup Promise!Ends(s)
BY DEF Cut, Promise!Ends

\* The codec accepts the blocks that are well formed.
LEMMA AcceptsWellFormed ==
    ASSUME NEW block \in Seq(Byte)
    PROVE  Rejects(LinesOf(block)) <=> ~ Promise!WellFormed(block)
BY LinesAgree DEF Rejects, Promise!WellFormed, ToSet

LEMMA StreamInit == Init => StreamInv
<1> SUFFICES ASSUME Init PROVE StreamInv
    OBVIOUS
<1>1. Promise!Ends(sent) = {}
    BY DEF Init, Promise!Ends
<1>2. Cut(sent, Len(replies), 0)
    <2>1. Until(sent, 0) = {}
        BY <1>1 DEF Until
    <2>2. Cardinality(Until(sent, 0)) = 0
        BY <2>1, FS_EmptySet
    <2>3. Len(replies) = 0
        BY DEF Init
    <2> QED
        BY <2>2, <2>3 DEF Cut
<1>3. Rest(0)
    BY DEF Init, Rest
<1> QED
    BY <1>2, <1>3, TypesInit DEF Init, StreamInv, NextInv, WorkInv, EofInv, AtWork

\* What the client writes, and what the task reads of it, belongs after every
\* cut there is.
LEMMA RestStays ==
    ASSUME Types, NEW b \in Byte, sent' = Append(sent, b),
           UNCHANGED <<arrived, buf>>,
           NEW n, NEW c, Cut(sent, n, c), Rest(c)
    PROVE  Cut(sent', n, c) /\ Rest(c)'
<1>1. sent \in Seq(Byte) /\ arrived \in 0..Len(sent)
    BY DEF Types, TypeOK
<1>2. Cut(sent', n, c)
    BY <1>1, CutStays
<1>3. c \in Nat /\ arrived \in Int /\ arrived <= Len(sent)
    BY <1>1, CutIsPlace
<1>4. SubSeq(sent', c + 1, arrived) = SubSeq(sent, c + 1, arrived)
    BY <1>1, <1>3, BlockStays
<1> QED
    BY <1>2, <1>4 DEF Rest

LEMMA RestReads ==
    ASSUME Types, NEW c \in Nat, Rest(c), NEW n \in (arrived + 1)..Len(sent),
           buf' = buf \o SubSeq(sent, arrived + 1, n), arrived' = n, sent' = sent
    PROVE  Rest(c)'
<1>1. sent \in Seq(Byte) /\ arrived \in 0..Len(sent) /\ c <= arrived
    BY DEF Types, TypeOK, Rest
<1>2. /\ c + 1 \in 1..(Len(sent) + 1) /\ arrived \in (c + 1 - 1)..Len(sent)
      /\ n \in arrived..Len(sent) /\ c <= n
    BY <1>1
<1>3. SubSeq(sent, c + 1, arrived) \o SubSeq(sent, arrived + 1, n) = SubSeq(sent, c + 1, n)
    BY <1>1, <1>2, ConcatAdjacentSubSeq
<1> QED
    BY <1>2, <1>3 DEF Rest

\* The codec cuts the buffer where the next request ends.
LEMMA DecodeCuts ==
    ASSUME Types, NEW c, Cut(sent, Len(replies), c), Rest(c), Terminators(buf) # {}
    PROVE  \E e : /\ Cut(sent, Len(replies) + 1, e) /\ c + 2 <= e /\ e <= arrived
                  /\ Split(buf).block = SubSeq(sent, c + 1, e - 2)
                  /\ Split(buf).rest = SubSeq(sent, e + 1, arrived)
<1>1. sent \in Seq(Byte) /\ arrived \in 0..Len(sent) /\ Len(replies) \in Nat
    BY DEF Types, TypeOK
<1>2. c \in 0..arrived /\ buf = SubSeq(sent, c + 1, arrived)
    BY <1>1, CutIsPlace DEF Rest
<1>3. PICK e \in (c + 2)..arrived :
         /\ Pair(sent, e) /\ \A i \in (c + 2)..(e - 1) : ~ Pair(sent, i)
         /\ Split(buf).block = SubSeq(sent, c + 1, e - 2)
         /\ Split(buf).rest = SubSeq(sent, e + 1, arrived)
    <2>1. Terminators(SubSeq(sent, c + 1, arrived)) # {}
        BY <1>2
    <2>2. \E e \in (c + 2)..arrived :
             /\ Pair(sent, e) /\ \A i \in (c + 2)..(e - 1) : ~ Pair(sent, i)
             /\ Split(SubSeq(sent, c + 1, arrived)).block = SubSeq(sent, c + 1, e - 2)
             /\ Split(SubSeq(sent, c + 1, arrived)).rest = SubSeq(sent, e + 1, arrived)
        BY <1>1, <1>2, <2>1, SplitAtEnd, SMTT(30)
    <2> QED
        BY <1>2, <2>2
<1>4. e \in (c + 2)..Len(sent)
    BY <1>1, <1>2
<1>5. Cut(sent, Len(replies) + 1, e)
    BY <1>1, <1>3, <1>4, CutGrows
<1>6. c + 2 <= e /\ e <= arrived
    BY <1>1, <1>2
<1> QED
    BY <1>3, <1>5, <1>6

LEMMA StreamNext == StreamInv /\ [Next]_vars => StreamInv'
<1> SUFFICES ASSUME StreamInv, [Next]_vars PROVE StreamInv'
    OBVIOUS
<1>0. Types /\ Types' /\ NextInv /\ WorkInv /\ EofInv
    BY TypesNext DEF StreamInv
<1>00. sent \in Seq(Byte) /\ arrived \in 0..Len(sent) /\ Len(replies) \in Nat
    BY <1>0 DEF Types, TypeOK
<1> SUFFICES NextInv' /\ WorkInv' /\ EofInv'
    BY <1>0 DEF StreamInv
<1> USE DEF AtWork
\* Steps that leave the stream and the task's place in it alone.
<1>1. ASSUME UNCHANGED <<sent, replies, arrived, buf, pc, req>>
      PROVE  NextInv' /\ WorkInv'
    BY <1>0, <1>1 DEF NextInv, WorkInv, Rest
<1>2. ASSUME pc' = "closed" PROVE NextInv' /\ WorkInv'
    BY <1>2 DEF NextInv, WorkInv
<1>3. ASSUME UNCHANGED <<sent, arrived, eof>>, hungup => hungup' PROVE EofInv'
    BY <1>0, <1>3 DEF EofInv
<1>4. CASE ClientWrite
    <2>1. PICK b \in Byte : sent' = Append(sent, b)
        BY <1>4 DEF ClientWrite
    <2>2. UNCHANGED <<hungup, replies, arrived, buf, eof, pc, req>> /\ ~hungup
        BY <1>4 DEF ClientWrite
    <2>3. NextInv'
        <3> SUFFICES ASSUME pc = "next" PROVE NextInv'
            BY <2>2 DEF NextInv
        <3>1. PICK c : Cut(sent, Len(replies), c) /\ Rest(c)
            BY <1>0 DEF NextInv
        <3>2. Cut(sent', Len(replies), c) /\ Rest(c)'
            BY <1>0, <2>1, <2>2, <3>1, RestStays
        <3> QED
            BY <2>2, <3>2 DEF NextInv
    <2>4. WorkInv'
        <3> SUFFICES ASSUME AtWork PROVE WorkInv'
            BY <2>2 DEF WorkInv
        <3>1. PICK c, e :
                 /\ Cut(sent, Len(replies), c) /\ Cut(sent, Len(replies) + 1, e) /\ Rest(e)
                 /\ Promise!WellFormed(SubSeq(sent, c + 1, e - 2))
                 /\ req = Promise!Lines(SubSeq(sent, c + 1, e - 2))
            BY <1>0 DEF WorkInv
        <3>2. Cut(sent', Len(replies), c)
            BY <1>00, <2>1, <3>1, CutStays
        <3>3. Cut(sent', Len(replies) + 1, e) /\ Rest(e)'
            BY <1>0, <2>1, <2>2, <3>1, RestStays
        <3>4. c \in Nat /\ e \in 0..Len(sent)
            BY <1>00, <3>1, CutIsPlace
        <3>5. SubSeq(sent', c + 1, e - 2) = SubSeq(sent, c + 1, e - 2)
            <4>1. e - 2 \in Int /\ e - 2 <= Len(sent)
                BY <1>00, <3>4
            <4> QED
                BY <1>00, <2>1, <3>4, <4>1, BlockStays
        <3> QED
            BY <2>2, <3>1, <3>2, <3>3, <3>5 DEF WorkInv
    <2>5. EofInv'
        BY <1>0, <2>2 DEF EofInv
    <2> QED
        BY <2>3, <2>4, <2>5
<1>5. CASE ClientHangUp \/ ClientBreakOff \/ ClientRead \/ Shutdown
    <2>1. UNCHANGED <<sent, replies, arrived, buf, eof, pc, req>> /\ (hungup => hungup')
        BY <1>5 DEF ClientHangUp, ClientBreakOff, ClientRead, Shutdown, client
    <2> QED
        BY <1>1, <1>3, <2>1
<1>6. CASE ReadBytes
    <2>1. PICK n \in (arrived + 1)..Len(sent) :
             buf' = buf \o SubSeq(sent, arrived + 1, n) /\ arrived' = n
        BY <1>6 DEF ReadBytes
    <2>2. UNCHANGED <<sent, hungup, replies, eof, pc, req>> /\ pc = "next" /\ ~eof
        BY <1>6 DEF ReadBytes, Starved, client
    <2>3. PICK c : Cut(sent, Len(replies), c) /\ Rest(c)
        BY <1>0, <2>2 DEF NextInv
    <2>4. c \in Nat
        BY <1>00, <2>3, CutIsPlace
    <2>5. Rest(c)'
        BY <1>0, <2>1, <2>2, <2>3, <2>4, RestReads
    <2> QED
        BY <2>2, <2>3, <2>5 DEF NextInv, WorkInv, EofInv
<1>7. CASE ReadEof
    <2>1. UNCHANGED <<sent, hungup, replies, arrived, buf, pc, req>>
          /\ hungup /\ arrived = Len(sent)
        BY <1>7 DEF ReadEof, client
    <2> QED
        BY <1>1, <2>1 DEF EofInv
<1>8. CASE ReadFails \/ DecodeEof \/ SeeShutdown \/ SendFails
    <2>1. pc' = "closed" /\ UNCHANGED <<sent, hungup, arrived, eof>>
        BY <1>8 DEF ReadFails, DecodeEof, SeeShutdown, SendFails, client
    <2> QED
        BY <1>2, <1>3, <2>1
<1>9. CASE Decode
    <2>1. /\ UNCHANGED <<sent, hungup, replies, arrived, eof>>
          /\ pc = "next" /\ Terminators(buf) # {} /\ buf' = Split(buf).rest
        BY <1>9 DEF Decode, client
    <2>2. PICK c : Cut(sent, Len(replies), c) /\ Rest(c)
        BY <1>0, <2>1 DEF NextInv
    <2>3. PICK e : /\ Cut(sent, Len(replies) + 1, e) /\ c + 2 <= e /\ e <= arrived
                   /\ Split(buf).block = SubSeq(sent, c + 1, e - 2)
                   /\ Split(buf).rest = SubSeq(sent, e + 1, arrived)
        BY <1>0, <2>1, <2>2, DecodeCuts
    <2>4. Rest(e)'
        BY <2>1, <2>3 DEF Rest
    <2>5. CASE Rejects(LinesOf(Split(buf).block))
        BY <1>2, <1>3, <1>9, <2>1, <2>5 DEF Decode
    <2>6. CASE ~ Rejects(LinesOf(Split(buf).block))
        <3>1. pc' = "handle" /\ req' = LinesOf(Split(buf).block)
            BY <1>9, <2>6 DEF Decode
        <3>2. Split(buf).block \in Seq(Byte)
            BY <1>0, <2>1, SplitType DEF Types, TypeOK
        <3>3. /\ Promise!WellFormed(SubSeq(sent, c + 1, e - 2))
              /\ req' = Promise!Lines(SubSeq(sent, c + 1, e - 2))
            BY <2>3, <2>6, <3>1, <3>2, AcceptsWellFormed, LinesAgree
        <3>4. NextInv'
            BY <3>1 DEF NextInv
        <3>5. WorkInv'
            BY <2>1, <2>2, <2>3, <2>4, <3>3 DEF WorkInv
        <3> QED
            BY <1>3, <2>1, <3>4, <3>5
    <2> QED
        BY <2>5, <2>6
<1>10. CASE HandleRequest
    <2>1. UNCHANGED <<sent, hungup, replies, arrived, buf, eof, req>>
          /\ pc = "handle" /\ pc' = "send"
        BY <1>10 DEF HandleRequest, client
    <2>2. WorkInv'
        BY <1>0, <2>1 DEF WorkInv, Rest
    <2> QED
        BY <1>3, <2>1, <2>2 DEF NextInv
<1>11. CASE Send
    <2>1. /\ UNCHANGED <<sent, hungup, arrived, buf, eof>>
          /\ pc = "send" /\ pc' = "next" /\ replies' = Append(replies, req)
        BY <1>11 DEF Send, client
    <2>2. Len(replies') = Len(replies) + 1
        BY <1>0, <2>1, AppendProperties DEF Types, TypeOK
    <2>3. PICK e : Cut(sent, Len(replies) + 1, e) /\ Rest(e)
        BY <1>0, <2>1 DEF WorkInv
    <2>4. Cut(sent', Len(replies'), e) /\ Rest(e)'
        BY <2>1, <2>2, <2>3 DEF Rest
    <2>5. NextInv' /\ WorkInv'
        BY <2>1, <2>4 DEF NextInv, WorkInv
    <2> QED
        BY <1>3, <2>1, <2>5
<1>12. CASE UNCHANGED vars
    BY <1>1, <1>3, <1>12 DEF vars
<1> QED
    BY <1>4, <1>5, <1>6, <1>7, <1>8, <1>9, <1>10, <1>11, <1>12 DEF Next, Task

\* The buffer begins where a request of the stream has ended, however the bytes
\* arrive: no byte of a request is lost, repeated or given to its neighbour.
THEOREM StreamInvariance == Spec => []StreamInv
BY StreamInit, StreamNext, PTL DEF Spec

\* What the codec has cut off is whole requests and no byte more, and what is
\* left of the bytes that arrived is in the buffer (codec.rs:27-33).
THEOREM BufferRest == Spec => []BufferIsTheRest
<1>1. StreamInv => BufferIsTheRest
    <2> SUFFICES ASSUME StreamInv, pc # "closed" PROVE BufferIsTheRest
        BY DEF BufferIsTheRest
    <2>1. /\ sent \in Seq(Byte) /\ Len(replies) \in Nat /\ Len(replies) + 1 \in Nat
          /\ pc \in {"next", "handle", "send"}
        BY DEF StreamInv, Types, TypeOK
    <2>2. CASE pc = "next"
        <3>1. PICK c : Cut(sent, Len(replies), c) /\ Rest(c)
            BY <2>2 DEF StreamInv, NextInv
        <3>2. Promise!EndOf(sent, Len(replies)) = c
            BY <2>1, <3>1, EndOfCut
        <3>3. Len(replies) + (IF AtWork THEN 1 ELSE 0) = Len(replies)
            BY <2>1, <2>2 DEF AtWork
        <3> QED
            BY <3>1, <3>2, <3>3 DEF BufferIsTheRest, Rest
    <2>3. CASE AtWork
        <3>1. PICK e : Cut(sent, Len(replies) + 1, e) /\ Rest(e)
            BY <2>3 DEF StreamInv, WorkInv
        <3>2. Promise!EndOf(sent, Len(replies) + 1) = e
            BY <2>1, <3>1, EndOfCut
        <3> QED
            BY <2>3, <3>1, <3>2 DEF BufferIsTheRest, Rest
    <2> QED
        BY <2>1, <2>2, <2>3 DEF AtWork
<1> QED
    BY <1>1, StreamInvariance, PTL

(***************************************************************************)
(* The refinement of PolicyStream, step by step.                           *)
(***************************************************************************)

\* A request that has been cut off is the next one of the stream.
LEMMA NextRequest ==
    ASSUME sent \in Seq(Byte), Len(replies) \in Nat, NEW c, NEW e,
           Cut(sent, Len(replies), c), Cut(sent, Len(replies) + 1, e)
    PROVE  /\ Promise!Whole(Promise!NextOne)
           /\ Promise!Block(sent, Promise!NextOne) = SubSeq(sent, c + 1, e - 2)
<1>1. Len(replies) + 1 \in Nat /\ Len(replies) + 1 - 1 = Len(replies)
    OBVIOUS
<1>2. Promise!EndOf(sent, Len(replies)) = c /\ Promise!EndOf(sent, Len(replies) + 1) = e
    BY <1>1, EndOfCut
<1>3. Len(replies) + 1 <= Cardinality(Promise!Ends(sent))
    BY <1>1, CutIsWhole
<1>4. Promise!Whole(Promise!NextOne)
    BY <1>3, SameCardinality DEF Promise!Whole, Promise!NextOne
<1>5. Promise!Block(sent, Len(replies) + 1) = SubSeq(sent, c + 1, e - 2)
    <2> DEFINE n == Len(replies) + 1
    <2>1. n - 1 = Len(replies)
        BY <1>1
    <2>2. Promise!EndOf(sent, n) = e
        BY <1>2
    <2> HIDE DEF n
    <2>3. Promise!EndOf(sent, n - 1) = c
        BY <1>2, <2>1
    <2>4. Promise!Block(sent, n) = SubSeq(sent, c + 1, e - 2)
        BY <2>2, <2>3 DEF Promise!Block
    <2> QED
        BY <2>4 DEF n
<1> QED
    BY <1>4, <1>5 DEF Promise!NextOne

\* Where the buffer holds no terminator and nothing more can come, the next
\* request is not there.
LEMMA NothingMore ==
    ASSUME Types, NEW c, Cut(sent, Len(replies), c), Rest(c),
           Terminators(buf) = {}, arrived = Len(sent)
    PROVE  ~ Promise!Whole(Promise!NextOne)
<1>1. sent \in Seq(Byte) /\ arrived \in 0..Len(sent) /\ Len(replies) \in Nat
    BY DEF Types, TypeOK
<1>2. c \in 0..arrived /\ buf = SubSeq(sent, c + 1, arrived)
    BY <1>1, CutIsPlace DEF Rest
<1>3. Terminators(SubSeq(sent, c + 1, arrived)) = {}
    BY <1>2
<1>4. \A t \in 1..(arrived - c - 1) : ~ Pair(sent, c + t + 1)
    BY <1>1, <1>2, <1>3, TerminatorsOfRest
<1>5. \A i \in (c + 2)..Len(sent) : ~ Pair(sent, i)
    <2> TAKE i \in (c + 2)..Len(sent)
    <2>1. i - c - 1 \in 1..(arrived - c - 1) /\ c + (i - c - 1) + 1 = i
        BY <1>1, <1>2
    <2>2. ~ Pair(sent, c + (i - c - 1) + 1)
        BY <1>4, <2>1
    <2> QED
        BY <2>1, <2>2
<1>6. Cardinality(Promise!Ends(sent)) = Len(replies)
    BY <1>1, <1>5, CutIsWhole
<1>7. ~ (Len(replies) + 1 <= Len(replies))
    BY <1>1
<1> QED
    BY <1>6, <1>7, SameCardinality DEF Promise!Whole, Promise!NextOne

LEMMA StreamStep == StreamInv /\ [Next]_vars => [Promise!Next]_(Promise!vars)
<1> SUFFICES ASSUME StreamInv, [Next]_vars PROVE [Promise!Next]_(Promise!vars)
    OBVIOUS
<1>0. Types /\ NextInv /\ WorkInv /\ EofInv
    BY DEF StreamInv
<1>00. sent \in Seq(Byte) /\ Len(replies) \in Nat
    BY <1>0 DEF Types, TypeOK
<1> USE DEF AtWork
\* Steps inside the task.
<1>1. ASSUME UNCHANGED <<sent, hungup, gone, stopping, replies>>,
             pc # "closed", pc' # "closed"
      PROVE  UNCHANGED Promise!vars
    BY <1>1 DEF Promise!vars
<1>2. ASSUME UNCHANGED <<sent, hungup, gone, stopping, replies>>,
             pc # "closed", pc' = "closed",
             \/ stopping
             \/ gone
             \/ Promise!Whole(Promise!NextOne)
                /\ ~ Promise!WellFormed(Promise!Block(sent, Promise!NextOne))
             \/ hungup /\ ~ Promise!Whole(Promise!NextOne)
      PROVE  Promise!Close
    BY <1>2 DEF Promise!Close
<1>3. CASE ClientWrite
    BY <1>3 DEF ClientWrite, Promise!Write, Promise!Next
<1>4. CASE ClientHangUp
    BY <1>4 DEF ClientHangUp, Promise!HangUp, Promise!Next
<1>5. CASE ClientBreakOff
    BY <1>5 DEF ClientBreakOff, Promise!BreakOff, Promise!Next
<1>6. CASE ClientRead
    BY <1>6 DEF ClientRead, Promise!vars
<1>7. CASE Shutdown
    BY <1>7 DEF Shutdown, client, Promise!Stop, Promise!Next
<1>8. CASE ReadBytes \/ ReadEof
    BY <1>1, <1>8 DEF ReadBytes, ReadEof, Starved, client
<1>9. CASE ReadFails \/ SendFails
    BY <1>2, <1>9 DEF ReadFails, SendFails, Starved, client, Promise!Next
<1>10. CASE SeeShutdown
    BY <1>2, <1>10 DEF SeeShutdown, client, Promise!Next
<1>11. CASE Decode
    <2>1. /\ UNCHANGED <<sent, hungup, gone, stopping, replies>>
          /\ pc = "next" /\ Terminators(buf) # {}
        BY <1>11 DEF Decode, client
    <2>2. CASE Rejects(LinesOf(Split(buf).block))
        <3>1. PICK c : Cut(sent, Len(replies), c) /\ Rest(c)
            BY <1>0, <2>1 DEF NextInv
        <3>2. PICK e : Cut(sent, Len(replies) + 1, e)
                       /\ Split(buf).block = SubSeq(sent, c + 1, e - 2)
            BY <1>0, <2>1, <3>1, DecodeCuts
        <3>3. Promise!Whole(Promise!NextOne)
              /\ Promise!Block(sent, Promise!NextOne) = Split(buf).block
            BY <1>00, <3>1, <3>2, NextRequest
        <3>4. Split(buf).block \in Seq(Byte)
            BY <1>0, <2>1, SplitType DEF Types, TypeOK
        <3>5. ~ Promise!WellFormed(Split(buf).block)
            BY <2>2, <3>4, AcceptsWellFormed
        <3>6. pc' = "closed"
            BY <1>11, <2>2 DEF Decode
        <3> QED
            BY <1>2, <2>1, <3>3, <3>5, <3>6 DEF Promise!Next
    <2>3. CASE ~ Rejects(LinesOf(Split(buf).block))
        BY <1>1, <1>11, <2>1, <2>3 DEF Decode
    <2> QED
        BY <2>2, <2>3
<1>12. CASE DecodeEof
    <2>1. /\ UNCHANGED <<sent, hungup, gone, stopping, replies>>
          /\ pc = "next" /\ pc' = "closed" /\ Terminators(buf) = {} /\ eof
        BY <1>12 DEF DecodeEof, client
    <2>2. PICK c : Cut(sent, Len(replies), c) /\ Rest(c)
        BY <1>0, <2>1 DEF NextInv
    <2>3. hungup /\ ~ Promise!Whole(Promise!NextOne)
        BY <1>0, <2>1, <2>2, NothingMore DEF EofInv
    <2> QED
        BY <1>2, <2>1, <2>3 DEF Promise!Next
<1>13. CASE HandleRequest
    BY <1>1, <1>13 DEF HandleRequest, client
<1>14. CASE Send
    <2>1. /\ UNCHANGED <<sent, hungup, gone, stopping>>
          /\ pc = "send" /\ pc' = "next" /\ replies' = Append(replies, req)
        BY <1>14 DEF Send, client
    <2>2. PICK c, e :
             /\ Cut(sent, Len(replies), c) /\ Cut(sent, Len(replies) + 1, e)
             /\ Promise!WellFormed(SubSeq(sent, c + 1, e - 2))
             /\ req = Promise!Lines(SubSeq(sent, c + 1, e - 2))
        BY <1>0, <2>1 DEF WorkInv
    <2>3. Promise!Whole(Promise!NextOne)
          /\ Promise!Block(sent, Promise!NextOne) = SubSeq(sent, c + 1, e - 2)
        BY <1>00, <2>2, NextRequest
    <2>4. Promise!Answer
        BY <2>1, <2>2, <2>3 DEF Promise!Answer
    <2> QED
        BY <2>4 DEF Promise!Next
<1>15. CASE UNCHANGED vars
    BY <1>15 DEF vars, Promise!vars
<1> QED
    BY <1>3, <1>4, <1>5, <1>6, <1>7, <1>8, <1>9, <1>10, <1>11, <1>12, <1>13, <1>14,
       <1>15 DEF Next, Task

\* The safety part of PolicyStream's promise: each request of the stream is
\* answered at most once, in order and as it was written, and the connection is
\* closed on nothing but the causes PolicyStream lists (server.rs:157-186).
THEOREM StreamKept == Spec => Promise!Init /\ [][Promise!Next]_(Promise!vars)
<1>1. Init => Promise!Init
    BY DEF Init, Promise!Init
<1> QED
    BY <1>1, StreamInvariance, StreamStep, PTL DEF Spec
=============================================================================
