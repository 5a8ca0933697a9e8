------------------------- MODULE JSONLStoreProof ---------------------------
(* What is proved of JSONLStore for every number of messages, legacy         *)
(* messages and faults, and every keepLast.                                  *)
EXTENDS JSONLStore, FiniteSetTheorems, SequenceTheorems, WellFoundedInduction, TLAPS

-----------------------------------------------------------------------------
(* The n-th of the lines that parse.                                         *)

(* A set of numbers that is not empty has a least one.                       *)
LEMMA LeastExists ==
    ASSUME NEW S \in SUBSET Nat, S # {}
    PROVE  \E x \in S : \A y \in S : x <= y
  <1>1. PICK x \in S : \A y \in S : ~(<<y, x>> \in OpToRel(<, Nat))
    BY NatLessThanWellFounded, WFMin
  <1>2. ASSUME NEW y \in S PROVE x <= y
    <2>1. <<y, x>> \in Nat \X Nat /\ ~(<<y, x>> \in OpToRel(<, Nat))
      BY <1>1
    <2>2. OpToRel(<, Nat) = {ss \in Nat \X Nat : ss[1] < ss[2]}
      BY DEF OpToRel
    <2>3. ~(y < x)
      BY <2>1, <2>2
    <2>4. QED
      BY <2>3
  <1>3. QED
    BY <1>2

(* Parts of a file's line numbers are finite.                                *)
LEMMA UptoType ==
    ASSUME NEW l \in Nat, NEW S \in SUBSET (1 .. l), NEW i
    PROVE  /\ IsFiniteSet(S) /\ Cardinality(S) \in Nat
           /\ IsFiniteSet(Upto(S, i)) /\ Cardinality(Upto(S, i)) \in Nat
           /\ Cardinality(Upto(S, i)) <= Cardinality(S)
  <1>1. IsFiniteSet(1 .. l)
    BY FS_Interval
  <1>2. IsFiniteSet(S)
    BY <1>1, FS_Subset
  <1>3. Upto(S, i) \in SUBSET S
    BY DEF Upto
  <1>4. QED
    BY <1>2, <1>3, FS_Subset, FS_CardinalityType

(* A later line has more up to it, each line itself at least.                *)
LEMMA UptoGrows ==
    ASSUME NEW l \in Nat, NEW S \in SUBSET (1 .. l), NEW i \in S
    PROVE  /\ Cardinality(Upto(S, i)) \in 1 .. Cardinality(S)
           /\ \A j \in S : i < j => Cardinality(Upto(S, i)) < Cardinality(Upto(S, j))
  <1>0. /\ IsFiniteSet(S) /\ Cardinality(S) \in Nat
        /\ \A k : /\ IsFiniteSet(Upto(S, k)) /\ Cardinality(Upto(S, k)) \in Nat
                 /\ Cardinality(Upto(S, k)) <= Cardinality(S)
    BY UptoType
  <1>a. \A k \in S : k \in Nat /\ k \in 1 .. l
    OBVIOUS
  <1>1. i \in Upto(S, i)
    BY DEF Upto
  <1>2. Upto(S, i) # {}
    BY <1>1
  <1>3. Cardinality(Upto(S, i)) # 0
    BY <1>2, <1>0, FS_EmptySet
  <1>4. ASSUME NEW j \in S, i < j
        PROVE  Cardinality(Upto(S, i)) < Cardinality(Upto(S, j))
    <2>1. Upto(S, i) \in SUBSET Upto(S, j)
      <3>1. \A x \in S : x <= i => x <= j
        BY <1>a, <1>4
      <3>2. QED
        BY <3>1 DEF Upto
    <2>2. j \in Upto(S, j) /\ j \notin Upto(S, i)
      BY <1>4 DEF Upto
    <2>3. Upto(S, i) # Upto(S, j)
      BY <2>2
    <2>4. /\ Cardinality(Upto(S, i)) <= Cardinality(Upto(S, j))
          /\ Cardinality(Upto(S, i)) # Cardinality(Upto(S, j))
      BY <2>1, <2>3, <1>0, FS_Subset
    <2>5. QED
      BY <2>4, <1>0
  <1>5. QED
    BY <1>3, <1>4, <1>0

(* Nth is defined for each count, and of its line's count it is that line.   *)
LEMMA NthIs ==
    ASSUME NEW l \in Nat, NEW S \in SUBSET (1 .. l)
    PROVE  /\ \A c \in 1 .. Cardinality(S) :
                  Nth(S, c) \in S /\ Cardinality(Upto(S, Nth(S, c))) = c
           /\ \A i \in S : Nth(S, Cardinality(Upto(S, i))) = i
  <1>0. /\ IsFiniteSet(S) /\ Cardinality(S) \in Nat
        /\ \A k : /\ IsFiniteSet(Upto(S, k)) /\ Cardinality(Upto(S, k)) \in Nat
                 /\ Cardinality(Upto(S, k)) <= Cardinality(S)
    BY UptoType
  <1>a. \A k \in S : k \in Nat /\ k \in 1 .. l
    OBVIOUS
  <1>1. ASSUME NEW c \in 1 .. Cardinality(S)
        PROVE  \E i \in S : Cardinality(Upto(S, i)) = c
    <2> DEFINE T == {i \in Nat : Cardinality(Upto(S, i)) >= c}
    <2>1. l \in T
      <3>1. Upto(S, l) = S
        <4>1. \A x \in S : x <= l
          BY <1>a
        <4>2. QED
          BY <4>1 DEF Upto
      <3>2. QED
        BY <3>1, <1>0
    <2>2. PICK i \in T : \A y \in T : i <= y
      <3> HIDE DEF T
      <3>1. T \in SUBSET Nat
        BY DEF T
      <3>2. QED
        BY <2>1, <3>1, LeastExists
    <2>3. i \in Nat /\ Cardinality(Upto(S, i)) >= c
      BY <2>2
    <2>4. i # 0
      <3>1. Upto(S, 0) = {}
        <4>1. \A x \in S : ~(x <= 0)
          BY <1>a
        <4>2. QED
          BY <4>1 DEF Upto
      <3>2. Cardinality(Upto(S, 0)) = 0
        BY <3>1, FS_EmptySet
      <3>3. QED
        BY <2>3, <3>2
    <2>5. i - 1 \in Nat /\ i - 1 \notin T
      BY <2>2, <2>3, <2>4
    <2>6. Cardinality(Upto(S, i - 1)) < c
      BY <2>5, <1>0
    <2>7. i \in S
      <3>1. SUFFICES ASSUME i \notin S PROVE FALSE
        OBVIOUS
      <3>2. Upto(S, i) = Upto(S, i - 1)
        <4>1. \A j \in S : j <= i <=> j <= i - 1
          BY <2>3, <3>1
        <4>2. QED
          BY <4>1 DEF Upto
      <3>3. QED
        BY <2>3, <2>6, <3>2, <1>0
    <2>8. Upto(S, i - 1) = Upto(S, i) \ {i}
      <3>1. \A j \in S : j <= i - 1 <=> j <= i /\ j # i
        BY <2>3
      <3>2. QED
        BY <3>1 DEF Upto
    <2>9. Cardinality(Upto(S, i) \ {i}) = Cardinality(Upto(S, i)) - 1
      <3>1. i \in Upto(S, i)
        BY <2>7 DEF Upto
      <3>2. QED
        BY <3>1, <1>0, FS_RemoveElement
    <2>10. Cardinality(Upto(S, i)) \in Nat /\ Cardinality(Upto(S, i - 1)) \in Nat
      BY <1>0
    <2>11. Cardinality(Upto(S, i)) = c
      <3> DEFINE a == Cardinality(Upto(S, i))
                 b == Cardinality(Upto(S, i - 1))
      <3>1. a \in Nat /\ b \in Nat /\ a >= c /\ b < c /\ b = a - 1 /\ c \in Nat
        BY <2>3, <2>6, <2>8, <2>9, <2>10
      <3> HIDE DEF a, b
      <3>2. a = c
        BY <3>1
      <3>3. QED
        BY <3>2 DEF a
    <2>12. QED
      BY <2>7, <2>11
  <1>2. ASSUME NEW c \in 1 .. Cardinality(S)
        PROVE  Nth(S, c) \in S /\ Cardinality(Upto(S, Nth(S, c))) = c
    BY <1>1 DEF Nth
  <1>3. ASSUME NEW i \in S
        PROVE  Nth(S, Cardinality(Upto(S, i))) = i
    <2> DEFINE c == Cardinality(Upto(S, i))
    <2>1. c \in 1 .. Cardinality(S)
      BY UptoGrows
    <2>2. Nth(S, c) \in S /\ Cardinality(Upto(S, Nth(S, c))) = c
      BY <1>2, <2>1
    <2>3. c \in Nat
      BY <1>0
    <2>4. ~(Nth(S, c) < i)
      <3>1. Nth(S, c) < i => Cardinality(Upto(S, Nth(S, c))) < c
        BY <2>2, UptoGrows
      <3>2. QED
        BY <2>2, <2>3, <3>1
    <2>5. ~(i < Nth(S, c))
      <3>1. i < Nth(S, c) => c < Cardinality(Upto(S, Nth(S, c)))
        BY <2>2, UptoGrows
      <3>2. QED
        BY <2>2, <2>3, <3>1
    <2>6. Nth(S, c) \in Nat /\ i \in Nat
      BY <1>a, <2>2
    <2>7. QED
      BY <2>4, <2>5, <2>6
  <1>4. QED
    BY <1>2, <1>3

-----------------------------------------------------------------------------
(* What a reader makes of a file's lines.                                    *)

(* A message is a line that parses.                                          *)
LEMMA LineIs == Messages = Line \ {Corrupt} /\ Corrupt \notin Messages /\ Messages \subseteq Int
  BY StoreAssumption DEF Messages, Line, Corrupt

LEMMA ParsingType ==
    ASSUME NEW ls \in Seq(Line)
    PROVE  /\ Len(ls) \in Nat /\ DOMAIN ls = 1 .. Len(ls)
           /\ Parsing(ls) \in SUBSET (1 .. Len(ls))
           /\ \A i \in 1 .. Len(ls) : ls[i] \in Line /\ (i \in Parsing(ls) <=> ls[i] \in Messages)
           /\ IsFiniteSet(Parsing(ls)) /\ Cardinality(Parsing(ls)) \in Nat
  <1>1. Len(ls) \in Nat /\ DOMAIN ls = 1 .. Len(ls) /\ \A i \in 1 .. Len(ls) : ls[i] \in Line
    BY LenProperties, ElementOfSeq
  <1>2. Parsing(ls) \in SUBSET (1 .. Len(ls))
    BY <1>1 DEF Parsing
  <1>3. \A i \in 1 .. Len(ls) : i \in Parsing(ls) <=> ls[i] \in Messages
    BY <1>1, LineIs DEF Parsing
  <1>4. IsFiniteSet(Parsing(ls)) /\ Cardinality(Parsing(ls)) \in Nat
    BY <1>1, <1>2, UptoType
  <1>5. QED
    BY <1>1, <1>2, <1>3, <1>4

(* Lines are told apart but for those that do not parse.                     *)
Distinct(ls) == \A i, j \in DOMAIN ls : i # j /\ ls[i] = ls[j] => ls[i] = Corrupt

(* What is read are the messages among the lines, and no message twice.      *)
LEMMA RetainedType ==
    ASSUME NEW ls \in Seq(Line)
    PROVE  /\ Retained(ls) \in Seq(Messages)
           /\ Len(Retained(ls)) = Cardinality(Parsing(ls))
           /\ \A n \in 1 .. Cardinality(Parsing(ls)) :
                  /\ Retained(ls)[n] = ls[Nth(Parsing(ls), n)]
                  /\ Nth(Parsing(ls), n) \in Parsing(ls)
           /\ Elements(Retained(ls)) = Elements(ls) \ {Corrupt}
           /\ Distinct(ls) => Distinct(Retained(ls))
  <1> DEFINE P == Parsing(ls)
             C == Cardinality(P)
  <1>1. /\ Len(ls) \in Nat /\ DOMAIN ls = 1 .. Len(ls) /\ P \in SUBSET (1 .. Len(ls))
        /\ \A i \in 1 .. Len(ls) : ls[i] \in Line /\ (i \in P <=> ls[i] \in Messages)
        /\ C \in Nat
    BY ParsingType
  <1>2. /\ \A n \in 1 .. C : Nth(P, n) \in P /\ Cardinality(Upto(P, Nth(P, n))) = n
        /\ \A i \in P : Nth(P, Cardinality(Upto(P, i))) = i
    <2> HIDE DEF P
    <2>1. QED
      BY <1>1, NthIs
  <1>3. \A n \in 1 .. C : ls[Nth(P, n)] \in Messages
    BY <1>1, <1>2
  <1>4. Retained(ls) = [n \in 1 .. C |-> ls[Nth(P, n)]]
    BY DEF Retained
  <1> HIDE DEF P, C
  <1>5. Retained(ls) \in Seq(Messages) /\ Len(Retained(ls)) = C /\ DOMAIN Retained(ls) = 1 .. C
    BY <1>1, <1>3, <1>4
  <1>6. \A n \in 1 .. C : Retained(ls)[n] = ls[Nth(P, n)] /\ Nth(P, n) \in P
    BY <1>2, <1>4
  <1>7. \A i \in P : Cardinality(Upto(P, i)) \in 1 .. C
    BY <1>1, UptoGrows DEF C
  <1>8. Elements(Retained(ls)) = Elements(ls) \ {Corrupt}
    <2>1. ASSUME NEW m, m \in Elements(Retained(ls))
          PROVE  m \in Elements(ls) \ {Corrupt}
      <3>1. PICK n \in 1 .. C : m = Retained(ls)[n]
        BY <1>5, <2>1 DEF Elements
      <3>2. m = ls[Nth(P, n)] /\ Nth(P, n) \in 1 .. Len(ls) /\ m \in Messages
        BY <1>1, <1>3, <1>6, <3>1
      <3>3. QED
        BY <1>1, <3>2, LineIs DEF Elements
    <2>2. ASSUME NEW m, m \in Elements(ls) \ {Corrupt}
          PROVE  m \in Elements(Retained(ls))
      <3>1. PICK i \in 1 .. Len(ls) : m = ls[i]
        BY <1>1, <2>2 DEF Elements
      <3>2. i \in P
        BY <1>1, <2>2, <3>1, LineIs
      <3>3. PICK n \in 1 .. C : Nth(P, n) = i
        BY <1>2, <1>7, <3>2
      <3>4. m = Retained(ls)[n]
        BY <1>6, <3>1, <3>3
      <3>5. QED
        BY <1>5, <3>4 DEF Elements
    <2>3. QED
      BY <2>1, <2>2
  <1>9. ASSUME Distinct(ls), NEW m \in 1 .. C, NEW n \in 1 .. C,
               m # n, Retained(ls)[m] = Retained(ls)[n]
        PROVE  FALSE
    <2>1. Nth(P, m) # Nth(P, n) /\ Nth(P, m) \in 1 .. Len(ls) /\ Nth(P, n) \in 1 .. Len(ls)
      BY <1>1, <1>2, <1>9
    <2>2. ls[Nth(P, m)] = Corrupt
      BY <1>1, <1>6, <1>9, <2>1 DEF Distinct
    <2>3. QED
      BY <1>3, <2>2, LineIs
  <1>10. QED
    BY <1>5, <1>6, <1>8, <1>9 DEF P, C, Distinct

(* A set of numbers has as many as its image under a shift.                  *)
LEMMA Shifted ==
    ASSUME NEW k \in Nat, NEW S, IsFiniteSet(S), \A j \in S : j \in Nat
    PROVE  Cardinality({j - k : j \in S}) = Cardinality(S)
  <1> DEFINE T == {j - k : j \in S}
             f == [j \in S |-> j - k]
  <1>1. f \in [S -> T]
    OBVIOUS
  <1>2. \A a, b \in S : f[a] = f[b] => a = b
    OBVIOUS
  <1>3. \A t \in T : \E a \in S : f[a] = t
    OBVIOUS
  <1>4. f \in Bijection(S, T)
    BY <1>1, <1>2, <1>3 DEF Bijection, Injection, Surjection, IsInjective
  <1>5. ExistsBijection(S, T)
    BY <1>4 DEF ExistsBijection
  <1>6. QED
    BY <1>5, FS_Bijection

(* Leaving out the first k lines leaves out the messages up to line k.       *)
LEMMA RetainedSuffix ==
    ASSUME NEW ls \in Seq(Line), NEW k \in 0 .. Len(ls)
    PROVE  LET P == Parsing(ls)
               c == Cardinality(Upto(P, k))
               s == SubSeq(ls, k + 1, Len(ls))
           IN  /\ s \in Seq(Line) /\ c \in 0 .. Cardinality(P)
               /\ Cardinality(Parsing(s)) = Cardinality(P) - c
               /\ \A n \in 1 .. Cardinality(P) - c : Retained(s)[n] = Retained(ls)[c + n]
  <1> DEFINE l == Len(ls)
             P == Parsing(ls)
             C == Cardinality(P)
             c == Cardinality(Upto(P, k))
             s == SubSeq(ls, k + 1, l)
             Q == Parsing(s)
  <1>1. /\ l \in Nat /\ k \in Nat /\ k <= l
        /\ P \in SUBSET (1 .. l)
        /\ \A i \in 1 .. l : ls[i] \in Line /\ (i \in P <=> ls[i] \in Messages)
        /\ IsFiniteSet(P) /\ C \in Nat
    BY ParsingType
  <1>2. /\ s \in Seq(Line) /\ Len(s) = l - k
        /\ \A i \in 1 .. l - k : s[i] = ls[k + i]
    <2>1. \A i \in k + 1 .. l : ls[i] \in Line
      BY <1>1
    <2>2. /\ s \in Seq(Line)
          /\ Len(s) = IF k + 1 <= l THEN l - (k + 1) + 1 ELSE 0
          /\ \A i \in 1 .. l - (k + 1) + 1 : s[i] = ls[k + 1 + i - 1]
      BY <1>1, <2>1, SubSeqProperties
    <2> HIDE DEF s, l
    <2>3. QED
      BY <1>1, <2>2
  <1>3. /\ Q \in SUBSET (1 .. l - k)
        /\ \A i \in 1 .. l - k : i \in Q <=> k + i \in P
    <2>1. Q \in SUBSET (1 .. Len(s)) /\ \A i \in 1 .. Len(s) : i \in Q <=> s[i] \in Messages
      BY <1>2, ParsingType
    <2> HIDE DEF s, l, Q, P
    <2>2. \A i \in 1 .. l - k : k + i \in 1 .. l
      BY <1>1
    <2>3. QED
      BY <1>1, <1>2, <2>1, <2>2
  <1>4. \A i : /\ IsFiniteSet(Upto(P, i)) /\ Cardinality(Upto(P, i)) \in Nat
               /\ Cardinality(Upto(P, i)) <= C
    BY <1>1, UptoType
  <1> HIDE DEF l, P, Q, s
  <1>5. ASSUME NEW m \in 0 .. l - k
        PROVE  Cardinality(Upto(P, k + m)) = c + Cardinality(Upto(Q, m))
    <2> DEFINE R == {j \in P : k < j /\ j <= k + m}
    <2>1. \A j \in P : j \in Nat
      BY <1>1
    <2>2. R \in SUBSET P
      OBVIOUS
    <2>3. IsFiniteSet(R) /\ Cardinality(R) \in Nat
      BY <1>1, <2>2, FS_Subset, FS_CardinalityType
    <2>4. Upto(P, k + m) = Upto(P, k) \cup R
      <3>1. \A j \in P : j <= k + m <=> j <= k \/ (k < j /\ j <= k + m)
        BY <1>1, <2>1
      <3>2. QED
        BY <3>1 DEF Upto
    <2>5. Upto(P, k) \cap R = {}
      <3>1. \A j \in P : ~(j <= k /\ k < j)
        BY <1>1, <2>1
      <3>2. QED
        BY <3>1 DEF Upto
    <2>6. Upto(Q, m) = {j - k : j \in R}
      <3>1. ASSUME NEW x \in Upto(Q, m)
            PROVE  k + x \in R /\ x = (k + x) - k
        <4>1. x \in Q /\ x <= m
          BY DEF Upto
        <4>2. x \in 1 .. l - k
          BY <1>3, <4>1
        <4>3. k + x \in P
          BY <1>3, <4>1, <4>2
        <4>4. k < k + x /\ k + x <= k + m /\ x = (k + x) - k
          BY <1>1, <4>1, <4>2
        <4>5. QED
          BY <4>3, <4>4
      <3>2. ASSUME NEW j \in R
            PROVE  j - k \in Upto(Q, m)
        <4>1. j \in P /\ k < j /\ j <= k + m /\ j \in Nat
          BY <2>1
        <4>2. j - k \in 1 .. l - k /\ k + (j - k) = j /\ j - k <= m
          BY <1>1, <4>1
        <4>3. j - k \in Q
          BY <1>3, <4>1, <4>2
        <4>4. QED
          BY <4>2, <4>3 DEF Upto
      <3> HIDE DEF R
      <3>3. QED
        BY <3>1, <3>2
    <2>7. Cardinality(Upto(Q, m)) = Cardinality(R)
      <3>1. \A j \in R : j \in Nat
        BY <2>1
      <3> HIDE DEF R
      <3>2. QED
        BY <1>1, <2>3, <2>6, <3>1, Shifted
    <2>8. Cardinality(Upto(P, k) \cup R) = c + Cardinality(R) - Cardinality(Upto(P, k) \cap R)
      BY <1>4, <2>3, FS_Union
    <2>9. Cardinality(Upto(P, k) \cap R) = 0
      BY <2>5, FS_EmptySet
    <2> HIDE DEF R
    <2>10. c \in Nat /\ Cardinality(R) \in Nat
      BY <1>4, <2>3
    <2>11. c + Cardinality(R) - 0 = c + Cardinality(R)
      BY <2>10
    <2>12. QED
      BY <2>4, <2>7, <2>8, <2>9, <2>11
  <1>6. Cardinality(Q) = C - c
    <2>1. Upto(P, l) = P
      <3>1. \A j \in P : j <= l
        BY <1>1
      <3>2. QED
        BY <3>1 DEF Upto
    <2>2. Upto(Q, l - k) = Q
      <3>1. \A j \in Q : j <= l - k
        BY <1>1, <1>3
      <3>2. QED
        BY <3>1 DEF Upto
    <2>3. l - k \in 0 .. l - k /\ k + (l - k) = l /\ l - k \in Nat
      BY <1>1
    <2>4. C = c + Cardinality(Q)
      BY <1>5, <2>1, <2>2, <2>3
    <2>5. Cardinality(Q) \in Nat
      BY <1>3, <2>3, UptoType
    <2>6. QED
      BY <1>1, <1>4, <2>4, <2>5
  <1>7. ASSUME NEW n \in 1 .. C - c
        PROVE  Retained(s)[n] = Retained(ls)[c + n]
    <2> DEFINE i == Nth(Q, n)
    <2>1. i \in Q /\ Cardinality(Upto(Q, i)) = n
      <3>1. l - k \in Nat
        BY <1>1
      <3>2. QED
        BY <1>3, <1>6, <3>1, NthIs
    <2>2. i \in 1 .. l - k /\ i \in 0 .. l - k /\ k + i \in P
      BY <1>3, <2>1
    <2>3. Cardinality(Upto(P, k + i)) = c + n
      BY <1>5, <2>1, <2>2
    <2>4. Nth(P, c + n) = k + i
      <3>1. Nth(P, Cardinality(Upto(P, k + i))) = k + i
        BY <1>1, <2>2, NthIs
      <3>2. QED
        BY <2>3, <3>1
    <2>5. Retained(s)[n] = s[i]
      BY <1>2, <1>6, RetainedType DEF Q
    <2>6. c + n \in 1 .. C
      BY <1>1, <1>4
    <2>7. Retained(ls)[c + n] = ls[k + i]
      BY <2>4, <2>6, RetainedType DEF P
    <2>8. QED
      BY <1>2, <2>2, <2>5, <2>7
  <1>8. c \in 0 .. C
    BY <1>1, <1>4
  <1>9. QED
    BY <1>2, <1>6, <1>7, <1>8 DEF P, Q, s, l

(* What is read beyond the first n lines.                                    *)
Beyond(ls, n) == {ls[i] : i \in n + 1 .. Len(ls)} \ {Corrupt}
Shown == Beyond(lines, skip)

LEMMA RetainedBeyond ==
    ASSUME NEW ls \in Seq(Line), NEW n \in Nat
    PROVE  LET r == Retained(SubSeq(ls, n + 1, Len(ls)))
           IN  /\ r \in Seq(Messages)
               /\ Elements(r) = Beyond(ls, n)
               /\ Distinct(ls) => Distinct(r)
  <1> DEFINE l == Len(ls)
             s == SubSeq(ls, n + 1, l)
  <1>1. l \in Nat /\ DOMAIN ls = 1 .. l /\ \A i \in n + 1 .. l : ls[i] \in Line
    <2>1. l \in Nat /\ DOMAIN ls = 1 .. l /\ \A i \in 1 .. l : ls[i] \in Line
      BY ParsingType
    <2> HIDE DEF l
    <2>2. \A i \in n + 1 .. l : i \in 1 .. l
      BY <2>1
    <2>3. QED
      BY <2>1, <2>2
  <1>2. /\ s \in Seq(Line)
        /\ Len(s) = IF n + 1 <= l THEN l - (n + 1) + 1 ELSE 0
        /\ \A i \in 1 .. l - (n + 1) + 1 : s[i] = ls[n + 1 + i - 1]
    BY <1>1, SubSeqProperties
  <1>3. DOMAIN s = 1 .. Len(s)
    BY <1>2, LenProperties
  <1> HIDE DEF l, s
  <1>4. DOMAIN s = 1 .. l - n /\ \A i \in 1 .. l - n : s[i] = ls[n + i]
    BY <1>1, <1>2, <1>3
  <1>5. Elements(s) = {ls[i] : i \in n + 1 .. l}
    <2>1. \A i \in 1 .. l - n : n + i \in n + 1 .. l
      BY <1>1
    <2>2. \A i \in n + 1 .. l : i - n \in 1 .. l - n /\ n + (i - n) = i
      BY <1>1
    <2>3. ASSUME NEW m \in Elements(s)
          PROVE  m \in {ls[i] : i \in n + 1 .. l}
      BY <1>4, <2>1 DEF Elements
    <2>4. ASSUME NEW i \in n + 1 .. l
          PROVE  ls[i] \in Elements(s)
      <3>1. s[i - n] = ls[i] /\ i - n \in DOMAIN s
        BY <1>4, <2>2
      <3>2. QED
        BY <3>1 DEF Elements
    <2>5. QED
      BY <2>3, <2>4
  <1>6. Distinct(ls) => Distinct(s)
    <2>1. ASSUME NEW i \in 1 .. l - n, NEW j \in 1 .. l - n, i # j
          PROVE  n + i \in 1 .. l /\ n + j \in 1 .. l /\ n + i # n + j
      BY <1>1, <2>1
    <2>2. QED
      BY <1>1, <1>4, <2>1 DEF Distinct
  <1>7. /\ Retained(s) \in Seq(Messages)
        /\ Elements(Retained(s)) = Elements(s) \ {Corrupt}
        /\ Distinct(s) => Distinct(Retained(s))
    BY <1>2, RetainedType
  <1>8. QED
    BY <1>5, <1>6, <1>7 DEF Beyond, l, s

(* What an append leaves in the file: in the place of a torn line one that   *)
(* does not parse, or a line more.                                           *)
LEMMA AppendedType ==
    ASSUME TypeOK, NEW x \in Line
    PROVE  LET ls == Appended(x)
           IN  /\ ls \in Seq(Line) /\ ls # <<>> /\ Len(ls) >= Len(lines)
               /\ Elements(ls) \subseteq Elements(lines) \cup {x, Corrupt}
               /\ ls[Len(ls)] = IF torn THEN Corrupt ELSE x
               /\ Distinct(lines) /\ (x = Corrupt \/ x \notin Elements(lines)) => Distinct(ls)
               /\ torn => /\ Beyond(ls, skip) \subseteq Shown
                          /\ Shown \subseteq Beyond(ls, skip) \cup {lines[Len(lines)]}
               /\ ~torn => /\ Beyond(ls, skip) \subseteq Shown \cup {x}
                           /\ Shown \subseteq Beyond(ls, skip)
                           /\ skip <= Len(lines) /\ x # Corrupt => x \in Beyond(ls, skip)
  <1> DEFINE ls == Appended(x)
             l == Len(lines)
  <1>1. l \in Nat /\ DOMAIN lines = 1 .. l /\ lines \in Seq(Line) /\ skip \in Nat
    BY ParsingType DEF TypeOK
  <1>2. Corrupt \in Line
    BY DEF Line
  <1>3. CASE torn
    <2>1. ls = [lines EXCEPT ![l] = Corrupt]
      BY <1>3 DEF Appended
    <2>2. l \in 1 .. l
      BY <1>1, <1>3, EmptySeq DEF TypeOK
    <2>3. /\ ls \in Seq(Line) /\ Len(ls) = l
          /\ \A j \in 1 .. l : ls[j] = IF j = l THEN Corrupt ELSE lines[j]
      BY <1>1, <1>2, <2>1, <2>2, ExceptSeq
    <2>4. DOMAIN ls = 1 .. l
      BY <2>3, LenProperties
    <2> HIDE DEF ls, l
    <2>5. ls # <<>>
      BY <2>2, <2>4
    <2>6. Elements(ls) \subseteq Elements(lines) \cup {x, Corrupt}
      BY <1>1, <2>3, <2>4 DEF Elements
    <2>7. ls[l] = Corrupt
      BY <2>2, <2>3
    <2>8. Distinct(lines) => Distinct(ls)
      BY <1>1, <2>3, <2>4 DEF Distinct
    <2>9. \A i \in skip + 1 .. l : i \in 1 .. l
      BY <1>1
    <2>10. Beyond(ls, skip) \subseteq Shown
      BY <2>3, <2>9 DEF Beyond, Shown, l
    <2>11. Shown \subseteq Beyond(ls, skip) \cup {lines[l]}
      BY <2>3, <2>9 DEF Beyond, Shown, l
    <2>12. Len(ls) >= l /\ ls[Len(ls)] = Corrupt
      BY <1>1, <2>3, <2>7
    <2>13. QED
      BY <1>3, <2>3, <2>5, <2>6, <2>8, <2>10, <2>11, <2>12 DEF l, ls
  <1>4. CASE ~torn
    <2>1. ls = Append(lines, x)
      BY <1>4 DEF Appended
    <2>2. /\ ls \in Seq(Line) /\ ls # <<>> /\ Len(ls) = l + 1
          /\ \A j \in 1 .. l : ls[j] = lines[j]
          /\ ls[l + 1] = x
      BY <1>1, <2>1, AppendProperties
    <2>3. DOMAIN ls = 1 .. l + 1
      BY <2>2, LenProperties
    <2> HIDE DEF ls, l
    <2>4. \A i \in 1 .. l + 1 : i \in 1 .. l \/ i = l + 1
      BY <1>1
    <2>5. Elements(ls) \subseteq Elements(lines) \cup {x}
      BY <1>1, <2>2, <2>3, <2>4 DEF Elements
    <2>6. ASSUME Distinct(lines), x = Corrupt \/ x \notin Elements(lines)
          PROVE  Distinct(ls)
      <3>1. ASSUME NEW i \in 1 .. l + 1, NEW j \in 1 .. l + 1, i # j, ls[i] = ls[j]
            PROVE  ls[i] = Corrupt
        BY <1>1, <2>2, <2>4, <2>6, <3>1 DEF Distinct, Elements
      <3>2. QED
        BY <2>3, <3>1 DEF Distinct
    <2>7. \A i \in skip + 1 .. l : i \in 1 .. l /\ i \in skip + 1 .. l + 1
      BY <1>1
    <2>8. \A i \in skip + 1 .. l + 1 : (i \in skip + 1 .. l /\ i \in 1 .. l) \/ i = l + 1
      BY <1>1
    <2>9. Beyond(ls, skip) = {ls[i] : i \in skip + 1 .. l + 1} \ {Corrupt}
      BY <2>2 DEF Beyond
    <2>10. Shown = {lines[i] : i \in skip + 1 .. l} \ {Corrupt}
      BY DEF Shown, Beyond, l
    <2>11. Beyond(ls, skip) \subseteq Shown \cup {x}
      BY <2>2, <2>8, <2>9, <2>10
    <2>12. Shown \subseteq Beyond(ls, skip)
      BY <2>2, <2>7, <2>9, <2>10
    <2>13. skip <= l /\ x # Corrupt => x \in Beyond(ls, skip)
      <3>1. skip <= l => l + 1 \in skip + 1 .. l + 1
        BY <1>1
      <3>2. QED
        BY <2>2, <2>9, <3>1
    <2>14. Len(ls) >= l
      BY <1>1, <2>2
    <2>15. ls[Len(ls)] = x
      BY <2>2
    <2>16. QED
      BY <1>4, <2>2, <2>5, <2>6, <2>11, <2>12, <2>13, <2>14, <2>15 DEF l, ls
  <1>5. QED
    BY <1>3, <1>4 DEF TypeOK

-----------------------------------------------------------------------------
(* Types, and what the properties rest on.                                   *)

(* Messages are offered in order, each once: those not offered yet are in no *)
(* file, and only lines that do not parse are there twice.  What a second    *)
(* write needs is still as the first left it.                                *)
Past(S) == \A m \in S : m \in 1 .. NumMessages => m <= added
StoreInv ==
    /\ Past(owed) /\ Past(removed) /\ Past(Elements(lines)) /\ Past(Elements(buf.lines))
    /\ Distinct(lines) /\ Distinct(buf.lines)
    /\ buf.torn => buf.lines # <<>>
    /\ op = "append" =>
          added \in 1 .. NumMessages /\ added \notin owed \cup removed /\ ~torn
    /\ op \in {"set", "compact"} =>
          skip = 0 /\ ~buf.torn /\ buf.lines \in Seq(Messages)
    /\ op = "promote" =>
          lines = Legacy /\ ~torn /\ ~summary /\ Beyond(buf.lines, skip) = {}

LEMMA LegacyType ==
    /\ Legacy \in Seq(Messages) /\ Legacy # <<>> /\ Len(Legacy) = NumLegacy
    /\ \A m \in Elements(Legacy) : m \in Messages /\ m \notin 1 .. NumMessages
    /\ Distinct(Legacy)
  <1>1. \A i \in 1 .. NumLegacy :
            NumMessages + i \in Messages /\ NumMessages + i \notin 1 .. NumMessages
    BY StoreAssumption DEF Messages
  <1>2. Legacy \in Seq(Messages) /\ Len(Legacy) = NumLegacy /\ DOMAIN Legacy = 1 .. NumLegacy
    BY <1>1, StoreAssumption DEF Legacy
  <1>3. \A i \in 1 .. NumLegacy : Legacy[i] = NumMessages + i
    BY DEF Legacy
  <1>4. 1 \in DOMAIN Legacy
    BY <1>2, StoreAssumption
  <1>5. Distinct(Legacy)
    BY <1>2, <1>3, StoreAssumption DEF Distinct
  <1>6. QED
    BY <1>1, <1>2, <1>3, <1>4, <1>5 DEF Elements

(* What is shown, as a sequence and as a set.                                *)
LEMMA HistoryType ==
    ASSUME TypeOK
    PROVE  /\ History \in Seq(Messages)
           /\ Elements(History) = Shown
           /\ Distinct(lines) => Distinct(History)
           /\ Shown \subseteq Elements(lines) /\ Elements(lines) \subseteq Line
           /\ Len(lines) \in Nat /\ DOMAIN lines = 1 .. Len(lines)
  <1>1. lines \in Seq(Line) /\ skip \in Nat
    BY DEF TypeOK
  <1>2. /\ Len(lines) \in Nat /\ DOMAIN lines = 1 .. Len(lines)
        /\ \A i \in 1 .. Len(lines) : lines[i] \in Line
    BY <1>1, ParsingType
  <1>3. \A i \in skip + 1 .. Len(lines) : i \in 1 .. Len(lines)
    BY <1>1, <1>2
  <1>4. Shown \subseteq Elements(lines)
    BY <1>2, <1>3 DEF Shown, Beyond, Elements
  <1>5. Elements(lines) \subseteq Line
    BY <1>2 DEF Elements
  <1>6. QED
    BY <1>1, <1>2, <1>4, <1>5, RetainedBeyond DEF History, Shown

(* What a caller may set is part of what is shown.                           *)
LEMMA ShortenedType ==
    ASSUME TypeOK, NEW h \in Shortened
    PROVE  /\ h \in Seq(Messages) /\ Elements(h) \subseteq Shown
           /\ Distinct(lines) => Distinct(h)
  <1> DEFINE g == History
             l == Len(g)
  <1>1. /\ g \in Seq(Messages) /\ Elements(g) = Shown
        /\ Distinct(lines) => Distinct(g)
        /\ l \in Nat /\ DOMAIN g = 1 .. l /\ \A i \in 1 .. l : g[i] \in Messages
    BY HistoryType, LenProperties, ElementOfSeq
  <1>2. PICK a \in 1 .. l + 1, b \in 0 .. l : h = SubSeq(g, a, b)
    <2>1. 1 \in 1 .. l + 1 /\ l \in 0 .. l /\ 1 .. l \subseteq 1 .. l + 1
      BY <1>1
    <2>2. \/ \E n \in 0 .. l : h = SubSeq(g, 1, n)
          \/ \E n \in 1 .. l : h = SubSeq(g, n, l)
      BY DEF Shortened
    <2> HIDE DEF g, l
    <2>3. QED
      BY <2>1, <2>2
  <1>3. \A i \in a .. b : i \in 1 .. l
    BY <1>1, <1>2
  <1> HIDE DEF g, l
  <1>4. /\ h \in Seq(Messages)
        /\ Len(h) = IF a <= b THEN b - a + 1 ELSE 0
        /\ \A i \in 1 .. b - a + 1 : h[i] = g[a + i - 1]
    BY <1>1, <1>2, <1>3, SubSeqProperties
  <1>5. DOMAIN h = 1 .. Len(h)
    BY <1>4, LenProperties
  <1>6. \A i \in DOMAIN h : i \in 1 .. b - a + 1 /\ a + i - 1 \in 1 .. l
    BY <1>1, <1>2, <1>4, <1>5
  <1>7. Elements(h) \subseteq Elements(g)
    BY <1>1, <1>4, <1>6 DEF Elements
  <1>8. ASSUME Distinct(g), NEW i \in DOMAIN h, NEW j \in DOMAIN h, i # j, h[i] = h[j]
        PROVE  h[i] = Corrupt
    <2>1. a + i - 1 # a + j - 1
      BY <1>2, <1>6, <1>8
    <2>2. h[i] = g[a + i - 1] /\ h[j] = g[a + j - 1]
      BY <1>4, <1>6
    <2>3. QED
      BY <1>1, <1>6, <1>8, <2>1, <2>2 DEF Distinct
  <1>9. Distinct(g) => Distinct(h)
    BY <1>8 DEF Distinct
  <1>10. QED
    BY <1>1, <1>4, <1>7, <1>9 DEF g

LEMMA InitStore == Init => TypeOK /\ StoreInv
  <1> SUFFICES ASSUME Init PROVE TypeOK /\ StoreInv
    OBVIOUS
  <1>1. lines = <<>> /\ lines \in Seq(Line) /\ Len(lines) = 0 /\ DOMAIN lines = {}
    BY EmptySeq DEF Init
  <1>2. buf \in [lines : Seq(Line), torn : BOOLEAN] /\ DOMAIN buf.lines = {}
    BY <1>1 DEF Init
  <1>3. Elements(lines) = {} /\ Elements(buf.lines) = {}
    BY <1>1, <1>2 DEF Elements
  <1>4. TypeOK
    <2>1. /\ added \in 0 .. NumMessages /\ faults \in 0 .. MaxFaults
          /\ skip \in Nat /\ count \in Nat /\ tears \in Nat /\ skip <= Len(lines)
      BY <1>1, StoreAssumption DEF Init
    <2>2. QED
      BY <1>1, <1>2, <2>1 DEF Init, TypeOK
  <1>5. StoreInv
    BY <1>1, <1>2, <1>3 DEF Init, StoreInv, Past, Distinct
  <1>6. QED
    BY <1>4, <1>5

(* Steps that change the files in no way the invariant speaks of.            *)
LEMMA QuietStore ==
    ASSUME TypeOK, StoreInv,
           \/ UNCHANGED vars \/ \E b \in BOOLEAN : SetSummary(b)
    PROVE  TypeOK' /\ StoreInv'
  <1> USE DEF TypeOK, StoreInv, Past
  <1>1. CASE UNCHANGED vars
    BY <1>1 DEF vars
  <1>2. CASE \E b \in BOOLEAN : SetSummary(b)
    BY <1>2 DEF SetSummary
  <1>3. QED
    BY <1>1, <1>2

LEMMA AppendStore ==
    ASSUME TypeOK, StoreInv, AppendLine \/ AppendTears
    PROVE  TypeOK' /\ StoreInv'
  <1>1. /\ op = "free" /\ added' = added + 1 /\ added + 1 \in 1 .. NumMessages
        /\ added \in Nat /\ added' \in 0 .. NumMessages
    BY StoreAssumption DEF AppendLine, AppendTears, Offer, TypeOK
  <1>2. PICK x \in Line : lines' = Appended(x) /\ x \in {added + 1, Corrupt}
    <2>1. added + 1 \in Line /\ Corrupt \in Line
      BY <1>1, StoreAssumption DEF Line, Messages
    <2>2. \E x \in {added + 1, Corrupt} : lines' = Appended(x)
      BY DEF AppendLine, AppendTears
    <2>3. QED
      BY <2>1, <2>2
  <1>3. added + 1 \notin Elements(lines) /\ added + 1 \notin owed \cup removed
    BY <1>1 DEF StoreInv, Past
  <1>4. /\ lines' \in Seq(Line) /\ lines' # <<>> /\ Len(lines') >= Len(lines)
        /\ Elements(lines') \subseteq Elements(lines) \cup {x, Corrupt}
        /\ Distinct(lines')
    BY <1>2, <1>3, AppendedType DEF StoreInv
  <1>5. Len(lines) \in Nat /\ Len(lines') \in Nat
    BY <1>4, LenProperties DEF TypeOK
  <1>6. Corrupt \notin 1 .. NumMessages
    BY DEF Corrupt
  <1>7. \A S : Past(S) => \A m \in S : m \in 1 .. NumMessages => m <= added'
    BY <1>1 DEF Past
  <1>8. Past(Elements(lines))'
    <2>1. ASSUME NEW m \in Elements(lines'), m \in 1 .. NumMessages
          PROVE  m <= added'
      <3>1. m \in Elements(lines) \/ m = added + 1
        BY <1>2, <1>4, <1>6, <2>1
      <3>2. CASE m \in Elements(lines)
        BY <1>7, <2>1, <3>2 DEF StoreInv
      <3>3. CASE m = added + 1
        BY <1>1, <3>3
      <3>4. QED
        BY <3>1, <3>2, <3>3
    <2>2. QED
      BY <2>1 DEF Past
  <1>9. /\ tears' \in Nat /\ faults' \in 0 .. MaxFaults /\ torn' \in BOOLEAN
        /\ op' \in {"free", "append"}
        /\ op' = "append" => ~torn'
        /\ UNCHANGED <<skip, count, summary, buf, owed, removed, cut>>
    <2>1. tears \in Nat /\ faults \in 0 .. MaxFaults /\ MaxFaults \in Nat
      BY StoreAssumption DEF TypeOK
    <2>2. CASE AppendLine
      BY <1>1, <2>1, <2>2 DEF AppendLine
    <2>3. CASE AppendTears
      BY <1>1, <2>1, <2>3 DEF AppendTears, Fault
    <2>4. QED
      BY <2>2, <2>3
  <1>10. TypeOK'
    <2>1. "promote" \notin cut' => skip' <= Len(lines')
      BY <1>1, <1>4, <1>5, <1>9 DEF TypeOK
    <2>2. QED
      BY <1>1, <1>4, <1>9, <2>1 DEF TypeOK
  <1>11. Past(owed)' /\ Past(removed)' /\ Past(Elements(buf.lines))'
    BY <1>7, <1>9 DEF StoreInv, Past
  <1>12. op' = "append" => /\ added' \in 1 .. NumMessages /\ added' \notin owed' \cup removed'
                           /\ ~torn'
    BY <1>1, <1>3, <1>9
  <1>13. QED
    BY <1>4, <1>8, <1>9, <1>10, <1>11, <1>12 DEF StoreInv

LEMMA CountedStore ==
    ASSUME TypeOK, StoreInv, AppendCounted
    PROVE  TypeOK' /\ StoreInv'
  <1>1. added \in Messages
    BY StoreAssumption DEF AppendCounted, StoreInv, Messages
  <1>2. TypeOK'
    BY <1>1 DEF AppendCounted, TypeOK
  <1>3. QED
    BY <1>2 DEF AppendCounted, StoreInv, Past, TypeOK

(* A truncation hides lines of the file, those skipped already among them.   *)
LEMMA TruncateHides ==
    ASSUME TypeOK, NEW n, TruncateHistory(n)
    PROVE  \E k \in 0 .. Len(lines) : Hides(k) /\ (skip <= k \/ k = Len(lines))
  <1> DEFINE l == Len(lines)
             start == IF skip > l THEN l ELSE skip
             active == {i \in start + 1 .. l : lines[i] # Corrupt}
  <1>1. l \in Nat /\ skip \in Nat
    BY HistoryType DEF TypeOK
  <1>2. start \in 0 .. l /\ (skip <= start \/ start = l) /\ l \in 0 .. l
    BY <1>1
  <1>3. \A i \in active : i \in start + 1 .. l
    OBVIOUS
  <1>4. Hides(l) \/ Hides(start) \/ \E i \in active : Hides(i)
    BY DEF TruncateHistory
  <1> HIDE DEF l, active, start
  <1>5. \A i \in active : i \in 0 .. l /\ (skip <= i \/ i = l)
    BY <1>1, <1>2, <1>3
  <1>6. QED
    BY <1>2, <1>4, <1>5 DEF l

LEMMA TruncateStore ==
    ASSUME TypeOK, StoreInv, NEW n, TruncateHistory(n)
    PROVE  TypeOK' /\ StoreInv'
  <1>1. PICK k \in 0 .. Len(lines) : Hides(k)
    BY TruncateHides
  <1> DEFINE gone == Elements(SubSeq(lines, 1, k))
  <1>2. /\ op = "free" /\ skip' = k /\ count' = Len(lines)
        /\ owed' = owed \ gone /\ removed' = removed \cup (gone \ {Corrupt})
        /\ UNCHANGED <<added, lines, torn, summary, op, buf, tears, cut, faults>>
    BY <1>1 DEF Hides, TruncateHistory
  <1>3. Len(lines) \in Nat /\ k \in Nat /\ k <= Len(lines)
    BY HistoryType
  <1>4. gone \subseteq Elements(lines) /\ Elements(lines) \subseteq Line
    <2> DEFINE l == Len(lines)
    <2>1. l \in Nat /\ DOMAIN lines = 1 .. l /\ Elements(lines) \subseteq Line
      BY HistoryType
    <2>2. \A i \in 1 .. l : lines[i] \in Elements(lines)
      BY <2>1 DEF Elements
    <2> HIDE DEF l
    <2>3. \A i \in 1 .. k : i \in 1 .. l
      BY <1>3, <2>1 DEF l
    <2>4. \A i \in 1 .. k : lines[i] \in Elements(lines)
      BY <2>2, <2>3
    <2>5. SubSeq(lines, 1, k) \in Seq(Elements(lines))
      BY <1>3, <2>4, SubSeqProperties
    <2>6. QED
      BY <2>1, <2>5, LenProperties, ElementOfSeq DEF Elements
  <1>5. gone \ {Corrupt} \subseteq Messages
    BY <1>4, LineIs
  <1> HIDE DEF gone
  <1>6. TypeOK'
    BY <1>2, <1>3, <1>5 DEF TypeOK
  <1>7. Past(owed)' /\ Past(removed)'
    BY <1>2, <1>4 DEF StoreInv, Past
  <1>8. QED
    BY <1>2, <1>6, <1>7 DEF StoreInv, Past

LEMMA SetStore ==
    ASSUME TypeOK, StoreInv, NEW h \in Shortened, SetHistory(h)
    PROVE  TypeOK' /\ StoreInv'
  <1>1. /\ h \in Seq(Messages) /\ h \in Seq(Line) /\ Elements(h) \subseteq Elements(lines)
        /\ Distinct(h) /\ Len(h) \in Nat
    <2>1. h \in Seq(Messages) /\ Elements(h) \subseteq Shown /\ Distinct(h)
      BY ShortenedType DEF StoreInv
    <2>2. h \in Seq(Line)
      BY <2>1, SeqMonotonic, LineIs
    <2>3. QED
      BY <2>1, <2>2, HistoryType, LenProperties
  <1>2. /\ op' = "set" /\ skip' = 0 /\ count' = Len(h)
        /\ buf' = [lines |-> h, torn |-> FALSE]
        /\ UNCHANGED <<added, lines, torn, summary, owed, removed, tears, cut, faults>>
    BY DEF SetHistory, Resets
  <1>3. buf'.lines = h /\ buf'.torn = FALSE /\ buf' \in [lines : Seq(Line), torn : BOOLEAN]
    BY <1>1, <1>2
  <1>4. Len(lines) \in Nat
    BY HistoryType
  <1>5. TypeOK'
    BY <1>1, <1>2, <1>3, <1>4 DEF TypeOK
  <1>6. Past(Elements(buf.lines))'
    BY <1>1, <1>2, <1>3 DEF StoreInv, Past
  <1>7. Distinct(buf.lines)' /\ Distinct(lines)'
    BY <1>1, <1>2, <1>3 DEF StoreInv, Distinct
  <1>8. QED
    BY <1>1, <1>2, <1>3, <1>5, <1>6, <1>7 DEF StoreInv, Past

LEMMA CompactStore ==
    ASSUME TypeOK, StoreInv, Compact
    PROVE  TypeOK' /\ StoreInv'
  <1> DEFINE h == History
  <1>1. /\ h \in Seq(Messages) /\ h \in Seq(Line) /\ Elements(h) \subseteq Elements(lines)
        /\ Distinct(h) /\ Len(h) \in Nat
    <2>1. h \in Seq(Messages) /\ Elements(h) \subseteq Elements(lines) /\ Distinct(h)
      BY HistoryType DEF StoreInv
    <2>2. h \in Seq(Line)
      BY <2>1, SeqMonotonic, LineIs
    <2>3. QED
      BY <2>1, <2>2, LenProperties
  <1>2. /\ op' = "compact" /\ skip' = 0 /\ count' = Len(h)
        /\ buf' = [lines |-> h, torn |-> FALSE]
        /\ UNCHANGED <<added, lines, torn, summary, owed, removed, tears, cut, faults>>
    BY DEF Compact, Resets
  <1> HIDE DEF h
  <1>3. buf'.lines = h /\ buf'.torn = FALSE /\ buf' \in [lines : Seq(Line), torn : BOOLEAN]
    BY <1>1, <1>2
  <1>4. Len(lines) \in Nat
    BY HistoryType
  <1>5. TypeOK'
    BY <1>1, <1>2, <1>3, <1>4 DEF TypeOK
  <1>6. Past(Elements(buf.lines))'
    BY <1>1, <1>2, <1>3 DEF StoreInv, Past
  <1>7. Distinct(buf.lines)' /\ Distinct(lines)'
    BY <1>1, <1>2, <1>3 DEF StoreInv, Distinct
  <1>8. QED
    BY <1>1, <1>2, <1>3, <1>5, <1>6, <1>7 DEF StoreInv, Past

LEMMA RewriteStore ==
    ASSUME TypeOK, StoreInv, RewriteJSONL
    PROVE  TypeOK' /\ StoreInv'
  <1>1. /\ op \in {"set", "compact"} /\ op' = "free" /\ lines' = buf.lines /\ torn' = buf.torn
        /\ owed' = IF op = "set" THEN Elements(buf.lines) ELSE owed
        /\ removed' = IF op = "set" THEN removed \ Elements(buf.lines) ELSE removed
        /\ UNCHANGED <<added, skip, count, summary, buf, tears, cut, faults>>
    BY DEF RewriteJSONL
  <1>2. skip = 0 /\ ~buf.torn /\ buf.lines \in Seq(Messages)
    BY <1>1 DEF StoreInv
  <1>3. Elements(buf.lines) \subseteq Messages /\ Len(buf.lines) \in Nat
    BY <1>2, LenProperties, ElementOfSeq DEF Elements
  <1>4. buf.lines \in Seq(Line) /\ buf.torn \in BOOLEAN
    BY DEF TypeOK
  <1>5. TypeOK'
    BY <1>1, <1>2, <1>3, <1>4 DEF TypeOK
  <1>6. Past(owed)' /\ Past(removed)' /\ Past(Elements(lines))' /\ Past(Elements(buf.lines))'
    BY <1>1 DEF StoreInv, Past
  <1>7. QED
    BY <1>1, <1>2, <1>5, <1>6 DEF StoreInv

LEMMA PromoteStore ==
    ASSUME TypeOK, StoreInv, Promote
    PROVE  TypeOK' /\ StoreInv'
  <1>1. /\ op = "free" /\ ~summary /\ History = <<>> /\ op' = "promote"
        /\ buf' = [lines |-> lines, torn |-> torn] /\ lines' = Legacy /\ torn' = FALSE
        /\ UNCHANGED <<added, skip, count, summary, owed, removed, tears, cut, faults>>
    BY DEF Promote
  <1>2. buf'.lines = lines /\ buf'.torn = torn /\ buf' \in [lines : Seq(Line), torn : BOOLEAN]
    BY <1>1 DEF TypeOK
  <1>3. Legacy \in Seq(Line) /\ Distinct(Legacy)
    BY LegacyType, SeqMonotonic, LineIs
  <1>4. Beyond(lines, skip) = {}
    <2>1. Elements(History) = {}
      BY <1>1 DEF Elements
    <2>2. QED
      BY <2>1, HistoryType DEF Shown
  <1>5. TypeOK'
    BY <1>1, <1>2, <1>3, LegacyType DEF TypeOK
  <1>6. \A m \in Elements(lines') : m \notin 1 .. NumMessages
    BY <1>1, LegacyType
  <1>7. Past(owed)' /\ Past(removed)' /\ Past(Elements(lines))' /\ Past(Elements(buf.lines))'
    BY <1>1, <1>2, <1>6 DEF StoreInv, Past
  <1>8. Distinct(buf.lines)' /\ Distinct(lines)'
    BY <1>1, <1>2, <1>3 DEF StoreInv
  <1>9. Beyond(buf.lines, skip)' = {}
    BY <1>1, <1>2, <1>4 DEF Beyond
  <1>10. buf'.torn => buf'.lines # <<>>
    BY <1>2 DEF TypeOK
  <1>11. QED
    BY <1>1, <1>5, <1>7, <1>8, <1>9, <1>10 DEF StoreInv

LEMMA PromotedStore ==
    ASSUME TypeOK, StoreInv, Promoted
    PROVE  TypeOK' /\ StoreInv'
  <1>1. /\ op = "promote" /\ op' = "free" /\ skip' = 0 /\ count' = NumLegacy
        /\ owed' = owed \cup Elements(Legacy) /\ removed' = removed \ Elements(Legacy)
        /\ UNCHANGED <<added, lines, torn, summary, buf, tears, cut, faults>>
    BY DEF Promoted, Resets
  <1>2. Elements(Legacy) \subseteq Messages /\ \A m \in Elements(Legacy) : m \notin 1 .. NumMessages
    BY LegacyType
  <1>3. Len(lines) \in Nat
    BY HistoryType
  <1>4. TypeOK'
    BY <1>1, <1>2, <1>3, StoreAssumption DEF TypeOK
  <1>5. Past(owed)' /\ Past(removed)'
    BY <1>1, <1>2 DEF StoreInv, Past
  <1>6. QED
    BY <1>1, <1>4, <1>5 DEF StoreInv, Past

LEMMA CutStore ==
    ASSUME TypeOK, StoreInv, SecondWriteFails \/ Crash
    PROVE  TypeOK' /\ StoreInv'
  <1>1. /\ op # "free" /\ op' = "free" /\ cut' = cut \cup {op} /\ faults' \in 0 .. MaxFaults
        /\ \/ UNCHANGED <<lines, torn>>
           \/ op = "promote" /\ lines' = buf.lines /\ torn' = buf.torn
        /\ UNCHANGED <<added, skip, count, summary, buf, owed, removed, tears>>
    <2>1. faults \in 0 .. MaxFaults /\ MaxFaults \in Nat
      BY StoreAssumption DEF TypeOK
    <2>2. CASE SecondWriteFails
      BY <2>1, <2>2 DEF SecondWriteFails, Cut, Fault
    <2>3. CASE Crash
      BY <2>1, <2>3 DEF Crash, Cut, Fault, files
    <2>4. QED
      BY <2>2, <2>3
  <1>2. buf.lines \in Seq(Line) /\ buf.torn \in BOOLEAN
    BY DEF TypeOK
  <1>3. lines' \in Seq(Line) /\ torn' \in BOOLEAN /\ (torn' => lines' # <<>>)
    BY <1>1, <1>2 DEF TypeOK, StoreInv
  <1>4. "promote" \notin cut' => skip' <= Len(lines')
    BY <1>1 DEF TypeOK
  <1>5. TypeOK'
    BY <1>1, <1>3, <1>4 DEF TypeOK
  <1>6. Past(Elements(lines))' /\ Distinct(lines)'
    BY <1>1 DEF StoreInv, Past
  <1>7. QED
    BY <1>1, <1>5, <1>6 DEF StoreInv, Past

LEMMA NextStore == TypeOK /\ StoreInv /\ [Next]_vars => TypeOK' /\ StoreInv'
  <1> SUFFICES ASSUME TypeOK, StoreInv, [Next]_vars PROVE TypeOK' /\ StoreInv'
    OBVIOUS
  <1>1. CASE UNCHANGED vars \/ \E b \in BOOLEAN : SetSummary(b)
    BY <1>1, QuietStore
  <1>2. CASE AppendLine \/ AppendTears \/ AppendCounted
    BY <1>2, AppendStore, CountedStore
  <1>3. CASE \E n \in Keeps : TruncateHistory(n)
    BY <1>3, TruncateStore
  <1>4. CASE \E h \in Shortened : SetHistory(h)
    BY <1>4, SetStore
  <1>5. CASE Compact \/ RewriteJSONL
    BY <1>5, CompactStore, RewriteStore
  <1>6. CASE Promote \/ Promoted
    BY <1>6, PromoteStore, PromotedStore
  <1>7. CASE SecondWriteFails \/ Crash
    BY <1>7, CutStore
  <1>8. QED
    BY <1>1, <1>2, <1>3, <1>4, <1>5, <1>6, <1>7 DEF Next

LEMMA StoreInvCorrect == Spec => [](TypeOK /\ StoreInv)
  <1>1. QED
    BY InitStore, NextStore, PTL DEF Spec

(* The two files are always what the code takes them for: a metadata file     *)
(* that skips no more lines than there are, but for an interrupted promotion, *)
(* and a line without its end only where there is a line.                     *)
THEOREM StoreTypeCorrect == Spec => []TypeOK
  BY StoreInvCorrect, PTL

-----------------------------------------------------------------------------
(* What is lost.                                                             *)

(* An append that stopped part-way is a loss in store: of the line that is   *)
(* appended after it, for its own is owed to nobody.  A promotion finds      *)
(* nothing shown, so that all that is owed is lost already.                  *)
Lost == owed \ Shown
LossInv ==
    "promote" \notin cut =>
        /\ op # "promote" => Cardinality(Lost) <= tears
        /\ op # "promote" /\ torn => /\ Cardinality(Lost) + 1 <= tears
                                     /\ lines[Len(lines)] \notin owed
        /\ op = "append" /\ added \notin Shown => Cardinality(Lost) + 1 <= tears
        /\ op = "compact" => Cardinality(owed \ Elements(buf.lines)) <= tears
        /\ op = "promote" => Cardinality(owed) <= tears

LEMMA Fewer ==
    ASSUME NEW T \in SUBSET Messages, NEW S \in SUBSET T
    PROVE  Cardinality(S) \in Nat /\ Cardinality(T) \in Nat /\ Cardinality(S) <= Cardinality(T)
  <1>1. IsFiniteSet(Messages)
    BY StoreAssumption, FS_Interval DEF Messages
  <1>2. IsFiniteSet(T)
    BY <1>1, FS_Subset
  <1>3. QED
    BY <1>2, FS_Subset, FS_CardinalityType

(* A step that loses nothing more.                                           *)
LEMMA LossKept ==
    ASSUME TypeOK, Lost' \subseteq Lost, tears' = tears
    PROVE  /\ Cardinality(Lost) \in Nat /\ Cardinality(Lost') \in Nat /\ tears \in Nat
           /\ Cardinality(Lost) <= tears => Cardinality(Lost') <= tears'
           /\ Cardinality(Lost) + 1 <= tears => Cardinality(Lost') + 1 <= tears'
  <1>1. Lost \in SUBSET Messages /\ tears \in Nat
    BY DEF TypeOK, Lost
  <1> HIDE DEF Lost
  <1>2. /\ Cardinality(Lost') \in Nat /\ Cardinality(Lost) \in Nat
        /\ Cardinality(Lost') <= Cardinality(Lost)
    BY <1>1, Fewer
  <1>3. QED
    BY <1>1, <1>2

LEMMA InitLoss == Init => LossInv
  <1> SUFFICES ASSUME Init PROVE LossInv
    OBVIOUS
  <1>1. Lost = {} /\ Cardinality(Lost) = 0
    BY FS_EmptySet DEF Init, Lost
  <1>2. QED
    BY <1>1 DEF Init, LossInv

(* The line that an append adds is shown, unless it completes a torn one.    *)
LEMMA AppendLoss ==
    ASSUME TypeOK, StoreInv, LossInv, AppendLine \/ AppendTears
    PROVE  LossInv'
  <1> SUFFICES ASSUME "promote" \notin cut'
               PROVE  LossInv'
    BY DEF LossInv
  <1>1. /\ op = "free" /\ added + 1 \in 1 .. NumMessages /\ added' = added + 1
        /\ UNCHANGED <<skip, owed, cut>> /\ tears \in Nat /\ "promote" \notin cut
        /\ skip <= Len(lines)
    <2>1. added \in Nat /\ NumMessages \in Nat
      BY StoreAssumption DEF TypeOK
    <2>2. QED
      BY <2>1 DEF AppendLine, AppendTears, Offer, TypeOK
  <1>2. PICK x \in Line : lines' = Appended(x) /\ x \in {added + 1, Corrupt}
                          /\ (AppendLine => x = added + 1)
    <2>1. added + 1 \in Line /\ Corrupt \in Line
      BY <1>1, StoreAssumption DEF Line, Messages
    <2>2. QED
      BY <2>1 DEF AppendLine, AppendTears
  <1>3. added + 1 \notin owed /\ added + 1 # Corrupt /\ Corrupt \notin owed
    <2>1. added \in Nat
      BY DEF TypeOK
    <2>2. added + 1 \notin owed /\ added + 1 # Corrupt
      BY <1>1, <2>1 DEF StoreInv, Past, Corrupt
    <2>3. QED
      BY <2>2, LineIs DEF TypeOK
  <1>4. /\ Shown' = Beyond(Appended(x), skip)
        /\ torn => Shown \subseteq Shown' \cup {lines[Len(lines)]}
        /\ ~torn => Shown \subseteq Shown' /\ (x # Corrupt => x \in Shown')
        /\ lines'[Len(lines')] = IF torn THEN Corrupt ELSE x
    <2>1. Shown' = Beyond(Appended(x), skip)
      BY <1>1, <1>2 DEF Shown, Beyond
    <2>2. QED
      BY <1>1, <1>2, <2>1, AppendedType
  <1>5. Lost' \subseteq Lost
    BY <1>1, <1>4 DEF Lost, LossInv
  <1>6. /\ Cardinality(Lost) \in Nat /\ Cardinality(Lost') \in Nat
        /\ Cardinality(Lost') <= Cardinality(Lost)
    <2>1. Lost \in SUBSET Messages
      BY DEF Lost, TypeOK
    <2> HIDE DEF Lost
    <2>2. QED
      BY <1>5, <2>1, Fewer
  <1>7. /\ Cardinality(Lost) <= tears
        /\ torn => Cardinality(Lost) + 1 <= tears
    BY <1>1 DEF LossInv
  <1>8. lines'[Len(lines')] \notin owed'
    BY <1>1, <1>2, <1>3, <1>4
  <1>9. CASE AppendLine
    <2>1. op' = "append" /\ torn' = FALSE /\ tears' = tears
      BY <1>9 DEF AppendLine
    <2>2. added' \notin Shown' => torn
      BY <1>1, <1>2, <1>3, <1>4, <1>9
    <2> DEFINE a == Cardinality(Lost)
               b == Cardinality(Lost')
    <2>3. b <= tears /\ (torn => b + 1 <= tears)
      <3>1. a \in Nat /\ b \in Nat /\ b <= a /\ a <= tears /\ (torn => a + 1 <= tears)
        BY <1>6, <1>7
      <3> HIDE DEF a, b
      <3>2. QED
        BY <1>1, <3>1
    <2>4. QED
      BY <2>1, <2>2, <2>3 DEF LossInv
  <1>10. CASE AppendTears
    <2>1. op' = "free" /\ torn' = TRUE /\ tears' = tears + 1
      BY <1>1, <1>10 DEF AppendTears
    <2> DEFINE a == Cardinality(Lost)
               b == Cardinality(Lost')
    <2>2. b <= tears' /\ b + 1 <= tears'
      <3>1. a \in Nat /\ b \in Nat /\ b <= a /\ a <= tears
        BY <1>6, <1>7
      <3> HIDE DEF a, b
      <3>2. QED
        BY <1>1, <2>1, <3>1
    <2>3. QED
      BY <1>8, <2>1, <2>2 DEF LossInv
  <1>11. QED
    BY <1>9, <1>10

LEMMA QuietLoss ==
    ASSUME TypeOK, LossInv, UNCHANGED vars \/ \E b \in BOOLEAN : SetSummary(b)
    PROVE  LossInv'
  <1>1. UNCHANGED <<added, lines, torn, skip, op, buf, owed, tears, cut>>
    BY DEF vars, SetSummary
  <1>2. QED
    BY <1>1 DEF LossInv, Lost, Shown, Beyond

LEMMA CountedLoss ==
    ASSUME TypeOK, StoreInv, LossInv, AppendCounted
    PROVE  LossInv'
  <1>1. /\ op = "append" /\ op' = "free" /\ owed' = owed \cup {added} /\ ~torn /\ Shown' = Shown
        /\ UNCHANGED <<lines, torn, buf, tears, cut>>
    BY DEF AppendCounted, StoreInv, Shown, Beyond
  <1>2. Lost \in SUBSET Messages /\ tears \in Nat
    BY DEF Lost, TypeOK
  <1>3. ASSUME "promote" \notin cut PROVE Cardinality(Lost') <= tears
    <2>1. CASE added \in Shown
      <3>1. Lost' = Lost
        BY <1>1, <2>1 DEF Lost
      <3>2. QED
        BY <1>1, <1>3, <3>1 DEF LossInv
    <2>2. CASE added \notin Shown
      <3>1. Lost' = Lost \cup {added}
        BY <1>1, <2>2 DEF Lost
      <3>2. Cardinality(Lost) + 1 <= tears
        BY <1>1, <1>3, <2>2 DEF LossInv
      <3> DEFINE a == Cardinality(Lost)
                 b == Cardinality(Lost \cup {added})
      <3>3. a \in Nat /\ b \in Nat /\ b <= a + 1
        <4>1. IsFiniteSet(Messages)
          BY StoreAssumption, FS_Interval DEF Messages
        <4> HIDE DEF Lost
        <4>2. IsFiniteSet(Lost) /\ a \in Nat
          BY <1>2, <4>1, FS_Subset, FS_CardinalityType
        <4>3. b = IF added \in Lost THEN a ELSE a + 1
          BY <4>2, FS_AddElement
        <4> HIDE DEF a, b
        <4>4. QED
          BY <4>2, <4>3
      <3> HIDE DEF a, b
      <3>4. b <= tears
        BY <1>2, <3>2, <3>3 DEF a
      <3>5. QED
        BY <3>1, <3>4 DEF b
    <2>3. QED
      BY <2>1, <2>2
  <1>4. QED
    BY <1>1, <1>3 DEF LossInv

(* What a truncation hides is owed no more.                                  *)
LEMMA TruncateLoss ==
    ASSUME TypeOK, StoreInv, LossInv, NEW n, TruncateHistory(n)
    PROVE  LossInv'
  <1>1. PICK k \in 0 .. Len(lines) : Hides(k)
    BY TruncateHides
  <1>2. /\ op = "free" /\ skip' = k /\ owed' = owed \ Elements(SubSeq(lines, 1, k))
        /\ UNCHANGED <<added, lines, torn, op, buf, tears, cut>>
    BY <1>1 DEF Hides, TruncateHistory
  <1>3. Elements(lines) \ {Corrupt} \subseteq Elements(SubSeq(lines, 1, k)) \cup Beyond(lines, k)
    <2> DEFINE l == Len(lines)
               p == SubSeq(lines, 1, k)
    <2>1. l \in Nat /\ k \in 0 .. l /\ DOMAIN lines = 1 .. l /\ \A i \in 1 .. l : lines[i] \in Line
      BY ParsingType DEF TypeOK
    <2>2. \A i \in 1 .. l : lines[i] # Corrupt /\ i > k => lines[i] \in Beyond(lines, k)
      <3>1. \A i \in 1 .. l : i > k => i \in k + 1 .. l
        BY <2>1
      <3>2. QED
        BY <3>1 DEF Beyond
    <2> HIDE DEF l
    <2>3. \A i \in 1 .. k : i \in 1 .. l
      BY <2>1
    <2>4. p \in Seq(Line) /\ Len(p) = k /\ \A i \in 1 .. k : p[i] = lines[i]
      <3>1. /\ p \in Seq(Line) /\ Len(p) = IF 1 <= k THEN k - 1 + 1 ELSE 0
            /\ \A i \in 1 .. k - 1 + 1 : p[i] = lines[1 + i - 1]
        BY <2>1, <2>3, SubSeqProperties
      <3> HIDE DEF p
      <3>2. QED
        BY <2>1, <3>1
    <2>5. DOMAIN p = 1 .. k
      BY <2>4, LenProperties
    <2>6. \A i \in 1 .. l : i <= k => lines[i] \in Elements(p)
      <3>1. \A i \in 1 .. l : i <= k => i \in 1 .. k
        BY <2>1
      <3> HIDE DEF p
      <3>2. QED
        BY <2>4, <2>5, <3>1 DEF Elements
    <2>7. \A i \in 1 .. l : i <= k \/ i > k
      BY <2>1
    <2>8. QED
      BY <2>1, <2>2, <2>6, <2>7 DEF Elements
  <1>4. Lost' \subseteq Lost
    <2>1. Shown' = Beyond(lines, k)
      BY <1>2 DEF Shown, Beyond
    <2>2. Shown \subseteq Elements(lines) /\ Corrupt \notin Shown
      BY HistoryType DEF Shown, Beyond
    <2>3. QED
      BY <1>2, <1>3, <2>1, <2>2 DEF Lost
  <1>5. QED
    BY <1>2, <1>4, LossKept DEF LossInv

(* Between the two writes of a replacement everything in the log is shown.   *)
LEMMA SetLoss ==
    ASSUME TypeOK, StoreInv, LossInv, NEW h \in Shortened, SetHistory(h)
    PROVE  LossInv'
  <1>1. /\ op = "free" /\ op' = "set" /\ skip' = 0
        /\ UNCHANGED <<lines, torn, owed, tears, cut>>
    BY DEF SetHistory, Resets
  <1>2. Shown \subseteq Shown'
    <2>1. \A i \in skip + 1 .. Len(lines) : i \in 0 + 1 .. Len(lines)
      BY HistoryType DEF TypeOK
    <2>2. QED
      BY <1>1, <2>1 DEF Shown, Beyond
  <1>3. Lost' \subseteq Lost
    BY <1>1, <1>2 DEF Lost
  <1>4. QED
    BY <1>1, <1>3, LossKept DEF LossInv

LEMMA CompactLoss ==
    ASSUME TypeOK, StoreInv, LossInv, Compact
    PROVE  LossInv'
  <1>1. /\ op = "free" /\ op' = "compact" /\ skip' = 0 /\ buf'.lines = History
        /\ UNCHANGED <<lines, torn, owed, tears, cut>>
    BY DEF Compact, Resets
  <1>2. Shown \subseteq Shown'
    <2>1. \A i \in skip + 1 .. Len(lines) : i \in 0 + 1 .. Len(lines)
      BY HistoryType DEF TypeOK
    <2>2. QED
      BY <1>1, <2>1 DEF Shown, Beyond
  <1>3. Lost' \subseteq Lost
    BY <1>1, <1>2 DEF Lost
  <1>4. owed' \ Elements(buf'.lines) = Lost
    BY <1>1, HistoryType DEF Lost
  <1>5. QED
    BY <1>1, <1>3, <1>4, LossKept DEF LossInv

LEMMA RewriteLoss ==
    ASSUME TypeOK, StoreInv, LossInv, RewriteJSONL
    PROVE  LossInv'
  <1>1. /\ op \in {"set", "compact"} /\ op' = "free" /\ lines' = buf.lines /\ torn' = buf.torn
        /\ owed' = IF op = "set" THEN Elements(buf.lines) ELSE owed
        /\ UNCHANGED <<skip, buf, tears, cut>>
    BY DEF RewriteJSONL
  <1>2. skip = 0 /\ ~buf.torn /\ buf.lines \in Seq(Messages) /\ tears \in Nat
    BY <1>1 DEF StoreInv, TypeOK
  <1>3. Shown' = Elements(buf.lines)
    <2>1. /\ DOMAIN buf.lines = 1 .. Len(buf.lines)
          /\ \A i \in 1 .. Len(buf.lines) : buf.lines[i] \in Messages
      BY <1>2, LenProperties, ElementOfSeq
    <2>2. \A i \in 1 .. Len(buf.lines) : buf.lines[i] # Corrupt
      BY <2>1, LineIs
    <2>3. QED
      BY <1>1, <1>2, <2>1, <2>2 DEF Shown, Beyond, Elements
  <1>4. CASE op = "set"
    <2>1. Lost' = {}
      BY <1>1, <1>3, <1>4 DEF Lost
    <2>2. Cardinality(Lost') <= tears'
      BY <1>1, <1>2, <2>1, FS_EmptySet
    <2>3. QED
      BY <1>1, <1>2, <2>2 DEF LossInv
  <1>5. CASE op = "compact"
    <2>1. Lost' = owed \ Elements(buf.lines)
      BY <1>1, <1>3, <1>5 DEF Lost
    <2>2. QED
      BY <1>1, <1>2, <1>5, <2>1 DEF LossInv
  <1>6. QED
    BY <1>1, <1>4, <1>5

(* A promotion starts where nothing is shown.                                *)
LEMMA PromoteLoss ==
    ASSUME TypeOK, StoreInv, LossInv, Promote \/ Promoted
    PROVE  LossInv'
  <1>1. CASE Promote
    <2>1. /\ op = "free" /\ op' = "promote" /\ History = <<>> /\ UNCHANGED <<owed, tears, cut>>
      BY <1>1 DEF Promote
    <2>2. Shown = {}
      <3>1. Elements(History) = {}
        BY <2>1 DEF Elements
      <3>2. QED
        BY <3>1, HistoryType
    <2>3. Lost = owed
      BY <2>2 DEF Lost
    <2>4. QED
      BY <2>1, <2>3 DEF LossInv
  <1>2. CASE Promoted
    <2>1. /\ op = "promote" /\ op' = "free" /\ lines = Legacy /\ ~torn /\ skip' = 0
          /\ owed' = owed \cup Elements(Legacy) /\ UNCHANGED <<lines, torn, tears, cut>>
      BY <1>2 DEF Promoted, Resets, StoreInv
    <2>2. Shown' = Elements(Legacy)
      <3>1. DOMAIN lines = 1 .. Len(lines)
        BY HistoryType
      <3>2. Corrupt \notin Elements(Legacy)
        BY LegacyType, LineIs
      <3>3. QED
        BY <2>1, <3>1, <3>2 DEF Shown, Beyond, Elements
    <2>3. Lost' \in SUBSET owed /\ owed \in SUBSET Messages
      BY <2>1, <2>2 DEF Lost, TypeOK
    <2>4. tears \in Nat
      BY DEF TypeOK
    <2> HIDE DEF Lost
    <2>5. /\ Cardinality(Lost') \in Nat /\ Cardinality(owed) \in Nat
          /\ Cardinality(Lost') <= Cardinality(owed)
      BY <2>3, Fewer
    <2>6. "promote" \notin cut => Cardinality(owed) <= tears
      BY <2>1 DEF LossInv
    <2>7. "promote" \notin cut => Cardinality(Lost') <= tears
      BY <2>4, <2>5, <2>6
    <2>8. QED
      BY <2>1, <2>7 DEF LossInv
  <1>3. QED
    BY <1>1, <1>2

LEMMA CutLoss ==
    ASSUME TypeOK, StoreInv, LossInv, SecondWriteFails \/ Crash
    PROVE  LossInv'
  <1>1. SUFFICES ASSUME "promote" \notin cut' PROVE LossInv'
    BY DEF LossInv
  <1>2. /\ op # "promote" /\ op' = "free" /\ "promote" \notin cut
        /\ UNCHANGED <<lines, torn, skip, owed, tears>>
    BY <1>1 DEF SecondWriteFails, Crash, Cut, files
  <1>3. Lost' = Lost
    BY <1>2 DEF Lost, Shown, Beyond
  <1>4. QED
    BY <1>2, <1>3 DEF LossInv

LEMMA NextLoss == TypeOK /\ StoreInv /\ LossInv /\ [Next]_vars => LossInv'
  <1> SUFFICES ASSUME TypeOK, StoreInv, LossInv, [Next]_vars PROVE LossInv'
    OBVIOUS
  <1>1. CASE UNCHANGED vars \/ \E b \in BOOLEAN : SetSummary(b)
    BY <1>1, QuietLoss
  <1>2. CASE AppendLine \/ AppendTears \/ AppendCounted
    BY <1>2, AppendLoss, CountedLoss
  <1>3. CASE \E n \in Keeps : TruncateHistory(n)
    BY <1>3, TruncateLoss
  <1>4. CASE \E h \in Shortened : SetHistory(h)
    BY <1>4, SetLoss
  <1>5. CASE Compact \/ RewriteJSONL
    BY <1>5, CompactLoss, RewriteLoss
  <1>6. CASE Promote \/ Promoted
    BY <1>6, PromoteLoss
  <1>7. CASE SecondWriteFails \/ Crash
    BY <1>7, CutLoss
  <1>8. QED
    BY <1>1, <1>2, <1>3, <1>4, <1>5, <1>6, <1>7 DEF Next

-----------------------------------------------------------------------------
(* What was removed is not shown again.                                      *)
AwayInv ==
    {"set", "compact"} \cap cut = {} =>
        /\ op \in {"free", "append"} => removed \cap Shown \cap 1 .. NumMessages = {}
        /\ op = "compact" => removed \cap Elements(buf.lines) \cap 1 .. NumMessages = {}

(* A step that shows nothing more and removes nothing more.                  *)
LEMMA AwayKept ==
    ASSUME AwayInv, cut \subseteq cut', op \in {"free", "append"}, op' # "compact",
           Shown' \subseteq Shown, removed' \subseteq removed
    PROVE  AwayInv'
  BY DEF AwayInv

LEMMA QuietAway ==
    ASSUME AwayInv, UNCHANGED vars \/ (\E b \in BOOLEAN : SetSummary(b)) \/ AppendCounted
    PROVE  AwayInv'
  <1>1. UNCHANGED <<lines, skip, buf, removed, cut>> /\ Shown' = Shown
    BY DEF vars, SetSummary, AppendCounted, Shown, Beyond
  <1>2. UNCHANGED op \/ (op = "append" /\ op' = "free")
    BY DEF vars, SetSummary, AppendCounted
  <1>3. QED
    BY <1>1, <1>2 DEF AwayInv

(* What is appended was not removed: it is new.                              *)
LEMMA AppendAway ==
    ASSUME TypeOK, StoreInv, AwayInv, AppendLine \/ AppendTears
    PROVE  AwayInv'
  <1>1. /\ op = "free" /\ op' \in {"free", "append"} /\ UNCHANGED <<skip, removed, cut>>
        /\ added + 1 \in 1 .. NumMessages /\ added \in Nat
    <2>1. added \in Nat /\ NumMessages \in Nat
      BY StoreAssumption DEF TypeOK
    <2>2. QED
      BY <2>1 DEF AppendLine, AppendTears, Offer
  <1>2. PICK x \in Line : lines' = Appended(x) /\ x \in {added + 1, Corrupt}
    <2>1. added + 1 \in Line /\ Corrupt \in Line
      BY <1>1, StoreAssumption DEF Line, Messages
    <2>2. QED
      BY <2>1 DEF AppendLine, AppendTears
  <1>3. added + 1 \notin removed /\ Corrupt \notin 1 .. NumMessages
    BY <1>1 DEF StoreInv, Past, Corrupt
  <1>4. Shown' = Beyond(Appended(x), skip)
    BY <1>1, <1>2 DEF Shown, Beyond
  <1>5. Shown' \subseteq Shown \cup {x}
    BY <1>4, AppendedType DEF TypeOK
  <1>6. QED
    BY <1>1, <1>2, <1>3, <1>5 DEF AwayInv

(* The lines a truncation hides are not among those it leaves, for no        *)
(* message is there twice.                                                   *)
LEMMA TruncateAway ==
    ASSUME TypeOK, StoreInv, AwayInv, NEW n, TruncateHistory(n)
    PROVE  AwayInv'
  <1>1. PICK k \in 0 .. Len(lines) : Hides(k) /\ (skip <= k \/ k = Len(lines))
    BY TruncateHides
  <1> DEFINE l == Len(lines)
             gone == Elements(SubSeq(lines, 1, k))
  <1>2. /\ op = "free" /\ skip' = k /\ removed' = removed \cup (gone \ {Corrupt})
        /\ UNCHANGED <<lines, op, cut>>
    BY <1>1 DEF Hides, TruncateHistory
  <1>3. /\ l \in Nat /\ k \in 0 .. l /\ DOMAIN lines = 1 .. l /\ skip \in Nat
        /\ \A i \in 1 .. l : lines[i] \in Line
    BY ParsingType DEF TypeOK
  <1>4. Shown' = {lines[i] : i \in k + 1 .. l} \ {Corrupt}
    BY <1>2 DEF Shown, Beyond
  <1>5. Shown = {lines[i] : i \in skip + 1 .. l} \ {Corrupt}
    BY DEF Shown, Beyond
  <1>6. \A m \in gone : \E i \in 1 .. k : m = lines[i]
    <2> DEFINE p == SubSeq(lines, 1, k)
    <2> HIDE DEF l
    <2>1. \A i \in 1 .. k : i \in 1 .. l
      BY <1>3
    <2>2. /\ p \in Seq(Line) /\ Len(p) = IF 1 <= k THEN k - 1 + 1 ELSE 0
          /\ \A i \in 1 .. k - 1 + 1 : p[i] = lines[1 + i - 1]
      BY <1>3, <2>1, SubSeqProperties
    <2>3. DOMAIN p = 1 .. Len(p)
      BY <2>2, LenProperties
    <2> HIDE DEF p
    <2>4. \A i \in DOMAIN p : i \in 1 .. k /\ p[i] = lines[i]
      BY <1>3, <2>2, <2>3
    <2>5. QED
      BY <2>4 DEF Elements, p
  <1> HIDE DEF l, gone
  <1>7. Shown' \subseteq Shown
    <2>1. skip <= k \/ k = l
      BY <1>1 DEF l
    <2>2. \A i \in k + 1 .. l : i \in skip + 1 .. l
      BY <1>3, <2>1
    <2>3. QED
      BY <1>4, <1>5, <2>2
  <1>8. gone \cap Shown' = {}
    <2>1. SUFFICES ASSUME NEW m \in gone, m \in Shown' PROVE FALSE
      OBVIOUS
    <2>2. PICK i \in 1 .. k : m = lines[i]
      BY <1>6
    <2>3. PICK j \in k + 1 .. l : m = lines[j] /\ m # Corrupt
      BY <1>4, <2>1
    <2>4. i \in 1 .. l /\ j \in 1 .. l /\ i # j
      BY <1>3
    <2>5. QED
      BY <1>3, <2>2, <2>3, <2>4 DEF StoreInv, Distinct
  <1>9. QED
    BY <1>2, <1>7, <1>8 DEF AwayInv

LEMMA SetAway == AwayInv /\ (\E h \in Shortened : SetHistory(h)) => AwayInv'
  BY DEF AwayInv, SetHistory

LEMMA CompactAway ==
    ASSUME TypeOK, AwayInv, Compact
    PROVE  AwayInv'
  <1>1. op = "free" /\ op' = "compact" /\ buf'.lines = History /\ UNCHANGED <<removed, cut>>
    BY DEF Compact
  <1>2. Elements(buf'.lines) = Shown
    BY <1>1, HistoryType
  <1>3. QED
    BY <1>1, <1>2 DEF AwayInv

LEMMA RewriteAway ==
    ASSUME TypeOK, StoreInv, AwayInv, RewriteJSONL
    PROVE  AwayInv'
  <1>1. /\ op \in {"set", "compact"} /\ op' = "free" /\ lines' = buf.lines
        /\ removed' = IF op = "set" THEN removed \ Elements(buf.lines) ELSE removed
        /\ UNCHANGED <<skip, buf, cut>>
    BY DEF RewriteJSONL
  <1>2. skip = 0 /\ buf.lines \in Seq(Messages)
    BY <1>1 DEF StoreInv
  <1>3. Shown' \subseteq Elements(buf.lines)
    <2>1. DOMAIN buf.lines = 1 .. Len(buf.lines)
      BY <1>2, LenProperties
    <2>2. QED
      BY <1>1, <1>2, <2>1 DEF Shown, Beyond, Elements
  <1>4. QED
    BY <1>1, <1>3 DEF AwayInv

(* A legacy session's messages are none that addMsg was offered.             *)
LEMMA PromoteAway ==
    ASSUME TypeOK, StoreInv, AwayInv, Promote \/ Promoted
    PROVE  AwayInv'
  <1>1. CASE Promote
    BY <1>1 DEF Promote, AwayInv
  <1>2. CASE Promoted
    <2>1. op' = "free" /\ skip' = 0 /\ lines' = Legacy
      BY <1>2 DEF Promoted, Resets, StoreInv
    <2>2. Shown' \subseteq Elements(Legacy)
      <3>1. DOMAIN Legacy = 1 .. Len(Legacy)
        BY LegacyType, LenProperties
      <3>2. QED
        BY <2>1, <3>1 DEF Shown, Beyond, Elements
    <2>3. Shown' \cap 1 .. NumMessages = {}
      BY <2>2, LegacyType
    <2>4. QED
      BY <2>1, <2>3 DEF AwayInv
  <1>3. QED
    BY <1>1, <1>2

LEMMA CutAway ==
    ASSUME TypeOK, StoreInv, AwayInv, SecondWriteFails \/ Crash
    PROVE  AwayInv'
  <1> SUFFICES ASSUME {"set", "compact"} \cap cut' = {}
               PROVE  AwayInv'
    BY DEF AwayInv
  <1>1. /\ op \in {"append", "promote"} /\ op' = "free" /\ UNCHANGED <<skip, removed>>
        /\ cut \subseteq cut'
    BY DEF SecondWriteFails, Crash, Cut, files, TypeOK
  <1>2. UNCHANGED lines \/ (op = "promote" /\ lines' = buf.lines)
    BY DEF SecondWriteFails, Crash, files
  <1>3. CASE op = "append"
    <2>1. Shown' = Shown
      BY <1>1, <1>2, <1>3 DEF Shown, Beyond
    <2>2. QED
      BY <1>1, <1>3, <2>1, AwayKept
  <1>4. CASE op = "promote" /\ lines' = buf.lines
    <2>1. Shown' = {}
      BY <1>1, <1>4 DEF Shown, Beyond, StoreInv
    <2>2. QED
      BY <1>1, <2>1 DEF AwayInv
  <1>5. CASE op = "promote" /\ UNCHANGED lines
    <2>1. Shown' \subseteq Elements(Legacy)
      <3>1. DOMAIN Legacy = 1 .. Len(Legacy) /\ lines' = Legacy
        BY <1>5, LegacyType, LenProperties DEF StoreInv
      <3>2. \A i \in skip + 1 .. Len(Legacy) : i \in 1 .. Len(Legacy)
        BY LegacyType, StoreAssumption DEF TypeOK
      <3>3. QED
        BY <1>1, <3>1, <3>2 DEF Shown, Beyond, Elements
    <2>2. Shown' \cap 1 .. NumMessages = {}
      BY <2>1, LegacyType
    <2>3. QED
      BY <1>1, <2>2 DEF AwayInv
  <1>6. QED
    BY <1>1, <1>2, <1>3, <1>4, <1>5

LEMMA NextAway == TypeOK /\ StoreInv /\ AwayInv /\ [Next]_vars => AwayInv'
  <1> SUFFICES ASSUME TypeOK, StoreInv, AwayInv, [Next]_vars PROVE AwayInv'
    OBVIOUS
  <1>1. CASE UNCHANGED vars \/ (\E b \in BOOLEAN : SetSummary(b)) \/ AppendCounted
    BY <1>1, QuietAway
  <1>2. CASE AppendLine \/ AppendTears
    BY <1>2, AppendAway
  <1>3. CASE \E n \in Keeps : TruncateHistory(n)
    BY <1>3, TruncateAway
  <1>4. CASE \E h \in Shortened : SetHistory(h)
    BY <1>4, SetAway
  <1>5. CASE Compact \/ RewriteJSONL
    BY <1>5, CompactAway, RewriteAway
  <1>6. CASE Promote \/ Promoted
    BY <1>6, PromoteAway
  <1>7. CASE SecondWriteFails \/ Crash
    BY <1>7, CutAway
  <1>8. QED
    BY <1>1, <1>2, <1>3, <1>4, <1>5, <1>6, <1>7 DEF Next

(* A crash or a failed write, at any point of any operation, loses at most    *)
(* one acknowledged message per torn append, and brings no truncated message  *)
(* back unless it interrupts a replacement of the log: FilesAreKept, the      *)
(* promise of the order in which jsonl.go writes its two files.               *)
THEOREM FilesAreKeptCorrect == Spec => []FilesAreKept
  <1>1. Init => AwayInv
    BY DEF Init, AwayInv
  <1>2. TypeOK /\ LossInv /\ AwayInv => FilesAreKept
    <2> SUFFICES ASSUME TypeOK, LossInv, AwayInv PROVE FilesAreKept
      OBVIOUS
    <2>1. LossBounded
      <3>1. owed \ Elements(History) = Lost
        BY HistoryType DEF Lost
      <3>2. QED
        BY <3>1 DEF LossBounded, LossInv
    <2>2. TruncatedStaysAway
      BY HistoryType DEF TruncatedStaysAway, AwayInv
    <2>3. QED
      BY <2>1, <2>2 DEF FilesAreKept
  <1>3. QED
    BY <1>1, <1>2, InitStore, InitLoss, NextStore, NextLoss, NextAway, PTL DEF Spec

-----------------------------------------------------------------------------
(* What a truncation keeps.                                                  *)

(* The lines up to i are those up to k and those from there to i.            *)
After(S, k) == {j \in S : j > k}

LEMMA UptoSplit ==
    ASSUME NEW l \in Nat, NEW S \in SUBSET (1 .. l), NEW k \in 0 .. l
    PROVE  LET A == After(S, k)
               c == Cardinality(Upto(S, k))
           IN  /\ A \in SUBSET (1 .. l) /\ c \in Nat /\ Cardinality(A) \in Nat
               /\ Cardinality(S) = c + Cardinality(A)
               /\ \A i \in A : Cardinality(Upto(S, i)) = c + Cardinality(Upto(A, i))
  <1> DEFINE A == After(S, k)
             c == Cardinality(Upto(S, k))
  <1>1. /\ IsFiniteSet(Upto(S, k)) /\ c \in Nat
        /\ \A j \in S : j \in 1 .. l /\ j \in Nat
        /\ A \in SUBSET (1 .. l)
    <2>1. \A j \in S : j \in 1 .. l /\ j \in Nat
      OBVIOUS
    <2>2. IsFiniteSet(Upto(S, k)) /\ c \in Nat
      BY UptoType
    <2>3. QED
      BY <2>1, <2>2 DEF After
  <1>2. \A j \in A : j > k /\ j \in S
    BY DEF After
  <1>3. ASSUME NEW x \in 0 .. l, k <= x
        PROVE  Cardinality(Upto(S, x)) = c + Cardinality(Upto(A, x))
    <2>1. Upto(S, x) = Upto(S, k) \cup Upto(A, x)
      <3>1. \A j \in S : j <= x <=> j <= k \/ (j > k /\ j <= x)
        BY <1>1, <1>3
      <3>2. QED
        BY <3>1 DEF Upto, After
    <2>2. Upto(S, k) \cap Upto(A, x) = {}
      <3>1. \A j \in S : ~(j <= k /\ j > k)
        BY <1>1
      <3>2. QED
        BY <3>1 DEF Upto, After
    <2> HIDE DEF A
    <2>3. IsFiniteSet(Upto(A, x)) /\ Cardinality(Upto(A, x)) \in Nat
      BY <1>1, UptoType
    <2>4. Cardinality(Upto(S, x))
              = c + Cardinality(Upto(A, x)) - Cardinality(Upto(S, k) \cap Upto(A, x))
      BY <1>1, <2>1, <2>3, FS_Union
    <2>5. Cardinality(Upto(S, k) \cap Upto(A, x)) = 0
      BY <2>2, FS_EmptySet
    <2>6. c + Cardinality(Upto(A, x)) - 0 = c + Cardinality(Upto(A, x))
      BY <1>1, <2>3
    <2>7. QED
      BY <2>4, <2>5, <2>6
  <1>4. \A i \in A : i \in 0 .. l /\ k <= i
    BY <1>1, <1>2
  <1>5. Upto(S, l) = S
    <2>1. \A j \in S : j <= l
      BY <1>1
    <2>2. QED
      BY <2>1 DEF Upto
  <1>6. Upto(A, l) = A
    <2>1. \A j \in A : j <= l
      BY <1>1
    <2> HIDE DEF A
    <2>2. QED
      BY <2>1 DEF Upto
  <1> HIDE DEF A
  <1>7. Cardinality(A) \in Nat
    BY <1>1, UptoType
  <1>8. l \in 0 .. l /\ k <= l
    OBVIOUS
  <1>9. QED
    BY <1>1, <1>3, <1>4, <1>5, <1>6, <1>7, <1>8 DEF A

(* Reading on from a later line shows the end of what was shown, as long as   *)
(* the messages from there on.                                               *)
LEMMA EndKept ==
    ASSUME NEW ls \in Seq(Line), NEW a \in 0 .. Len(ls), NEW b \in 0 .. Len(ls), NEW kept \in Nat,
           LET P == Parsing(ls) IN
               /\ kept <= Cardinality(P) - Cardinality(Upto(P, a))
               /\ Cardinality(P) - Cardinality(Upto(P, b)) = kept
    PROVE  LET before == Retained(SubSeq(ls, a + 1, Len(ls))) IN
               Retained(SubSeq(ls, b + 1, Len(ls)))
                   = SubSeq(before, Len(before) - kept + 1, Len(before))
  <1> DEFINE P == Parsing(ls)
             C == Cardinality(P)
             c == Cardinality(Upto(P, a))
             d == Cardinality(Upto(P, b))
             before == Retained(SubSeq(ls, a + 1, Len(ls)))
             after == Retained(SubSeq(ls, b + 1, Len(ls)))
             l == Len(before)
  <1>1. /\ SubSeq(ls, a + 1, Len(ls)) \in Seq(Line) /\ c \in 0 .. C
        /\ Cardinality(Parsing(SubSeq(ls, a + 1, Len(ls)))) = C - c
        /\ \A n \in 1 .. C - c : before[n] = Retained(ls)[c + n]
    BY RetainedSuffix
  <1>2. /\ SubSeq(ls, b + 1, Len(ls)) \in Seq(Line) /\ d \in 0 .. C
        /\ Cardinality(Parsing(SubSeq(ls, b + 1, Len(ls)))) = C - d
        /\ \A n \in 1 .. C - d : after[n] = Retained(ls)[d + n]
    BY RetainedSuffix
  <1>3. before \in Seq(Messages) /\ l = C - c
    BY <1>1, RetainedType
  <1>4. after \in Seq(Messages) /\ Len(after) = C - d
    BY <1>2, RetainedType
  <1>5. C \in Nat
    BY ParsingType
  <1>6. kept <= C - c /\ C - d = kept
    OBVIOUS
  <1>7. \A i \in 1 .. l : before[i] \in Messages
    BY <1>3, ElementOfSeq
  <1> HIDE DEF C, c, d, before, after, l
  <1>8. l \in Nat /\ kept <= l
    BY <1>1, <1>3, <1>5, <1>6
  <1> DEFINE s == SubSeq(before, l - kept + 1, l)
  <1>9. /\ s \in Seq(Messages)
        /\ Len(s) = IF l - kept + 1 <= l THEN l - (l - kept + 1) + 1 ELSE 0
        /\ \A i \in 1 .. l - (l - kept + 1) + 1 : s[i] = before[l - kept + 1 + i - 1]
    <2>1. \A i \in l - kept + 1 .. l : before[i] \in Messages
      BY <1>7, <1>8
    <2>2. l - kept + 1 \in Int /\ l \in Int
      BY <1>8
    <2>3. QED
      BY <2>1, <2>2, SubSeqProperties
  <1> HIDE DEF s
  <1>10. Len(s) = kept /\ \A i \in 1 .. kept : s[i] = before[l - kept + i]
    BY <1>8, <1>9
  <1>11. \A i \in 1 .. kept : s[i] = after[i]
    <2>1. ASSUME NEW i \in 1 .. kept
          PROVE  s[i] = after[i]
      <3>1. /\ l - kept + i \in 1 .. C - c /\ i \in 1 .. C - d
            /\ c + (l - kept + i) = d + i
        BY <1>1, <1>2, <1>3, <1>5, <1>6, <1>8
      <3>2. QED
        BY <1>1, <1>2, <1>10, <3>1
    <2>2. QED
      BY <2>1
  <1>12. Len(after) = Len(s) /\ \A i \in 1 .. Len(after) : after[i] = s[i]
    BY <1>4, <1>6, <1>10, <1>11
  <1>13. after = s
    BY <1>4, <1>9, <1>12, SeqEqual
  <1>14. QED
    BY <1>13 DEF s, after, before, l

(* The code's arithmetic on line numbers keeps as many messages as it says.  *)
LEMMA TruncateKept ==
    ASSUME TypeOK, NEW n \in Nat, TruncateHistory(n)
    PROVE  LET kept == IF n < Len(History) THEN n ELSE Len(History) IN
               History' = SubSeq(History, Len(History) - kept + 1, Len(History))
  <1> DEFINE l == Len(lines)
             P == Parsing(lines)
             start == IF skip > l THEN l ELSE skip
             active == {i \in start + 1 .. l : lines[i] # Corrupt}
             size == Len(History)
             kept == IF n < size THEN n ELSE size
             c == Cardinality(Upto(P, start))
  <1>1. /\ l \in Nat /\ skip \in Nat /\ lines \in Seq(Line) /\ DOMAIN lines = 1 .. l
        /\ P \in SUBSET (1 .. l) /\ Cardinality(P) \in Nat
    BY ParsingType DEF TypeOK
  <1>2. start \in 0 .. l
    BY <1>1
  <1>3. History = Retained(SubSeq(lines, start + 1, l))
    <2>1. CASE skip > l
      <3>1. SubSeq(lines, skip + 1, l) = <<>> /\ SubSeq(lines, l + 1, l) = <<>>
        BY <1>1, <2>1, SubSeqEmpty
      <3>2. QED
        BY <2>1, <3>1 DEF History
    <2>2. CASE ~(skip > l)
      BY <2>2 DEF History
    <2>3. QED
      BY <2>1, <2>2
  <1>4. active = {j \in P : j > start}
    <2>1. \A j \in 1 .. l : j > start <=> j \in start + 1 .. l
      BY <1>1, <1>2
    <2>2. \A j \in start + 1 .. l : j \in 1 .. l
      BY <1>1, <1>2
    <2> HIDE DEF l, start
    <2>3. QED
      BY <1>1, <2>1, <2>2 DEF Parsing
  <1>5. /\ op = "free"
        /\ \/ (n = 0 \/ active = {}) /\ Hides(l)
           \/ \E i \in active : /\ Cardinality(Upto(active, i)) = Cardinality(active) - n
                                /\ n > 0 /\ Hides(i)
           \/ n >= Cardinality(active) /\ active # {} /\ Hides(start)
    BY DEF TruncateHistory
  <1>6. size = Cardinality(P) - c /\ size \in Nat /\ c \in Nat
    <2>1. /\ SubSeq(lines, start + 1, l) \in Seq(Line) /\ c \in 0 .. Cardinality(P)
          /\ Cardinality(Parsing(SubSeq(lines, start + 1, l))) = Cardinality(P) - c
      BY <1>1, <1>2, RetainedSuffix
    <2>2. size = Cardinality(P) - c
      BY <1>3, <2>1, RetainedType
    <2> HIDE DEF size, c, P
    <2>3. QED
      BY <1>1, <2>1, <2>2
  <1> HIDE DEF l, P, start, active, size, c
  <1>7. /\ active \in SUBSET (1 .. l) /\ Cardinality(active) \in Nat
        /\ Cardinality(P) = c + Cardinality(active)
        /\ \A i \in active : Cardinality(Upto(P, i)) = c + Cardinality(Upto(active, i))
    <2> DEFINE A == After(P, start)
    <2>1. /\ A \in SUBSET (1 .. l) /\ Cardinality(A) \in Nat
          /\ Cardinality(P) = c + Cardinality(A)
          /\ \A i \in A : Cardinality(Upto(P, i)) = c + Cardinality(Upto(A, i))
      BY <1>1, <1>2, UptoSplit DEF c
    <2>2. active = A
      BY <1>4 DEF After
    <2> HIDE DEF A
    <2>3. QED
      BY <2>1, <2>2
  <1>8. size = Cardinality(active)
    BY <1>6, <1>7
  <1>9. kept \in Nat /\ kept <= size
    BY <1>6
  <1>10. ASSUME NEW b \in 0 .. l, Hides(b), Cardinality(P) - Cardinality(Upto(P, b)) = kept
         PROVE  History' = SubSeq(History, size - kept + 1, size)
    <2>1. History' = Retained(SubSeq(lines, b + 1, l))
      BY <1>10 DEF Hides, History, l
    <2> HIDE DEF kept
    <2>2. kept <= Cardinality(P) - Cardinality(Upto(P, start))
      BY <1>6, <1>9 DEF c
    <2>3. QED
      BY <1>1, <1>2, <1>3, <1>9, <1>10, <2>1, <2>2, EndKept DEF l, P, size
  <1>11. ASSUME n = 0 \/ active = {}, Hides(l)
         PROVE  History' = SubSeq(History, size - kept + 1, size)
    <2>1. kept = 0
      <3>1. active = {} => size = 0
        BY <1>8, FS_EmptySet
      <3>2. QED
        BY <1>6, <1>11, <3>1
    <2>2. Upto(P, l) = P
      <3>1. \A j \in P : j <= l
        BY <1>1
      <3>2. QED
        BY <3>1 DEF Upto
    <2>3. Cardinality(P) - Cardinality(Upto(P, l)) = kept
      BY <1>1, <2>1, <2>2
    <2>4. l \in 0 .. l
      BY <1>1
    <2>5. QED
      BY <1>10, <1>11, <2>3, <2>4
  <1>12. ASSUME NEW i \in active, n > 0, Hides(i),
                Cardinality(Upto(active, i)) = Cardinality(active) - n
         PROVE  History' = SubSeq(History, size - kept + 1, size)
    <2>1. Cardinality(Upto(active, i)) \in 1 .. Cardinality(active)
      BY <1>1, <1>7, UptoGrows
    <2>2. Cardinality(Upto(P, i)) = c + Cardinality(Upto(active, i))
      BY <1>7
    <2>3. kept = n
      BY <1>6, <1>7, <1>8, <1>12, <2>1
    <2>4. Cardinality(P) - Cardinality(Upto(P, i)) = kept
      BY <1>6, <1>7, <1>12, <2>1, <2>2, <2>3
    <2>5. i \in 0 .. l
      BY <1>1, <1>7
    <2>6. QED
      BY <1>10, <1>12, <2>4, <2>5
  <1>13. ASSUME n >= Cardinality(active), Hides(start)
         PROVE  History' = SubSeq(History, size - kept + 1, size)
    <2>1. kept = size
      BY <1>6, <1>7, <1>8, <1>13
    <2>2. Cardinality(P) - Cardinality(Upto(P, start)) = kept
      BY <1>6, <2>1 DEF c
    <2>3. QED
      BY <1>2, <1>10, <1>13, <2>2
  <1>14. History' = SubSeq(History, size - kept + 1, size)
    BY <1>5, <1>11, <1>12, <1>13
  <1>15. QED
    BY <1>14 DEF size

(* TruncateHistory(n) leaves exactly the last n messages shown, or all when   *)
(* there are fewer, for any n, stale count and corrupt or torn lines, and     *)
(* also after a promotion was interrupted.                                    *)
THEOREM TruncateKeepsCorrect == Spec => TruncateKeeps
  <1>1. TypeOK => \A n \in Keeps :
            TruncateHistory(n) =>
                LET kept == IF n < Len(History) THEN n ELSE Len(History) IN
                History' = SubSeq(History, Len(History) - kept + 1, Len(History))
    BY TruncateKept, StoreAssumption
  <1>2. QED
    BY <1>1, StoreInvCorrect, PTL DEF TruncateKeeps
=============================================================================
