-------------------------- MODULE SessionHistoryProof --------------------------
(* What is proved of SessionHistory for every number of messages, inherited    *)
(* ones, thresholds, batches and calls of /clear: a message is lost only when   *)
(* another was added while a summary was being made, and none that was cleared  *)
(* comes back.  The invariant behind it follows the batch of the summary that   *)
(* is under way and the history a compression is about to set.                  *)
(* And what is proved of Seahorse for every number of messages, summaries,     *)
(* fan-outs, wipes and mishaps: the context it stores keeps what the history    *)
(* says.  Its invariant follows the items a summary is being made of, by where  *)
(* the worker and each condenser have got to.                                  *)
EXTENDS SessionHistory, Seahorse, FiniteSetTheorems, SequenceTheorems, WellFoundedInduction,
        TLAPS

-----------------------------------------------------------------------------
(* Choices among numbers.                                                    *)

LEMMA LeastExists ==
    ASSUME NEW S \in SUBSET Nat, S # {}
    PROVE  \E x \in S : \A y \in S : x <= y
  <1>1. PICK x \in S : \A y \in S : ~(<<y, x>> \in OpToRel(<, Nat))
    BY NatLessThanWellFounded, WFMin
  <1>2. ASSUME NEW y \in S PROVE x <= y
    <2>1. <<y, x>> \in Nat \X Nat /\ ~(<<y, x>> \in OpToRel(<, Nat))
      BY <1>1
    <2>2. OpToRel(<, Nat) = {ss \in Nat \X Nat : ss[1] < ss[2]}
      BY DEF OpToRel
    <2>3. ~(y < x)
      BY <2>1, <2>2
    <2>4. QED
      BY <2>3
  <1>3. QED
    BY <1>2

LEMMA MinIsIn ==
    ASSUME NEW S \in SUBSET Nat, S # {}
    PROVE  Min(S) \in S
  BY LeastExists DEF Min

LEMMA MaxIsIn ==
    ASSUME NEW n \in Nat, NEW S \in SUBSET (0 .. n), S # {}
    PROVE  Max(S) \in S
  <1> DEFINE T == {n - x : x \in S}
  <1>1. T \in SUBSET Nat /\ T # {}
    <2>1. \A x \in S : x \in 0 .. n /\ n - x \in Nat
      OBVIOUS
    <2>2. QED
      BY <2>1
  <1>2. PICK y \in T : \A z \in T : y <= z
    <2> HIDE DEF T
    <2>1. QED
      BY <1>1, LeastExists
  <1>3. PICK x \in S : y = n - x
    OBVIOUS
  <1>4. \A z \in S : x >= z
    <2> SUFFICES ASSUME NEW z \in S PROVE x >= z
      OBVIOUS
    <2>1. n - x <= n - z
      BY <1>2, <1>3
    <2>2. x \in 0 .. n /\ z \in 0 .. n
      OBVIOUS
    <2>3. QED
      BY <2>1, <2>2
  <1>5. QED
    BY <1>4 DEF Max

(* The middle of a set of numbers: were it missing, two of them would have as *)
(* many below them.                                                          *)
LEMMA MiddleExists ==
    ASSUME NEW n \in Nat, NEW T \in SUBSET (0 .. n), T # {}
    PROVE  \E t \in T : Cardinality({u \in T : u < t}) = Cardinality(T) \div 2
  <1> DEFINE Below(t) == {u \in T : u < t}
             f == [t \in T |-> Cardinality(Below(t))]
             half == Cardinality(T) \div 2
             range == (0 .. Cardinality(T) - 1) \ {half}
  <1>1. IsFiniteSet(T) /\ Cardinality(T) \in Nat /\ Cardinality(T) > 0
    <2>1. IsFiniteSet(0 .. n)
      BY FS_Interval
    <2>2. IsFiniteSet(T)
      BY <2>1, FS_Subset
    <2>3. QED
      BY <2>2, FS_EmptySet, FS_CardinalityType
  <1>2. half \in 0 .. Cardinality(T) - 1
    BY <1>1
  <1>3. ASSUME NEW t \in T
        PROVE  /\ IsFiniteSet(Below(t)) /\ Cardinality(Below(t)) \in 0 .. Cardinality(T) - 1
    <2>1. Below(t) \in SUBSET T /\ t \notin Below(t) /\ Below(t) # T
      OBVIOUS
    <2>2. IsFiniteSet(Below(t)) /\ Cardinality(Below(t)) <= Cardinality(T)
          /\ Cardinality(Below(t)) # Cardinality(T)
      <3> HIDE DEF Below
      <3>1. QED
        BY <1>1, <2>1, FS_Subset
    <2>3. Cardinality(Below(t)) \in Nat
      BY <2>2, FS_CardinalityType
    <2>4. QED
      BY <1>1, <2>2, <2>3
  <1>4. ASSUME NEW s \in T, NEW t \in T, s < t
        PROVE  f[s] # f[t]
    <2>1. Below(s) \in SUBSET Below(t) /\ s \in Below(t) /\ s \notin Below(s)
      <3>1. s \in Int /\ t \in Int /\ \A u \in T : u \in Int
        OBVIOUS
      <3>2. \A u \in T : u < s => u < t
        BY <1>4, <3>1
      <3>3. Below(s) \subseteq Below(t)
        BY <3>2
      <3>4. s \in Below(t) /\ s \notin Below(s)
        BY <1>4, <3>1
      <3>5. QED
        BY <3>3, <3>4
    <2>2. Below(s) # Below(t)
      BY <2>1
    <2>3. Cardinality(Below(s)) # Cardinality(Below(t))
      <3> HIDE DEF Below
      <3>1. QED
        BY <1>3, <2>1, <2>2, FS_Subset
    <2>4. QED
      BY <2>3
  <1>5. ASSUME \A t \in T : f[t] # half
        PROVE  FALSE
    <2>1. f \in [T -> range]
      BY <1>3, <1>5
    <2>2. IsFiniteSet(range) /\ Cardinality(range) = Cardinality(T) - 1
      <3>1. IsFiniteSet(0 .. Cardinality(T) - 1)
            /\ Cardinality(0 .. Cardinality(T) - 1) = Cardinality(T)
        BY <1>1, FS_Interval
      <3>2. /\ IsFiniteSet((0 .. Cardinality(T) - 1) \ {half})
            /\ Cardinality((0 .. Cardinality(T) - 1) \ {half}) =
                 IF half \in 0 .. Cardinality(T) - 1
                 THEN Cardinality(0 .. Cardinality(T) - 1) - 1
                 ELSE Cardinality(0 .. Cardinality(T) - 1)
        <4> HIDE DEF half
        <4>1. QED
          BY <3>1, FS_RemoveElement
      <3> HIDE DEF half
      <3>3. QED
        BY <1>2, <3>1, <3>2
    <2> HIDE DEF f, range
    <2>3. Cardinality(range) < Cardinality(T)
      BY <1>1, <2>2
    <2>4. PICK x, y \in T : x # y /\ f[x] = f[y]
      BY <1>1, <2>1, <2>2, <2>3, FS_PigeonHole
    <2>5. x \in Int /\ y \in Int
      OBVIOUS
    <2>6. x < y \/ y < x
      BY <2>4, <2>5
    <2>7. QED
      BY <1>4, <2>4, <2>6
  <1>6. QED
    BY <1>5

-----------------------------------------------------------------------------
(* Cutting a history.                                                        *)

(* What Suffix(h, n) leaves out.                                             *)
Gone(h, n) == {h[i].id : i \in {j \in DOMAIN h : j <= Len(h) - n}}

(* The identifiers grow along a history, at least as fast as the positions,   *)
(* so that it is no longer than there are messages.                          *)
Ranked(h, n) == \A i \in DOMAIN h : i <= h[i].id /\ h[i].id <= n

LEMMA TailFacts ==
    ASSUME NEW h \in Seq(Message), NEW k \in 0 .. Len(h)
    PROVE  /\ SubSeq(h, k + 1, Len(h)) \in Seq(Message)
           /\ Len(SubSeq(h, k + 1, Len(h))) = Len(h) - k
           /\ \A i \in 1 .. Len(h) - k : SubSeq(h, k + 1, Len(h))[i] = h[k + i]
  <1>1. \A i \in k + 1 .. Len(h) : h[i] \in Message
    OBVIOUS
  <1>2. SubSeq(h, k + 1, Len(h)) \in Seq(Message)
        /\ Len(SubSeq(h, k + 1, Len(h))) = (IF k + 1 <= Len(h) THEN Len(h) - (k + 1) + 1 ELSE 0)
        /\ \A i \in 1 .. Len(h) - (k + 1) + 1 : SubSeq(h, k + 1, Len(h))[i] = h[k + 1 + i - 1]
    BY <1>1, SubSeqProperties
  <1>3. QED
    BY <1>2

(* A later part of a history, as a cut leaves it.                            *)
LEMMA LaterPart ==
    ASSUME NEW h \in Seq(Message), NEW k \in 0 .. Len(h), NEW t \in Seq(Message),
           Len(t) = Len(h) - k, \A i \in 1 .. Len(h) - k : t[i] = h[k + i]
    PROVE  /\ IdsOf(t) \subseteq IdsOf(h)
           /\ IdsOf(h) \subseteq IdsOf(t) \cup Gone(h, Len(h) - k)
           /\ \A n \in Nat : Gone(t, n) \subseteq Gone(h, n)
           /\ \A n : Ranked(h, n) => Ranked(t, n)
  <1>0. /\ DOMAIN t = 1 .. Len(h) - k /\ DOMAIN h = 1 .. Len(h) /\ Len(h) \in Nat
        /\ k \in Nat /\ k <= Len(h)
    OBVIOUS
  <1>1. \A i \in DOMAIN t : k + i \in DOMAIN h /\ t[i] = h[k + i]
    BY <1>0
  <1>2. IdsOf(t) \subseteq IdsOf(h)
    BY <1>1 DEF IdsOf
  <1>3. ASSUME NEW j \in DOMAIN h
        PROVE  h[j].id \in IdsOf(t) \cup Gone(h, Len(h) - k)
    <2>1. CASE j <= k
      BY <1>0, <2>1 DEF Gone
    <2>2. CASE j > k
      <3>1. j - k \in DOMAIN t /\ t[j - k] = h[j]
        BY <1>0, <1>1, <2>2
      <3>2. QED
        BY <3>1 DEF IdsOf
    <2>3. QED
      BY <2>1, <2>2
  <1>4. ASSUME NEW n \in Nat, NEW i \in DOMAIN t, i <= Len(t) - n
        PROVE  t[i].id \in Gone(h, n)
    <2>1. k + i \in DOMAIN h /\ k + i <= Len(h) - n /\ t[i] = h[k + i]
      BY <1>0, <1>1, <1>4
    <2>2. QED
      BY <2>1 DEF Gone
  <1>5. ASSUME NEW n, Ranked(h, n)
        PROVE  Ranked(t, n)
    <2> SUFFICES ASSUME NEW i \in DOMAIN t PROVE i <= t[i].id /\ t[i].id <= n
      BY DEF Ranked
    <2>1. k + i <= h[k + i].id /\ h[k + i].id <= n
      BY <1>1, <1>5 DEF Ranked
    <2>2. i <= h[k + i].id
      <3>1. h[k + i] \in Message /\ i \in Int
        BY <1>0, <1>1
      <3>2. h[k + i].id \in Int
        BY <3>1 DEF Message, Ids
      <3>3. QED
        BY <1>0, <2>1, <3>1, <3>2
    <2>3. QED
      BY <1>1, <2>1, <2>2
  <1>6. QED
    BY <1>2, <1>3, <1>4, <1>5 DEF IdsOf, Gone

LEMMA SuffixFacts ==
    ASSUME NEW h \in Seq(Message), NEW n \in Nat
    PROVE  /\ Suffix(h, n) \in Seq(Message)
           /\ IdsOf(Suffix(h, n)) \subseteq IdsOf(h)
           /\ IdsOf(h) \subseteq IdsOf(Suffix(h, n)) \cup Gone(h, n)
           /\ \A m : Ranked(h, m) => Ranked(Suffix(h, n), m)
  <1>1. CASE n >= Len(h)
    BY <1>1 DEF Suffix
  <1>2. CASE n < Len(h)
    <2> DEFINE k == Len(h) - n
    <2>1. k \in 0 .. Len(h) /\ Len(h) - k = n /\ Suffix(h, n) = SubSeq(h, k + 1, Len(h))
      BY <1>2 DEF Suffix
    <2> HIDE DEF k
    <2>2. /\ Suffix(h, n) \in Seq(Message) /\ Len(Suffix(h, n)) = Len(h) - k
          /\ \A i \in 1 .. Len(h) - k : Suffix(h, n)[i] = h[k + i]
      BY <2>1, TailFacts
    <2> DEFINE t == Suffix(h, n)
    <2> HIDE DEF t
    <2>3. /\ t \in Seq(Message) /\ Len(t) = Len(h) - k
          /\ \A i \in 1 .. Len(h) - k : t[i] = h[k + i]
      BY <2>2 DEF t
    <2>4. /\ IdsOf(t) \subseteq IdsOf(h)
          /\ IdsOf(h) \subseteq IdsOf(t) \cup Gone(h, Len(h) - k)
          /\ \A m : Ranked(h, m) => Ranked(t, m)
      BY <2>1, <2>3, LaterPart
    <2>5. QED
      BY <2>1, <2>2, <2>4 DEF t
  <1>3. QED
    BY <1>1, <1>2

LEMMA BoundaryFacts ==
    ASSUME NEW h \in Seq(Message), NEW target \in Int
    PROVE  /\ SafeBoundary(h, target) \in 0 .. Len(h)
           /\ target < Len(h) => SafeBoundary(h, target) < Len(h) \/ Len(h) = 0
           /\ TurnBoundaries(h) \in SUBSET (0 .. Len(h))
           /\ \A t \in TurnBoundaries(h) : t \in 0 .. Len(h) - 1
  <1> DEFINE turns == TurnBoundaries(h)
             before == {t \in turns : 0 < t /\ t <= target}
             after == {t \in turns : target < t}
  <1>1. Len(h) \in Nat /\ turns \subseteq 0 .. Len(h) - 1 /\ turns \subseteq 0 .. Len(h)
    BY DEF TurnBoundaries
  <1>2. CASE target <= 0 \/ target >= Len(h)
    BY <1>1, <1>2 DEF SafeBoundary
  <1>3. CASE 0 < target /\ target < Len(h)
    <2>1. before # {} => Max(before) \in 0 .. Len(h) - 1
      <3>1. before \in SUBSET (0 .. Len(h))
        BY <1>1
      <3>2. before # {} => Max(before) \in before
        BY <1>1, <3>1, MaxIsIn
      <3>3. QED
        BY <1>1, <3>2
    <2>2. after # {} => Min(after) \in 0 .. Len(h) - 1
      <3>1. after \in SUBSET Nat
        BY <1>1
      <3>2. after # {} => Min(after) \in after
        BY <3>1, MinIsIn
      <3>3. QED
        BY <1>1, <3>2
    <2>3. SafeBoundary(h, target) =
              CASE turns = {} -> target
                [] before # {} -> Max(before)
                [] before = {} /\ after # {} -> Min(after)
                [] OTHER -> 0
      BY <1>1, <1>3 DEF SafeBoundary
    <2> HIDE DEF turns, before, after
    <2>4. SafeBoundary(h, target) \in {target, Max(before), Min(after), 0}
          /\ (\/ (SafeBoundary(h, target) = Max(before) /\ before # {})
              \/ (SafeBoundary(h, target) = Min(after) /\ after # {})
              \/ SafeBoundary(h, target) = target \/ SafeBoundary(h, target) = 0)
      <3>1. CASE turns = {}
        <4>1. before = {} /\ after = {}
          BY <3>1 DEF before, after
        <4>2. QED
          BY <2>3, <3>1, <4>1
      <3>2. CASE turns # {} /\ before # {}
        BY <2>3, <3>2
      <3>3. CASE turns # {} /\ before = {} /\ after # {}
        BY <2>3, <3>3
      <3>4. CASE turns # {} /\ before = {} /\ after = {}
        BY <2>3, <3>4
      <3>5. QED
        BY <3>1, <3>2, <3>3, <3>4
    <2>5. SafeBoundary(h, target) \in 0 .. Len(h) - 1
      BY <1>1, <1>3, <2>1, <2>2, <2>4
    <2>6. QED
      BY <1>1, <2>5 DEF turns
  <1>4. QED
    BY <1>1, <1>2, <1>3

(* What a compression keeps: a later part of the history or one message.     *)
LEMMA KeptFacts ==
    ASSUME NEW h \in Seq(Message), Len(h) > 0
    PROVE  /\ Kept(h) \in Seq(Message)
           /\ IdsOf(Kept(h)) \subseteq IdsOf(h)
           /\ \A n \in Nat : Gone(Kept(h), n) \subseteq Gone(h, n)
           /\ \A n : Ranked(h, n) => Ranked(Kept(h), n)
  <1> DEFINE turns == TurnBoundaries(h)
             mid == IF Cardinality(turns) >= 2
                    THEN CHOOSE t \in turns :
                             Cardinality({u \in turns : u < t}) = Cardinality(turns) \div 2
                    ELSE SafeBoundary(h, Len(h) \div 2)
  <1>1. Kept(h) = IF mid > 0 THEN SubSeq(h, mid + 1, Len(h))
                  ELSE IF turns = {} THEN <<>> ELSE <<h[Max(turns) + 1]>>
    BY DEF Kept
  <1>2. turns \in SUBSET (0 .. Len(h)) /\ Len(h) \in Nat
        /\ \A t \in turns : t \in 0 .. Len(h) - 1
    BY BoundaryFacts
  <1>3. mid \in 0 .. Len(h)
    <2>1. CASE Cardinality(turns) >= 2
      <3>1. turns # {}
        <4> HIDE DEF turns
        <4>1. turns = {} => Cardinality(turns) = 0
          BY FS_EmptySet
        <4>2. QED
          BY <2>1, <4>1
      <3>2. \E t \in turns : Cardinality({u \in turns : u < t}) = Cardinality(turns) \div 2
        <4> HIDE DEF turns
        <4>1. QED
          BY <1>2, <3>1, MiddleExists
      <3>3. mid \in turns
        BY <2>1, <3>2
      <3>4. QED
        BY <1>2, <3>3
    <2>2. CASE ~(Cardinality(turns) >= 2)
      <3>1. mid = SafeBoundary(h, Len(h) \div 2)
        BY <2>2
      <3>2. Len(h) \div 2 \in Int
        BY <1>2
      <3> HIDE DEF mid
      <3>3. QED
        BY <3>1, <3>2, BoundaryFacts
    <2>3. QED
      BY <2>1, <2>2
  <1> HIDE DEF mid
  <1>4. CASE mid > 0
    <2> DEFINE t == SubSeq(h, mid + 1, Len(h))
    <2>1. t \in Seq(Message) /\ Len(t) = Len(h) - mid
          /\ \A i \in 1 .. Len(h) - mid : t[i] = h[mid + i]
      BY <1>3, TailFacts
    <2>2. Kept(h) = t
      BY <1>1, <1>4
    <2> HIDE DEF t
    <2>3. /\ IdsOf(t) \subseteq IdsOf(h) /\ \A n \in Nat : Gone(t, n) \subseteq Gone(h, n)
          /\ \A n : Ranked(h, n) => Ranked(t, n)
      BY <1>3, <2>1, LaterPart
    <2>4. QED
      BY <2>1, <2>2, <2>3
  <1>5. CASE ~(mid > 0) /\ turns = {}
    BY <1>1, <1>5 DEF IdsOf, Gone, Ranked
  <1>6. CASE ~(mid > 0) /\ turns # {}
    <2> DEFINE k == Max(turns) + 1
    <2>1. k \in 1 .. Len(h)
      <3>1. Max(turns) \in turns
        <4> HIDE DEF turns
        <4>1. QED
          BY <1>2, <1>6, MaxIsIn
      <3>2. QED
        BY <1>2, <3>1
    <2>2. Kept(h) = <<h[k]>>
      BY <1>1, <1>6
    <2> HIDE DEF k
    <2>3. h[k] \in Message /\ h[k].id \in Ids
      <3>1. h[k] \in Message
        BY <2>1
      <3>2. QED
        BY <3>1 DEF Message
    <2>4. Kept(h) \in Seq(Message) /\ DOMAIN Kept(h) = {1} /\ Len(Kept(h)) = 1
          /\ Kept(h)[1] = h[k]
      BY <2>2, <2>3
    <2>5. IdsOf(Kept(h)) \subseteq IdsOf(h)
      BY <2>1, <2>4 DEF IdsOf
    <2>6. ASSUME NEW n \in Nat PROVE Gone(Kept(h), n) \subseteq Gone(h, n)
      <3>1. CASE n = 0
        BY <2>1, <2>4, <3>1 DEF Gone
      <3>2. CASE n # 0
        BY <2>4, <3>2 DEF Gone
      <3>3. QED
        BY <3>1, <3>2
    <2>7. ASSUME NEW n, Ranked(h, n) PROVE Ranked(Kept(h), n)
      BY <2>1, <2>3, <2>4, <2>7 DEF Ranked, Ids
    <2>8. QED
      BY <2>4, <2>5, <2>6, <2>7
  <1>7. QED
    BY <1>4, <1>5, <1>6
(* A ranked history is bounded, and what is cut from it was in it.           *)
LEMMA RankedFacts ==
    ASSUME NEW h \in Seq(Message), NEW n \in Nat, Ranked(h, n)
    PROVE  /\ Len(h) \in 0 .. n
           /\ IdsOf(h) \subseteq 1 .. n
           /\ \A m \in Nat : n <= m => Ranked(h, m)
           /\ \A k : Gone(h, k) \subseteq IdsOf(h)
  <1>1. DOMAIN h = 1 .. Len(h) /\ Len(h) \in Nat
    OBVIOUS
  <1>2. \A i \in DOMAIN h : h[i] \in Message /\ h[i].id \in Int
    <2>1. \A i \in DOMAIN h : h[i] \in Message
      OBVIOUS
    <2>2. QED
      BY <2>1 DEF Message, Ids
  <1>3. \A i \in DOMAIN h : i \in Int /\ 1 <= i /\ i <= h[i].id /\ h[i].id <= n
    BY <1>1 DEF Ranked
  <1>4. Len(h) <= n
    <2>1. CASE Len(h) = 0
      BY <2>1
    <2>2. CASE Len(h) # 0
      <3>1. Len(h) \in DOMAIN h
        BY <1>1, <2>2
      <3>2. QED
        BY <1>1, <1>2, <1>3, <3>1
    <2>3. QED
      BY <2>1, <2>2
  <1>5. \A i \in DOMAIN h : h[i].id \in 1 .. n
    BY <1>2, <1>3
  <1>6. IdsOf(h) \subseteq 1 .. n
    BY <1>5 DEF IdsOf
  <1>7. ASSUME NEW m \in Nat, n <= m PROVE Ranked(h, m)
    BY <1>2, <1>3, <1>7 DEF Ranked
  <1>8. QED
    BY <1>1, <1>4, <1>6, <1>7 DEF IdsOf, Gone

LEMMA AppendFacts ==
    ASSUME NEW h \in Seq(Message), NEW n \in Nat, Ranked(h, n), NEW m \in Message,
           m.id = n + 1
    PROVE  /\ Append(h, m) \in Seq(Message)
           /\ Ranked(Append(h, m), n + 1)
           /\ IdsOf(Append(h, m)) = IdsOf(h) \cup {n + 1}
           /\ \A k \in Nat : \E x : Gone(Append(h, m), k) \subseteq Gone(h, k) \cup {x}
  <1> DEFINE t == Append(h, m)
  <1>1. /\ t \in Seq(Message) /\ Len(t) = Len(h) + 1 /\ Len(h) \in Nat
        /\ \A i \in 1 .. Len(h) : t[i] = h[i]
        /\ t[Len(h) + 1] = m
    OBVIOUS
  <1>2. DOMAIN t = 1 .. Len(h) + 1 /\ DOMAIN h = 1 .. Len(h)
    BY <1>1
  <1>3. Len(h) <= n /\ Ranked(h, n + 1)
    BY RankedFacts
  <1> HIDE DEF t
  <1>4. Ranked(t, n + 1)
    <2> SUFFICES ASSUME NEW i \in DOMAIN t PROVE i <= t[i].id /\ t[i].id <= n + 1
      BY DEF Ranked
    <2>1. CASE i \in 1 .. Len(h)
      BY <1>1, <1>2, <1>3, <2>1 DEF Ranked
    <2>2. CASE i = Len(h) + 1
      BY <1>1, <1>3, <2>2
    <2>3. QED
      BY <1>1, <1>2, <2>1, <2>2
  <1>5. IdsOf(t) = IdsOf(h) \cup {n + 1}
    <2>1. IdsOf(t) \subseteq IdsOf(h) \cup {n + 1}
      <3>1. \A i \in DOMAIN t : (i \in DOMAIN h /\ t[i] = h[i]) \/ t[i].id = n + 1
        BY <1>1, <1>2
      <3>2. QED
        BY <3>1 DEF IdsOf
    <2>2. \A i \in DOMAIN h : i \in DOMAIN t /\ t[i] = h[i]
      BY <1>1, <1>2
    <2>3. Len(h) + 1 \in DOMAIN t
      BY <1>1, <1>2
    <2>4. QED
      BY <1>1, <2>1, <2>2, <2>3 DEF IdsOf
  <1>6. ASSUME NEW k \in Nat
        PROVE  Gone(t, k) \subseteq Gone(h, k) \cup {t[Len(h) + 1 - k].id}
    <2> SUFFICES ASSUME NEW i \in DOMAIN t, i <= Len(t) - k
                 PROVE  t[i].id \in Gone(h, k) \cup {t[Len(h) + 1 - k].id}
      BY DEF Gone
    <2>1. CASE i = Len(h) + 1 - k
      BY <2>1
    <2>2. CASE i # Len(h) + 1 - k
      <3>1. i \in DOMAIN h /\ i <= Len(h) - k /\ t[i] = h[i]
        BY <1>1, <1>2, <2>2
      <3>2. QED
        BY <3>1 DEF Gone
    <2>3. QED
      BY <2>1, <2>2
  <1>7. QED
    BY <1>1, <1>4, <1>5, <1>6 DEF t

(* The batch of a summary is what the truncation that follows will drop.     *)
LEMMA CutFacts ==
    ASSUME HistoryAssumption, NEW h \in Seq(Message)
    PROVE  /\ KeepCount(h) \in 0 .. Len(h)
           /\ IdsOf(SubSeq(h, 1, SafeCut(h))) = Gone(h, KeepCount(h))
  <1>1. Len(h) \in Nat /\ Len(h) - KeepRecent \in Int
    BY DEF HistoryAssumption
  <1>2. SafeCut(h) \in 0 .. Len(h)
    BY <1>1, BoundaryFacts DEF SafeCut
  <1> DEFINE c == SafeCut(h)
             t == SubSeq(h, 1, c)
  <1>3. KeepCount(h) = Len(h) - c /\ KeepCount(h) \in 0 .. Len(h)
        /\ Len(h) - KeepCount(h) = c
    <2> HIDE DEF c
    <2>1. KeepCount(h) = Len(h) - c
      BY DEF KeepCount, c
    <2>2. c \in 0 .. Len(h)
      BY <1>2 DEF c
    <2>3. QED
      BY <1>1, <2>1, <2>2
  <1>4. Len(t) = c /\ \A i \in 1 .. c : t[i] = h[i]
    <2> HIDE DEF c
    <2>1. c \in 0 .. Len(h)
      BY <1>2 DEF c
    <2>2. QED
      BY <1>1, <2>1
  <1>5. DOMAIN t = 1 .. c
    <2>1. c \in 0 .. Len(h)
      BY <1>2
    <2> HIDE DEF c
    <2>2. QED
      BY <1>1, <1>4, <2>1
  <1>6. {j \in DOMAIN h : j <= Len(h) - KeepCount(h)} = 1 .. c
    <2>1. c \in 0 .. Len(h) /\ DOMAIN h = 1 .. Len(h)
      BY <1>2
    <2> HIDE DEF c
    <2>2. QED
      BY <1>1, <1>3, <2>1
  <1> HIDE DEF c, t
  <1>7. IdsOf(t) = Gone(h, KeepCount(h))
    BY <1>4, <1>5, <1>6 DEF IdsOf, Gone
  <1>8. QED
    BY <1>3, <1>7 DEF c, t

(* An earlier part of a history.                                             *)
LEMMA HeadFacts ==
    ASSUME NEW h \in Seq(Message), NEW n \in 0 .. Len(h)
    PROVE  LET t == SubSeq(h, 1, Len(h) - n)
           IN  /\ t \in Seq(Message) /\ IdsOf(t) \subseteq IdsOf(h)
               /\ IdsOf(h) \subseteq IdsOf(t) \cup {h[i].id : i \in Len(h) - n + 1 .. Len(h)}
               /\ \A k \in Nat : Gone(t, k) \subseteq Gone(h, k)
               /\ \A m : Ranked(h, m) => Ranked(t, m)
  <1> DEFINE c == Len(h) - n
             t == SubSeq(h, 1, c)
             tail == {h[i].id : i \in c + 1 .. Len(h)}
  <1>1. Len(h) \in Nat /\ DOMAIN h = 1 .. Len(h) /\ c \in 0 .. Len(h) /\ c \in Int
    OBVIOUS
  <1> HIDE DEF c
  <1>2. \A i \in 1 .. c : h[i] \in Message
    BY <1>1
  <1>3. /\ t \in Seq(Message)
        /\ Len(t) = (IF 1 <= c THEN c - 1 + 1 ELSE 0)
        /\ \A i \in 1 .. c - 1 + 1 : t[i] = h[1 + i - 1]
    BY <1>1, <1>2, SubSeqProperties
  <1> HIDE DEF t
  <1>4. Len(t) = c
    BY <1>1, <1>3
  <1>5. DOMAIN t = 1 .. c
    BY <1>3, <1>4
  <1>6. \A i \in 1 .. c : t[i] = h[i]
    <2> TAKE i \in 1 .. c
    <2>1. i \in 1 .. c - 1 + 1 /\ 1 + i - 1 = i
      BY <1>1
    <2>2. t[i] = h[1 + i - 1]
      BY <1>3, <2>1
    <2>3. QED
      BY <2>1, <2>2
  <1>7. \A i \in DOMAIN h : i \in DOMAIN t \/ i \in c + 1 .. Len(h)
    BY <1>1, <1>5
  <1>8. \A i \in DOMAIN t : i \in DOMAIN h /\ t[i] = h[i]
    BY <1>1, <1>5, <1>6
  <1>9. \A k \in Nat : \A i \in DOMAIN t : i <= Len(t) - k => i <= Len(h) - k
    BY <1>1, <1>4, <1>5
  <1>10. IdsOf(t) \subseteq IdsOf(h)
    BY <1>8 DEF IdsOf
  <1>11. IdsOf(h) \subseteq IdsOf(t) \cup tail
    BY <1>7, <1>8 DEF IdsOf
  <1>12. \A k \in Nat : Gone(t, k) \subseteq Gone(h, k)
    BY <1>8, <1>9 DEF Gone
  <1>13. \A m : Ranked(h, m) => Ranked(t, m)
    BY <1>8 DEF Ranked
  <1>14. QED
    BY <1>3, <1>10, <1>11, <1>12, <1>13 DEF t, c

(* What is added at the end pushes out no less.                              *)
LEMMA AppendKeepsGone ==
    ASSUME NEW h \in Seq(Message), NEW m \in Message, NEW k \in Nat
    PROVE  Gone(h, k) \subseteq Gone(Append(h, m), k)
  <1> DEFINE t == Append(h, m)
  <1>1. /\ Len(t) = Len(h) + 1 /\ Len(h) \in Nat /\ DOMAIN h = 1 .. Len(h)
        /\ DOMAIN t = 1 .. Len(h) + 1
        /\ \A i \in 1 .. Len(h) : t[i] = h[i]
    OBVIOUS
  <1> HIDE DEF t
  <1>2. \A i \in DOMAIN h : i <= Len(h) - k => i \in DOMAIN t /\ t[i] = h[i] /\ i <= Len(t) - k
    BY <1>1
  <1>3. QED
    BY <1>2 DEF Gone, t

-----------------------------------------------------------------------------
(* The inductive invariant.                                                  *)

Summing == job.at \in {"summary", "model", "truncate"}
Packing == turn \in {"pack", "note", "set"}

HistoryTypes ==
    /\ history \in Seq(Message) /\ digest \in SUBSET Ids
    /\ turn \in {"idle", "opened", "reading", "asked", "pack", "note", "set", "undo",
                "clearing", "emptied"}
    /\ point \in [kept: Seq(Message), base: SUBSET Ids, first: 0 .. sent]
    /\ pack \in [kept: Seq(Message), base: SUBSET Ids]
    /\ job \in [at: {"off", "history", "summary", "model", "truncate"}, batch: SUBSET Ids,
                keep: 0 .. MaxMessages, base: SUBSET Ids]
    /\ sent \in NumInherited .. MaxMessages /\ clears \in 0 .. MaxClears /\ late \in Nat
    /\ forgotten \in SUBSET Ids /\ dropped \in SUBSET Ids /\ undone \in SUBSET Ids
    /\ cleared \in SUBSET (1 .. sent) /\ afloat \in SUBSET Ids
    /\ job.batch \in SUBSET (1 .. sent)
    /\ Ranked(history, sent) /\ Ranked(pack.kept, sent) /\ Ranked(point.kept, sent)
    /\ Packing \/ pack = NoPack
    /\ turn = "emptied" => history = <<>>
    /\ turn \in {"idle", "clearing", "emptied"} => point = NoPoint

(* What a summary was made from is in it, or was given up, when the history  *)
(* is about to be truncated.                                                 *)
BatchInv == job.at = "truncate" => job.batch \subseteq digest \cup forgotten \cup cleared

(* What a compression is about to set has all that it did not drop, and a    *)
(* truncation would take no more from it than from the history.              *)
PackInv ==
    Packing =>
        /\ IdsOf(history) \subseteq IdsOf(pack.kept) \cup dropped
        /\ job.at # "off" => \A n \in Nat : Gone(pack.kept, n) \subseteq Gone(history, n)

(* The restore point has all that was there when the turn began and is there *)
(* still, and a truncation would take no more from it than from the history. *)
PointInv ==
    turn \in {"reading", "asked"} =>
        /\ IdsOf(history) \subseteq IdsOf(point.kept) \cup (point.first + 1 .. sent)
        /\ job.at # "off" => \A n \in Nat : Gone(point.kept, n) \subseteq Gone(history, n)

(* The messages lost already, and those that the truncation which is under   *)
(* way would lose: each of them was pushed out by one that came late.        *)
Missing ==
    (NumInherited + 1 .. sent)
        \ (Visible \cup forgotten \cup dropped \cup undone \cup cleared)
Doomed ==
    IF Summing
    THEN ((NumInherited + 1 .. sent) \cap Gone(history, job.keep))
             \ (digest \cup forgotten \cup dropped \cup undone \cup cleared \cup job.batch)
    ELSE {}
LossInv == turn \notin {"clearing", "emptied"} => Cardinality(Missing \cup Doomed) <= late

(* Nothing that was cleared is left where it could come back from.           *)
ClearInv ==
    cleared \cap (Visible \cup IdsOf(pack.kept) \cup pack.base \cup IdsOf(point.kept)
                     \cup point.base \cup InTheMaking)
        \subseteq Old \cup afloat

HistoryInv == HistoryTypes /\ BatchInv /\ PackInv /\ PointInv /\ LossInv /\ ClearInv

-----------------------------------------------------------------------------
(* Types.                                                                    *)

LEMMA HistoryNumbers ==
    ASSUME HistoryAssumption
    PROVE  /\ NumInherited \in Nat /\ MaxMessages \in Nat /\ Threshold \in Nat
           /\ BatchSize \in Nat /\ MaxClears \in Nat /\ KeepRecent \in Nat
           /\ NumInherited <= MaxMessages
  BY DEF HistoryAssumption

LEMMA NoMessages ==
    ASSUME HistoryAssumption
    PROVE  /\ <<>> \in Seq(Message) /\ IdsOf(<<>>) = {} /\ \A n : Gone(<<>>, n) = {}
           /\ \A n : Ranked(<<>>, n)
           /\ NoPack \in [kept: Seq(Message), base: SUBSET Ids]
           /\ NoPack.kept = <<>> /\ NoPack.base = {}
           /\ NoPoint.kept = <<>> /\ NoPoint.base = {}
           /\ \A n \in Nat : NoPoint \in [kept: Seq(Message), base: SUBSET Ids, first: 0 .. n]
           /\ NoJob \in [at: {"off", "history", "summary", "model", "truncate"},
                         batch: SUBSET Ids, keep: 0 .. MaxMessages, base: SUBSET Ids]
           /\ NoJob.at = "off" /\ NoJob.batch = {}
           /\ \A n \in Nat : Suffix(<<>>, n) = <<>>
  <1>1. DOMAIN <<>> = {} /\ <<>> \in Seq(Message) /\ Len(<<>>) = 0
    OBVIOUS
  <1>2. 0 \in 0 .. MaxMessages
    BY HistoryNumbers
  <1>3. QED
    BY <1>1, <1>2 DEF IdsOf, Gone, Ranked, NoPack, NoPoint, NoJob, Suffix

LEMMA InheritedFacts ==
    ASSUME HistoryAssumption
    PROVE  /\ Inherited \in Seq(Message) /\ IdsOf(Inherited) \subseteq Old
           /\ Ranked(Inherited, NumInherited)
  <1>1. /\ DOMAIN Inherited = 1 .. NumInherited
        /\ \A i \in 1 .. NumInherited : Inherited[i] \in Message /\ Inherited[i].id = i
    <2> SUFFICES ASSUME NEW i \in 1 .. NumInherited
                 PROVE  Inherited[i] \in Message /\ Inherited[i].id = i
      BY DEF Inherited, Old
    <2>1. i \in Ids
      BY HistoryNumbers DEF Ids
    <2>2. QED
      BY <2>1 DEF Inherited, Old, Message
  <1>2. Inherited \in Seq(Message)
    <2>1. Inherited \in [1 .. NumInherited -> Message]
      BY <1>1 DEF Inherited, Old
    <2>2. QED
      BY <2>1, HistoryNumbers
  <1>3. QED
    BY <1>1, <1>2, HistoryNumbers DEF IdsOf, Ranked, Old

LEMMA TakenOverFacts ==
    ASSUME HistoryAssumption, HistoryTypes
    PROVE  /\ TakenOver \in Seq(Message) /\ Ranked(TakenOver, sent)
           /\ IdsOf(history) \subseteq IdsOf(TakenOver)
           /\ IdsOf(TakenOver) \subseteq IdsOf(history) \cup Old
           /\ \A n : Gone(TakenOver, n) \subseteq Gone(history, n) \cup Old
  <1>1. CASE history = <<>> /\ digest = {}
    <2>1. TakenOver = Inherited
      BY <1>1 DEF TakenOver
    <2>2. sent \in Nat /\ NumInherited \in Nat /\ NumInherited <= sent
      BY HistoryNumbers DEF HistoryTypes
    <2>3. Ranked(Inherited, sent) /\ \A n : Gone(Inherited, n) \subseteq IdsOf(Inherited)
      BY <2>2, InheritedFacts, RankedFacts
    <2>4. QED
      BY <1>1, <2>1, <2>3, InheritedFacts, NoMessages
  <1>2. CASE ~(history = <<>> /\ digest = {})
    BY <1>2 DEF TakenOver, HistoryTypes
  <1>3. QED
    BY <1>1, <1>2

LEMMA TypesInit == ASSUME HistoryAssumption, HistoryInit PROVE HistoryTypes
  BY HistoryNumbers, NoMessages DEF HistoryInit, HistoryTypes, Ids, Packing

LEMMA TypesStep ==
    ASSUME HistoryAssumption, HistoryTypes, [HistoryNext]_histVars
    PROVE  HistoryTypes'
  <1> USE HistoryNumbers
  <1> DEFINE Job == [at: {"off", "history", "summary", "model", "truncate"},
                     batch: SUBSET Ids, keep: 0 .. MaxMessages, base: SUBSET Ids]
  <1>1. CASE BeginTurn
    <2>1. /\ turn = "idle" /\ turn' = "opened" /\ history' = TakenOver
          /\ point' = [kept |-> <<>>, base |-> {}, first |-> sent]
          /\ UNCHANGED <<digest, job, pack, sent, late, forgotten, dropped, undone, clears,
                         cleared, afloat>>
      BY <1>1 DEF BeginTurn, JobSame, ClearSame
    <2>2. sent \in 0 .. sent'
      BY <2>1 DEF HistoryTypes
    <2>3. point' \in [kept: Seq(Message), base: SUBSET Ids, first: 0 .. sent']
          /\ Ranked(point'.kept, sent')
      BY <2>1, <2>2, NoMessages
    <2>4. history' \in Seq(Message) /\ Ranked(history', sent') /\ pack = NoPack
      BY <2>1, TakenOverFacts DEF HistoryTypes, Packing
    <2>5. QED
      BY <2>1, <2>3, <2>4 DEF HistoryTypes, Packing
  <1>18. CASE ReadPoint
    <2>1. PICK n \in 0 .. Len(history) :
              point' = [point EXCEPT !.kept = SubSeq(history, 1, Len(history) - n)]
      BY <1>18 DEF ReadPoint
    <2>2. SubSeq(history, 1, Len(history) - n) \in Seq(Message)
          /\ Ranked(SubSeq(history, 1, Len(history) - n), sent)
      BY <2>1, HeadFacts DEF HistoryTypes
    <2>3. /\ turn' = "reading" /\ turn = "opened"
          /\ UNCHANGED <<history, digest, job, pack, sent, late, forgotten, dropped, undone,
                         clears, cleared, afloat>>
      BY <1>18 DEF ReadPoint, JobSame, ClearSame
    <2> DEFINE t == SubSeq(history, 1, Len(history) - n)
    <2> HIDE DEF t
    <2>4. t \in Seq(Message) /\ Ranked(t, sent) /\ point' = [point EXCEPT !.kept = t]
      BY <2>1, <2>2 DEF t
    <2>5. point' \in [kept: Seq(Message), base: SUBSET Ids, first: 0 .. sent']
          /\ Ranked(point'.kept, sent')
      BY <2>3, <2>4 DEF HistoryTypes
    <2>6. QED
      BY <2>3, <2>5 DEF HistoryTypes, Packing
  <1>19. CASE ReadPointSummary
    BY <1>19 DEF ReadPointSummary, JobSame, ClearSame, HistoryTypes, Packing
  <1>20. CASE RollBackHistory
    <2>1. point.first + 1 .. sent \in SUBSET Ids
      BY DEF HistoryTypes, Ids
    <2>2. QED
      BY <1>20, <2>1 DEF RollBackHistory, JobSame, ClearSame, HistoryTypes, Packing
  <1>21. CASE RollBackSummary
    <2>1. sent \in Nat
      BY DEF HistoryTypes
    <2>2. QED
      BY <1>21, <2>1, NoMessages DEF RollBackSummary, ClearSame, HistoryTypes, Packing
  <1>2. CASE AddMessage
    <2>0. PICK role \in {"user", "assistant"} :
              history' = Append(history, [id |-> sent + 1, role |-> role])
      BY <1>2 DEF AddMessage
    <2> DEFINE m == [id |-> sent + 1, role |-> role]
    <2>1. sent \in Nat /\ sent + 1 \in NumInherited .. MaxMessages /\ sent + 1 \in Ids
      BY <1>2 DEF AddMessage, HistoryTypes, Ids
    <2>2. m \in Message /\ m.id = sent + 1
      BY <2>1 DEF Message
    <2> HIDE DEF m
    <2>3. Append(history, m) \in Seq(Message) /\ Ranked(Append(history, m), sent + 1)
      BY <2>1, <2>2, AppendFacts DEF HistoryTypes
    <2>4. history' = Append(history, m) /\ sent' = sent + 1 /\ turn' = "asked"
          /\ pack' = pack /\ late' \in {late, late + 1} /\ turn = "asked"
      BY <1>2, <2>0 DEF AddMessage, m
    <2>5. pack' = NoPack
      BY <1>2, <2>4 DEF AddMessage, HistoryTypes, Packing
    <2>6. cleared \in SUBSET (1 .. sent + 1) /\ job.batch \in SUBSET (1 .. sent + 1)
      <3>1. 1 .. sent \subseteq 1 .. sent + 1
        BY <2>1
      <3>2. QED
        BY <3>1 DEF HistoryTypes
    <2>7. <<digest, job, clears, point, forgotten, dropped, undone, cleared, afloat>>' =
              <<digest, job, clears, point, forgotten, dropped, undone, cleared, afloat>>
      BY <1>2 DEF AddMessage, JobSame, ClearSame, PointSame
    <2>8. late' \in Nat /\ Ranked(pack'.kept, sent')
      <3>1. late' \in Nat
        BY <2>4 DEF HistoryTypes
      <3>2. pack'.kept = <<>>
        BY <2>5, NoMessages
      <3>3. QED
        BY <3>1, <3>2, NoMessages
    <2>9. history' \in Seq(Message) /\ Ranked(history', sent')
      BY <2>3, <2>4
    <2>11. point' \in [kept: Seq(Message), base: SUBSET Ids, first: 0 .. sent']
           /\ Ranked(point'.kept, sent')
      <3>1. /\ point \in [kept: Seq(Message), base: SUBSET Ids, first: 0 .. sent]
            /\ point' = point /\ Ranked(point.kept, sent)
        BY <2>7 DEF HistoryTypes
      <3>2. 0 .. sent \subseteq 0 .. sent'
        BY <2>1, <2>4
      <3>3. point' \in [kept: Seq(Message), base: SUBSET Ids, first: 0 .. sent']
        BY <3>1, <3>2
      <3>4. Ranked(point.kept, sent + 1)
        BY <2>1, <3>1, RankedFacts
      <3>5. QED
        BY <2>4, <3>1, <3>3, <3>4
    <2>10. QED
      BY <2>1, <2>4, <2>5, <2>6, <2>7, <2>8, <2>9, <2>11, NoMessages DEF HistoryTypes, Packing
  <1>3. CASE \E heavy \in BOOLEAN : EndTurn(heavy)
    <2>1. [NoJob EXCEPT !.at = "history"] \in Job /\ NoJob.batch = {}
          /\ [NoJob EXCEPT !.at = "history"].batch = {}
      BY NoMessages DEF NoJob
    <2>2. job' \in {job, [NoJob EXCEPT !.at = "history"]}
      BY <1>3 DEF EndTurn
    <2>3. job' \in Job /\ job'.batch \in SUBSET (1 .. sent)
      BY <2>1, <2>2 DEF HistoryTypes
    <2>4. sent \in Nat
      BY DEF HistoryTypes
    <2>5. /\ turn' = "idle" /\ turn = "asked" /\ point' = NoPoint
          /\ UNCHANGED <<history, digest, pack, sent, late, forgotten, dropped, undone,
                         clears, cleared, afloat>>
      BY <1>3 DEF EndTurn, ClearSame
    <2>6. point' \in [kept: Seq(Message), base: SUBSET Ids, first: 0 .. sent']
          /\ Ranked(point'.kept, sent')
      BY <2>4, <2>5, NoMessages
    <2>7. QED
      BY <2>3, <2>4, <2>5, <2>6 DEF HistoryTypes, Packing
  <1>4. CASE CompressRead
    <2>1. Kept(history) \in Seq(Message) /\ Ranked(Kept(history), sent)
      BY <1>4, KeptFacts DEF CompressRead, HistoryTypes
    <2>2. pack' = [kept |-> Kept(history), base |-> {}]
      BY <1>4 DEF CompressRead, NoPack
    <2>3. dropped' \in SUBSET Ids
      <3>1. sent \in Nat /\ 1 .. sent \subseteq Ids
        BY DEF HistoryTypes, Ids
      <3>2. IdsOf(history) \subseteq 1 .. sent
        BY <3>1, RankedFacts DEF HistoryTypes
      <3>3. QED
        BY <1>4, <3>1, <3>2 DEF CompressRead, HistoryTypes
    <2>4. pack' \in [kept: Seq(Message), base: SUBSET Ids] /\ Ranked(pack'.kept, sent)
      BY <2>1, <2>2
    <2>5. /\ turn' = "pack" /\ sent' = sent
          /\ UNCHANGED <<history, digest, job, late, clears, point, forgotten, undone, cleared,
                         afloat>>
      BY <1>4 DEF CompressRead, JobSame, ClearSame, PointSame
    <2>6. QED
      BY <2>3, <2>4, <2>5 DEF HistoryTypes, Packing
  <1>5. CASE CompressSummary
    BY <1>5 DEF CompressSummary, JobSame, ClearSame, PointSame, HistoryTypes, Packing
  <1>6. CASE CompressNote
    BY <1>6 DEF CompressNote, ClearSame, PointSame, HistoryTypes, Packing
  <1>7. CASE CompressSet
    BY <1>7, NoMessages DEF CompressSet, JobSame, ClearSame, PointSame, HistoryTypes, Packing
  <1>8. CASE ClearBegin
    <2>1. /\ turn = "idle" /\ turn' = "clearing" /\ clears' = clears + 1 /\ clears < MaxClears
          /\ history' = TakenOver
          /\ UNCHANGED <<digest, job, point, pack, sent, late, forgotten, dropped, undone,
                         cleared, afloat>>
      BY <1>8 DEF ClearBegin, JobSame, PointSame
    <2>2. clears' \in 0 .. MaxClears
      BY <2>1 DEF HistoryTypes
    <2>3. history' \in Seq(Message) /\ Ranked(history', sent)
      BY <2>1, TakenOverFacts
    <2>4. pack = NoPack
      BY <2>1 DEF HistoryTypes, Packing
    <2>5. QED
      BY <2>1, <2>2, <2>3, <2>4 DEF HistoryTypes, Packing
  <1>9. CASE ClearHistory
    BY <1>9, NoMessages DEF ClearHistory, JobSame, ClearSame, PointSame, HistoryTypes, Packing
  <1>10. CASE ClearSummary
    <2>1. 1 .. sent \in SUBSET Ids
      BY DEF HistoryTypes, Ids
    <2>2. InTheMaking \in SUBSET Ids
      BY DEF InTheMaking, HistoryTypes
    <2>3. QED
      BY <1>10, <2>1, <2>2 DEF ClearSummary, JobSame, PointSame, HistoryTypes, Packing
  <1>11. CASE ReadHistory
    <2>1. KeepCount(history) \in 0 .. MaxMessages
          /\ IdsOf(SubSeq(history, 1, SafeCut(history))) \subseteq 1 .. sent
          /\ 1 .. sent \subseteq Ids
      <3>1. sent \in Nat /\ sent <= MaxMessages
        BY DEF HistoryTypes
      <3>2. /\ Len(history) \in 0 .. sent /\ IdsOf(history) \subseteq 1 .. sent
            /\ \A k : Gone(history, k) \subseteq IdsOf(history)
        BY <3>1, RankedFacts DEF HistoryTypes
      <3>3. /\ KeepCount(history) \in 0 .. Len(history)
            /\ IdsOf(SubSeq(history, 1, SafeCut(history))) = Gone(history, KeepCount(history))
        BY CutFacts DEF HistoryTypes
      <3>4. QED
        BY <3>1, <3>2, <3>3 DEF Ids
    <2>2. job' \in Job /\ job'.batch \in SUBSET (1 .. sent)
      <3> DEFINE batch == IdsOf(SubSeq(history, 1, SafeCut(history)))
      <3>1. CASE job' = NoJob
        BY <3>1, NoMessages
      <3>2. CASE job' = [NoJob EXCEPT !.at = "summary", !.keep = KeepCount(history),
                             !.batch = batch]
        <4> HIDE DEF batch
        <4>1. job' = [at |-> "summary", batch |-> batch, keep |-> KeepCount(history),
                      base |-> {}]
          BY <3>2 DEF NoJob
        <4>2. batch \in SUBSET Ids /\ batch \in SUBSET (1 .. sent)
          BY <2>1 DEF batch
        <4>3. QED
          BY <2>1, <4>1, <4>2
      <3>3. QED
        BY <1>11, <3>1, <3>2 DEF ReadHistory
    <2>3. QED
      BY <1>11, <2>2 DEF ReadHistory, WorkerSame, ClearSame, PointSame, HistoryTypes, Packing
  <1>12. CASE ReadSummary
    BY <1>12 DEF ReadSummary, WorkerSame, ClearSame, PointSame, HistoryTypes, Packing
  <1>13. CASE StoreSummary
    <2>1. NewSummary \in SUBSET Ids
      BY DEF NewSummary, HistoryTypes
    <2>2. QED
      BY <1>13, <2>1 DEF StoreSummary, WorkerSame, ClearSame, PointSame, HistoryTypes, Packing
  <1>14. CASE NoSummary
    BY <1>14, NoMessages DEF NoSummary, WorkerSame, ClearSame, PointSame, HistoryTypes, Packing
  <1>15. CASE Truncate
    <2>1. job.keep \in Nat
      BY DEF HistoryTypes
    <2>2. Suffix(history, job.keep) \in Seq(Message)
          /\ Ranked(Suffix(history, job.keep), sent)
          /\ (history = <<>> => Suffix(history, job.keep) = <<>>)
      <3>1. history \in Seq(Message) /\ Ranked(history, sent)
        BY DEF HistoryTypes
      <3>2. history = <<>> => Suffix(history, job.keep) = <<>>
        BY <2>1, NoMessages
      <3>3. QED
        BY <2>1, <3>1, <3>2, SuffixFacts
    <2>3. QED
      BY <1>15, <2>2, NoMessages DEF Truncate, WorkerSame, ClearSame, PointSame,
                             HistoryTypes, Packing
  <1>16. CASE UNCHANGED histVars
    BY <1>16 DEF histVars, HistoryTypes, Packing
  <1>17. QED
    BY <1>1, <1>2, <1>3, <1>4, <1>5, <1>6, <1>7, <1>8, <1>9, <1>10, <1>11, <1>12, <1>13,
       <1>14, <1>15, <1>16, <1>18, <1>19, <1>20, <1>21
       DEF HistoryNext, Worker, Summarize, Over

-----------------------------------------------------------------------------
(* What is under way.                                                        *)

LEMMA BatchStep ==
    ASSUME HistoryAssumption, HistoryTypes, BatchInv, [HistoryNext]_histVars
    PROVE  BatchInv'
  <1>1. CASE BeginTurn \/ ReadPoint \/ ReadPointSummary \/ AddMessage \/ RollBackHistory
             \/ CompressRead \/ CompressSummary \/ CompressSet \/ ClearBegin \/ ClearHistory
    BY <1>1 DEF BeginTurn, ReadPoint, ReadPointSummary, RollBackHistory, AddMessage,
                CompressRead, CompressSummary, CompressSet, ClearBegin, ClearHistory, JobSame, ClearSame, PointSame, BatchInv
  <1>2. CASE \E heavy \in BOOLEAN : EndTurn(heavy)
    <2>1. job' = job \/ job'.at = "history"
      BY <1>2 DEF EndTurn, NoJob
    <2>2. QED
      BY <1>2, <2>1 DEF EndTurn, ClearSame, PointSame, BatchInv
  <1>3. CASE CompressNote \/ RollBackSummary
    BY <1>3 DEF CompressNote, RollBackSummary, ClearSame, PointSame, BatchInv
  <1>4. CASE ClearSummary
    BY <1>4 DEF ClearSummary, JobSame, PointSame, BatchInv, HistoryTypes
  <1>5. CASE ReadHistory
    <2>1. job'.at \in {"off", "summary"}
      BY <1>5 DEF ReadHistory, NoJob
    <2>2. QED
      BY <2>1 DEF BatchInv
  <1>6. CASE ReadSummary
    BY <1>6 DEF ReadSummary, BatchInv, HistoryTypes
  <1>7. CASE StoreSummary
    <2>1. job'.batch = job.batch /\ job.batch \subseteq digest'
      BY <1>7 DEF StoreSummary, NewSummary, HistoryTypes
    <2>2. QED
      BY <2>1 DEF BatchInv
  <1>8. CASE NoSummary \/ Truncate
    BY <1>8 DEF NoSummary, Truncate, NoJob, BatchInv
  <1>9. CASE UNCHANGED histVars
    BY <1>9 DEF histVars, BatchInv
  <1>10. QED
    BY <1>1, <1>2, <1>3, <1>4, <1>5, <1>6, <1>7, <1>8, <1>9
       DEF HistoryNext, Worker, Summarize, Over

LEMMA PackStep ==
    ASSUME HistoryAssumption, HistoryTypes, PackInv, [HistoryNext]_histVars
    PROVE  PackInv'
  <1>1. CASE BeginTurn \/ ReadPoint \/ ReadPointSummary \/ AddMessage \/ RollBackHistory
             \/ RollBackSummary \/ (\E heavy \in BOOLEAN : EndTurn(heavy)) \/ CompressSet
             \/ ClearBegin \/ ClearHistory \/ ClearSummary
    <2>1. ~Packing'
      BY <1>1 DEF BeginTurn, ReadPoint, ReadPointSummary, AddMessage, RollBackHistory,
                  RollBackSummary, EndTurn, CompressSet, ClearBegin, ClearHistory,
                  ClearSummary, Packing
    <2>2. QED
      BY <2>1 DEF PackInv
  <1>2. CASE CompressRead
    <2>1. pack'.kept = Kept(history) /\ history' = history
      BY <1>2 DEF CompressRead, NoPack, JobSame
    <2>2. dropped' = dropped \cup (IdsOf(history) \ IdsOf(Kept(history)))
      BY <1>2 DEF CompressRead
    <2>3. \A n \in Nat : Gone(Kept(history), n) \subseteq Gone(history, n)
      BY <1>2, KeptFacts DEF CompressRead, HistoryTypes
    <2> DEFINE t == Kept(history)
    <2> HIDE DEF t
    <2>4. pack'.kept = t /\ IdsOf(history) \subseteq IdsOf(t) \cup dropped'
          /\ \A n \in Nat : Gone(t, n) \subseteq Gone(history, n)
      BY <2>1, <2>2, <2>3 DEF t
    <2>5. QED
      BY <2>1, <2>4 DEF PackInv
  <1>3. CASE CompressSummary \/ CompressNote
    <2>1. /\ history' = history /\ pack'.kept = pack.kept /\ dropped' = dropped /\ job' = job
          /\ Packing
      BY <1>3 DEF CompressSummary, CompressNote, JobSame, HistoryTypes, Packing
    <2>2. QED
      BY <2>1 DEF PackInv
  <1>4. CASE ReadHistory \/ ReadSummary \/ StoreSummary \/ NoSummary
    <2>1. /\ history' = history /\ pack' = pack /\ dropped' = dropped /\ turn' = turn
          /\ job.at # "off"
      BY <1>4 DEF ReadHistory, ReadSummary, StoreSummary, NoSummary, WorkerSame
    <2>2. QED
      BY <2>1 DEF PackInv, Packing
  <1>5. CASE Truncate
    <2>1. /\ job'.at = "off" /\ pack' = pack /\ dropped' = dropped /\ turn' = turn
          /\ history' = Suffix(history, job.keep) /\ job.keep \in Nat
      BY <1>5 DEF Truncate, WorkerSame, NoJob, HistoryTypes
    <2>2. IdsOf(Suffix(history, job.keep)) \subseteq IdsOf(history)
      BY <2>1, SuffixFacts DEF HistoryTypes
    <2>3. IdsOf(history') \subseteq IdsOf(history)
      BY <2>1, <2>2
    <2>4. QED
      BY <2>1, <2>3 DEF PackInv, Packing
  <1>6. CASE UNCHANGED histVars
    BY <1>6 DEF histVars, PackInv, Packing
  <1>7. QED
    BY <1>1, <1>2, <1>3, <1>4, <1>5, <1>6 DEF HistoryNext, Worker, Summarize, Over

(* The messages that a restore point leaves out are the turn's.               *)
LEMMA TailIsTurns ==
    ASSUME HistoryTypes, NEW n \in 0 .. Len(history), EndsInTurn(history, n)
    PROVE  {history[i].id : i \in Len(history) - n + 1 .. Len(history)}
               \subseteq point.first + 1 .. sent
  <1>1. Len(history) \in Nat /\ sent \in Nat /\ point.first \in Nat
    BY DEF HistoryTypes
  <1>2. n <= sent - point.first
        /\ \A i \in 1 .. n : history[Len(history) - n + i].id = sent - n + i
    BY DEF EndsInTurn
  <1> SUFFICES ASSUME NEW i \in Len(history) - n + 1 .. Len(history)
               PROVE  history[i].id \in point.first + 1 .. sent
    OBVIOUS
  <1> DEFINE j == i - (Len(history) - n)
  <1>3. j \in 1 .. n /\ i = Len(history) - n + j
    BY <1>1
  <1> HIDE DEF j
  <1>4. history[i].id = sent - n + j
    BY <1>2, <1>3
  <1>5. sent - n + j \in point.first + 1 .. sent
    BY <1>1, <1>2, <1>3
  <1>6. QED
    BY <1>4, <1>5

LEMMA PointStep ==
    ASSUME HistoryAssumption, HistoryTypes, PointInv, [HistoryNext]_histVars
    PROVE  PointInv'
  <1>1. CASE ReadPoint
    <2>1. PICK n \in 0 .. Len(history) :
              /\ EndsInTurn(history, n)
              /\ point' = [point EXCEPT !.kept = SubSeq(history, 1, Len(history) - n)]
      BY <1>1 DEF ReadPoint
    <2> DEFINE t == SubSeq(history, 1, Len(history) - n)
               tail == {history[i].id : i \in Len(history) - n + 1 .. Len(history)}
    <2>2. IdsOf(history) \subseteq IdsOf(t) \cup tail
          /\ \A k \in Nat : Gone(t, k) \subseteq Gone(history, k)
      BY <2>1, HeadFacts DEF HistoryTypes
    <2>3. tail \subseteq point.first + 1 .. sent
      BY <2>1, TailIsTurns
    <2> HIDE DEF t, tail
    <2>4. /\ point'.kept = t /\ point'.first = point.first
          /\ UNCHANGED <<history, job, sent>>
      BY <1>1, <2>1 DEF ReadPoint, JobSame, HistoryTypes, t
    <2>5. IdsOf(history') \subseteq IdsOf(point'.kept) \cup (point'.first + 1 .. sent')
      BY <2>2, <2>3, <2>4
    <2>6. \A k \in Nat : Gone(point'.kept, k) \subseteq Gone(history', k)
      BY <2>2, <2>4
    <2>7. QED
      BY <2>5, <2>6 DEF PointInv
  <1>2. CASE ReadPointSummary
    <2>1. /\ point'.kept = point.kept /\ point'.first = point.first /\ turn = "reading"
          /\ UNCHANGED <<history, job, sent>>
      BY <1>2 DEF ReadPointSummary, JobSame, HistoryTypes
    <2>2. QED
      BY <2>1 DEF PointInv
  <1>3. CASE AddMessage
    <2>1. PICK role \in {"user", "assistant"} :
              history' = Append(history, [id |-> sent + 1, role |-> role])
      BY <1>3 DEF AddMessage
    <2> DEFINE m == [id |-> sent + 1, role |-> role]
    <2>2. /\ sent \in Nat /\ sent + 1 \in Ids /\ point.first \in 0 .. sent
          /\ sent' = sent + 1 /\ turn = "asked" /\ UNCHANGED <<job, point>>
      BY <1>3, HistoryNumbers DEF AddMessage, JobSame, PointSame, HistoryTypes, Ids
    <2>3. m \in Message /\ m.id = sent + 1 /\ history' = Append(history, m)
      BY <2>1, <2>2 DEF Message
    <2> HIDE DEF m
    <2>4. history \in Seq(Message) /\ Ranked(history, sent)
      BY DEF HistoryTypes
    <2>5. IdsOf(Append(history, m)) = IdsOf(history) \cup {sent + 1}
      BY <2>2, <2>3, <2>4, AppendFacts
    <2>6. \A k \in Nat : Gone(history, k) \subseteq Gone(Append(history, m), k)
      BY <2>3, <2>4, AppendKeepsGone
    <2>7. point.first + 1 .. sent' = (point.first + 1 .. sent) \cup {sent + 1}
      BY <2>2
    <2>8. IdsOf(history') \subseteq IdsOf(point'.kept) \cup (point'.first + 1 .. sent')
      BY <2>2, <2>3, <2>5, <2>7 DEF PointInv
    <2>9. job'.at # "off" => \A k \in Nat : Gone(point'.kept, k) \subseteq Gone(history', k)
      BY <2>2, <2>3, <2>6 DEF PointInv
    <2>10. QED
      BY <2>8, <2>9 DEF PointInv
  <1>4. CASE ReadHistory \/ ReadSummary \/ StoreSummary \/ NoSummary
    <2>1. /\ UNCHANGED <<history, point, sent, turn>> /\ job.at # "off"
      BY <1>4 DEF ReadHistory, ReadSummary, StoreSummary, NoSummary, WorkerSame, PointSame
    <2>2. QED
      BY <2>1 DEF PointInv
  <1>5. CASE Truncate
    <2>1. /\ job'.at = "off" /\ UNCHANGED <<point, sent, turn>>
          /\ history' = Suffix(history, job.keep) /\ job.keep \in Nat
      BY <1>5 DEF Truncate, WorkerSame, PointSame, NoJob, HistoryTypes
    <2>2. IdsOf(history') \subseteq IdsOf(history)
      BY <2>1, SuffixFacts DEF HistoryTypes
    <2>3. QED
      BY <2>1, <2>2 DEF PointInv
  <1>6. CASE \/ BeginTurn \/ RollBackHistory \/ RollBackSummary
             \/ (\E heavy \in BOOLEAN : EndTurn(heavy)) \/ CompressRead \/ CompressSummary
             \/ CompressNote \/ CompressSet \/ ClearBegin \/ ClearHistory \/ ClearSummary
    <2>1. turn' \notin {"reading", "asked"}
      BY <1>6 DEF BeginTurn, RollBackHistory, RollBackSummary, EndTurn, CompressRead,
                  CompressSummary, CompressNote, CompressSet, ClearBegin, ClearHistory,
                  ClearSummary
    <2>2. QED
      BY <2>1 DEF PointInv
  <1>7. CASE UNCHANGED histVars
    BY <1>7 DEF histVars, PointInv
  <1>8. QED
    BY <1>1, <1>2, <1>3, <1>4, <1>5, <1>6, <1>7 DEF HistoryNext, Worker, Summarize, Over

-----------------------------------------------------------------------------
(* What was cleared stays away.                                              *)

LEMMA ClearStep ==
    ASSUME HistoryAssumption, HistoryTypes, ClearInv, [HistoryNext]_histVars
    PROVE  ClearInv'
  <1>1. CASE BeginTurn \/ ClearBegin
    <2>1. history' = TakenOver /\ UNCHANGED <<digest, pack, job, cleared, afloat>>
          /\ \/ point' = point
             \/ IdsOf(point'.kept) = {} /\ point'.base = {}
      BY <1>1, NoMessages DEF BeginTurn, ClearBegin, JobSame, ClearSame, PointSame, NoPoint
    <2>2. IdsOf(history') \subseteq IdsOf(history) \cup Old
      BY <2>1, TakenOverFacts
    <2>3. QED
      BY <2>1, <2>2 DEF ClearInv, Visible, InTheMaking
  <1>2. CASE AddMessage
    <2>0. PICK role \in {"user", "assistant"} :
              history' = Append(history, [id |-> sent + 1, role |-> role])
      BY <1>2 DEF AddMessage
    <2> DEFINE m == [id |-> sent + 1, role |-> role]
    <2>1. sent \in Nat /\ sent + 1 \in Ids /\ cleared \subseteq 1 .. sent
      BY <1>2, HistoryNumbers DEF AddMessage, HistoryTypes, Ids
    <2>2. m \in Message /\ m.id = sent + 1
      BY <2>1 DEF Message
    <2> HIDE DEF m
    <2>3. IdsOf(Append(history, m)) = IdsOf(history) \cup {sent + 1}
      BY <2>1, <2>2, AppendFacts DEF HistoryTypes
    <2>4. history' = Append(history, m) /\ UNCHANGED <<digest, point, pack, job, cleared, afloat>>
      BY <1>2, <2>0 DEF AddMessage, JobSame, ClearSame, PointSame, m
    <2>5. IdsOf(history') = IdsOf(history) \cup {sent + 1} /\ sent + 1 \notin cleared
      BY <2>1, <2>3, <2>4
    <2>6. QED
      BY <2>4, <2>5 DEF ClearInv, Visible, InTheMaking
  <1>3. CASE \E heavy \in BOOLEAN : EndTurn(heavy)
    <2>1. job' = job \/ job'.at = "history"
      BY <1>3 DEF EndTurn, NoJob
    <2>2. UNCHANGED <<history, digest, pack, cleared, afloat>>
          /\ IdsOf(point'.kept) = {} /\ point'.base = {}
      BY <1>3, NoMessages DEF EndTurn, ClearSame
    <2>3. InTheMaking' \subseteq InTheMaking
      BY <2>1 DEF InTheMaking
    <2>4. QED
      BY <2>2, <2>3 DEF ClearInv, Visible
  <1>17. CASE ReadPoint
    <2>1. PICK n \in 0 .. Len(history) :
              point' = [point EXCEPT !.kept = SubSeq(history, 1, Len(history) - n)]
      BY <1>17 DEF ReadPoint
    <2>2. IdsOf(SubSeq(history, 1, Len(history) - n)) \subseteq IdsOf(history)
      BY <2>1, HeadFacts DEF HistoryTypes
    <2>3. IdsOf(point'.kept) \subseteq IdsOf(history) /\ point'.base = point.base
      BY <2>1, <2>2 DEF HistoryTypes
    <2>4. UNCHANGED <<history, digest, pack, job, cleared, afloat>>
      BY <1>17 DEF ReadPoint, JobSame, ClearSame
    <2>5. QED
      BY <2>3, <2>4 DEF ClearInv, Visible, InTheMaking
  <1>18. CASE ReadPointSummary
    <2>1. /\ point'.kept = point.kept /\ point'.base = digest
          /\ UNCHANGED <<history, digest, pack, job, cleared, afloat>>
      BY <1>18 DEF ReadPointSummary, JobSame, ClearSame, HistoryTypes
    <2>2. QED
      BY <2>1 DEF ClearInv, Visible, InTheMaking
  <1>19. CASE RollBackHistory
    <2>1. history' = point.kept /\ UNCHANGED <<digest, point, pack, job, cleared, afloat>>
      BY <1>19 DEF RollBackHistory, JobSame, ClearSame
    <2>2. QED
      BY <2>1 DEF ClearInv, Visible, InTheMaking
  <1>20. CASE RollBackSummary
    <2>1. /\ digest' = point.base /\ IdsOf(point'.kept) = {} /\ point'.base = {}
          /\ UNCHANGED <<history, pack, job, cleared, afloat>>
      BY <1>20, NoMessages DEF RollBackSummary, ClearSame
    <2>2. QED
      BY <2>1 DEF ClearInv, Visible, InTheMaking
  <1>4. CASE CompressRead
    <2>1. /\ pack'.kept = Kept(history) /\ pack'.base = {}
          /\ UNCHANGED <<history, digest, point, job, cleared, afloat>>
      BY <1>4 DEF CompressRead, NoPack, JobSame, ClearSame, PointSame
    <2>2. IdsOf(Kept(history)) \subseteq IdsOf(history)
      BY <1>4, KeptFacts DEF CompressRead, HistoryTypes
    <2>3. IdsOf(pack'.kept) \subseteq IdsOf(history)
      BY <2>1, <2>2
    <2>4. QED
      BY <2>1, <2>3 DEF ClearInv, Visible, InTheMaking
  <1>5. CASE CompressSummary
    <2>1. /\ pack'.kept = pack.kept /\ pack'.base = digest
          /\ UNCHANGED <<history, digest, point, job, cleared, afloat>>
      BY <1>5 DEF CompressSummary, JobSame, ClearSame, PointSame, HistoryTypes
    <2>2. QED
      BY <2>1 DEF ClearInv, Visible, InTheMaking
  <1>6. CASE CompressNote
    <2>1. /\ digest' = pack.base
          /\ UNCHANGED <<history, point, pack, job, cleared, afloat>>
      BY <1>6 DEF CompressNote, ClearSame, PointSame
    <2>2. QED
      BY <2>1 DEF ClearInv, Visible, InTheMaking
  <1>7. CASE CompressSet
    <2>1. /\ history' = pack.kept /\ pack' = NoPack
          /\ UNCHANGED <<digest, point, job, cleared, afloat>>
      BY <1>7 DEF CompressSet, JobSame, ClearSame, PointSame
    <2>2. IdsOf(pack'.kept) = {} /\ pack'.base = {}
      BY <2>1, NoMessages
    <2>3. QED
      BY <2>1, <2>2 DEF ClearInv, Visible, InTheMaking
  <1>8. CASE ClearHistory
    <2>1. /\ history' = <<>>
          /\ UNCHANGED <<digest, point, pack, job, cleared, afloat>>
      BY <1>8 DEF ClearHistory, JobSame, ClearSame, PointSame
    <2>2. IdsOf(history') = {}
      BY <2>1, NoMessages
    <2>3. QED
      BY <2>1, <2>2 DEF ClearInv, Visible, InTheMaking
  <1>9. CASE ClearSummary
    <2>1. /\ history' = <<>> /\ digest' = {} /\ pack' = NoPack /\ job' = job
          /\ afloat' = afloat \cup InTheMaking /\ point' = NoPoint
      BY <1>9 DEF ClearSummary, JobSame, PointSame, HistoryTypes, Packing
    <2>2. IdsOf(history') = {} /\ IdsOf(pack'.kept) = {} /\ pack'.base = {}
          /\ InTheMaking' = InTheMaking /\ IdsOf(point'.kept) = {} /\ point'.base = {}
      BY <2>1, NoMessages DEF InTheMaking
    <2>3. QED
      BY <2>1, <2>2 DEF ClearInv, Visible
  <1>10. CASE ReadHistory
    <2>1. UNCHANGED <<history, digest, point, pack, cleared, afloat>>
      BY <1>10 DEF ReadHistory, WorkerSame, ClearSame, PointSame
    <2>2. IdsOf(SubSeq(history, 1, SafeCut(history))) \subseteq IdsOf(history)
      <3>1. IdsOf(SubSeq(history, 1, SafeCut(history))) = Gone(history, KeepCount(history))
        BY CutFacts DEF HistoryTypes
      <3>2. QED
        BY <3>1 DEF Gone, IdsOf
    <2>3. InTheMaking' \subseteq IdsOf(history)
      BY <1>10, <2>2 DEF ReadHistory, InTheMaking, NoJob
    <2>4. QED
      BY <2>1, <2>3 DEF ClearInv, Visible
  <1>11. CASE ReadSummary
    <2>1. UNCHANGED <<history, digest, point, pack, cleared, afloat>>
      BY <1>11 DEF ReadSummary, WorkerSame, ClearSame, PointSame
    <2>2. InTheMaking' \subseteq InTheMaking \cup digest
      BY <1>11 DEF ReadSummary, InTheMaking, HistoryTypes
    <2>3. QED
      BY <2>1, <2>2 DEF ClearInv, Visible
  <1>12. CASE StoreSummary
    <2>1. UNCHANGED <<history, point, pack, cleared, afloat>>
      BY <1>12 DEF StoreSummary, WorkerSame, ClearSame, PointSame
    <2>2. digest' \subseteq InTheMaking /\ InTheMaking' = {}
      BY <1>12 DEF StoreSummary, NewSummary, InTheMaking, HistoryTypes
    <2>3. QED
      BY <2>1, <2>2 DEF ClearInv, Visible
  <1>13. CASE NoSummary
    <2>1. UNCHANGED <<history, digest, point, pack, cleared, afloat>>
      BY <1>13 DEF NoSummary, WorkerSame, ClearSame, PointSame
    <2>2. InTheMaking' = {}
      BY <1>13 DEF NoSummary, InTheMaking, NoJob
    <2>3. QED
      BY <2>1, <2>2 DEF ClearInv, Visible
  <1>14. CASE Truncate
    <2>1. UNCHANGED <<digest, point, pack, cleared, afloat>>
          /\ history' = Suffix(history, job.keep) /\ job.keep \in Nat
      BY <1>14 DEF Truncate, WorkerSame, ClearSame, PointSame, HistoryTypes
    <2>2. IdsOf(Suffix(history, job.keep)) \subseteq IdsOf(history)
      BY <2>1, SuffixFacts DEF HistoryTypes
    <2>3. IdsOf(history') \subseteq IdsOf(history) /\ InTheMaking' = {}
      BY <1>14, <2>1, <2>2 DEF Truncate, InTheMaking, NoJob
    <2>4. QED
      BY <2>1, <2>3 DEF ClearInv, Visible
  <1>15. CASE UNCHANGED histVars
    BY <1>15 DEF histVars, ClearInv, Visible, InTheMaking
  <1>16. QED
    BY <1>1, <1>2, <1>3, <1>4, <1>5, <1>6, <1>7, <1>8, <1>9, <1>10, <1>11, <1>12, <1>13,
       <1>14, <1>15, <1>17, <1>18, <1>19, <1>20
       DEF HistoryNext, Worker, Summarize, Over

-----------------------------------------------------------------------------
(* What is lost.                                                             *)

Clearing == turn \in {"clearing", "emptied"}

LEMMA LossIsFinite ==
    ASSUME HistoryAssumption, HistoryTypes
    PROVE  IsFiniteSet(Missing \cup Doomed)
           /\ Cardinality(Missing \cup Doomed) \in Nat
  <1>1. NumInherited + 1 \in Int /\ sent \in Int
    BY HistoryNumbers DEF HistoryTypes
  <1>2. IsFiniteSet(NumInherited + 1 .. sent)
    BY <1>1, FS_Interval
  <1>3. Missing \cup Doomed \in SUBSET (NumInherited + 1 .. sent)
    BY DEF Missing, Doomed
  <1>4. QED
    BY <1>2, <1>3, FS_Subset, FS_CardinalityType

LEMMA LossShrinks ==
    ASSUME HistoryAssumption, HistoryTypes, LossInv, Clearing' \/ ~Clearing, late' = late,
           Missing' \subseteq Missing \cup Doomed, Doomed' \subseteq Doomed
    PROVE  LossInv'
  <1>1. Missing' \cup Doomed' \in SUBSET (Missing \cup Doomed)
    OBVIOUS
  <1> DEFINE S == Missing \cup Doomed
             T == Missing' \cup Doomed'
  <1>2. IsFiniteSet(S) /\ Cardinality(S) \in Nat /\ T \in SUBSET S
    BY <1>1, LossIsFinite
  <1>3. LossInv' <=> (~Clearing' => Cardinality(T) <= late')
    BY DEF LossInv, Clearing
  <1>4. LossInv <=> (~Clearing => Cardinality(S) <= late)
    BY DEF LossInv, Clearing
  <1> HIDE DEF S, T
  <1>5. Cardinality(T) <= Cardinality(S) /\ Cardinality(T) \in Nat
    BY <1>2, FS_Subset, FS_CardinalityType
  <1>6. QED
    BY <1>2, <1>3, <1>4, <1>5 DEF HistoryTypes

(* Most steps of the worker and of the summary: what is known of stays known *)
(* of, and the truncation under way is the same.                             *)
Accounted == digest \cup forgotten \cup dropped \cup undone \cup cleared

LEMMA LossSame ==
    ASSUME HistoryAssumption, HistoryTypes, LossInv, Clearing' \/ ~Clearing,
           late' = late, sent' = sent, Accounted \subseteq Accounted',
           IdsOf(history) \subseteq IdsOf(history') \cup Accounted',
           ~Summing' \/
               (/\ Summing /\ job'.keep = job.keep /\ job'.batch = job.batch
                /\ Gone(history', job.keep) \subseteq Gone(history, job.keep) \cup Old)
    PROVE  LossInv'
  <1>1. Missing' \subseteq Missing
    BY DEF Missing, Visible, Accounted
  <1>2. Doomed' \subseteq Doomed
    <2>1. CASE ~Summing'
      BY <2>1 DEF Doomed
    <2>2. CASE Summing' /\ Summing
      <3>1. /\ job'.keep = job.keep /\ job'.batch = job.batch
            /\ Gone(history', job'.keep) \subseteq Gone(history, job.keep) \cup Old
        BY <2>2
      <3>2. Old \cap (NumInherited + 1 .. sent) = {}
        BY HistoryNumbers DEF Old, HistoryTypes
      <3>3. QED
        BY <2>2, <3>1, <3>2 DEF Doomed, Accounted
    <2>3. QED
      BY <2>1, <2>2
  <1>3. QED
    BY <1>1, <1>2, LossShrinks

LEMMA LossStep ==
    ASSUME HistoryAssumption, HistoryTypes, BatchInv, PackInv, PointInv, LossInv,
           [HistoryNext]_histVars
    PROVE  LossInv'
  <1>1. CASE BeginTurn \/ ClearBegin
    <2>1. /\ history' = TakenOver
          /\ UNCHANGED <<digest, job, sent, late, forgotten, dropped, undone, cleared>>
          /\ ~Clearing
      BY <1>1 DEF BeginTurn, ClearBegin, JobSame, ClearSame, PointSame, Clearing
    <2>2. IdsOf(history) \subseteq IdsOf(history')
          /\ Gone(history', job.keep) \subseteq Gone(history, job.keep) \cup Old
      BY <2>1, TakenOverFacts
    <2>3. Accounted' = Accounted /\ Summing' = Summing
      BY <2>1 DEF Accounted, Summing
    <2>4. QED
      BY <2>1, <2>2, <2>3, LossSame
  <1>2. CASE AddMessage
    <2>0. PICK role \in {"user", "assistant"} :
              history' = Append(history, [id |-> sent + 1, role |-> role])
      BY <1>2 DEF AddMessage
    <2> DEFINE m == [id |-> sent + 1, role |-> role]
    <2>1. sent \in Nat /\ sent + 1 \in Ids /\ NumInherited \in Nat /\ NumInherited <= sent
      BY <1>2, HistoryNumbers DEF AddMessage, HistoryTypes, Ids
    <2>2. m \in Message /\ m.id = sent + 1
      BY <2>1 DEF Message
    <2> HIDE DEF m
    <2>3. IdsOf(Append(history, m)) = IdsOf(history) \cup {sent + 1}
          /\ \E x : Gone(Append(history, m), job.keep) \subseteq Gone(history, job.keep) \cup {x}
      <3>1. history \in Seq(Message) /\ Ranked(history, sent)
        BY DEF HistoryTypes
      <3>2. IdsOf(Append(history, m)) = IdsOf(history) \cup {sent + 1}
            /\ \A k \in Nat : \E x : Gone(Append(history, m), k) \subseteq Gone(history, k) \cup {x}
        BY <2>1, <2>2, <3>1, AppendFacts
      <3>3. job.keep \in Nat
        BY DEF HistoryTypes
      <3>4. QED
        BY <3>2, <3>3
    <2>4. history' = Append(history, m) /\ sent' = sent + 1 /\ ~Clearing /\ ~Clearing'
          /\ UNCHANGED <<digest, job, forgotten, dropped, undone, cleared>>
      BY <1>2, <2>0 DEF AddMessage, JobSame, ClearSame, PointSame, Clearing, m
    <2>5. PICK x : Gone(history', job.keep) \subseteq Gone(history, job.keep) \cup {x}
      BY <2>3, <2>4
    <2>6. IdsOf(history') = IdsOf(history) \cup {sent + 1}
          /\ NumInherited + 1 .. sent' = (NumInherited + 1 .. sent) \cup {sent + 1}
      BY <2>1, <2>3, <2>4
    <2>7. Missing' \subseteq Missing
      BY <2>4, <2>6 DEF Missing, Visible
    <2>8. CASE Summing
      <3>1. Summing' /\ job' = job /\ late' = late + 1
        BY <1>2, <2>4, <2>8 DEF Summing, AddMessage
      <3>2. sent + 1 \notin Gone(history, job.keep)
        <4>1. Gone(history, job.keep) \subseteq IdsOf(history) /\ IdsOf(history) \subseteq 1 .. sent
          BY <2>1, RankedFacts DEF HistoryTypes
        <4>2. sent + 1 \notin 1 .. sent
          BY <2>1
        <4>3. QED
          BY <4>1, <4>2
      <3>3. Doomed' \subseteq Doomed \cup {x}
        BY <2>4, <2>5, <2>6, <2>8, <3>1, <3>2 DEF Doomed
      <3> DEFINE S == Missing \cup Doomed
                 T == Missing' \cup Doomed'
      <3>4. IsFiniteSet(S) /\ Cardinality(S) \in Nat /\ T \in SUBSET (S \cup {x})
        BY <2>7, <3>3, LossIsFinite
      <3>5. Cardinality(S) <= late
        BY <2>4 DEF LossInv, Clearing
      <3>6. LossInv' <=> Cardinality(T) <= late'
        BY <2>4 DEF LossInv, Clearing
      <3> HIDE DEF S, T
      <3>7. /\ IsFiniteSet(S \cup {x})
            /\ Cardinality(S \cup {x}) \in {Cardinality(S), Cardinality(S) + 1}
        BY <3>4, FS_AddElement
      <3>8. Cardinality(T) <= Cardinality(S \cup {x}) /\ Cardinality(T) \in Nat
        BY <3>4, <3>7, FS_Subset, FS_CardinalityType
      <3>9. QED
        BY <3>1, <3>4, <3>5, <3>6, <3>7, <3>8 DEF HistoryTypes
    <2>9. CASE ~Summing
      <3>1. Doomed' = {} /\ late' = late
        BY <1>2, <2>4, <2>9 DEF Summing, AddMessage, Doomed
      <3>2. QED
        BY <2>4, <2>7, <3>1, LossShrinks
    <2>10. QED
      BY <2>8, <2>9
  <1>3. CASE \E heavy \in BOOLEAN : EndTurn(heavy)
    <2>1. job' = job \/ job'.at = "history"
      BY <1>3 DEF EndTurn, NoJob
    <2>2. /\ UNCHANGED <<history, digest, sent, late, forgotten, dropped, undone, cleared>>
          /\ ~Clearing
      BY <1>3 DEF EndTurn, ClearSame, PointSame, Clearing
    <2>3. Accounted' = Accounted /\ (~Summing' \/ (job' = job /\ Summing))
      BY <2>1, <2>2 DEF Accounted, Summing
    <2>4. QED
      BY <2>2, <2>3, LossSame
  <1>4. CASE \/ CompressRead \/ CompressSummary \/ CompressNote \/ ReadPoint
             \/ ReadPointSummary \/ RollBackSummary
    <2>1. /\ UNCHANGED <<history, sent, late, cleared, job>>
          /\ ~Clearing
      BY <1>4 DEF CompressRead, CompressSummary, CompressNote, ReadPoint, ReadPointSummary,
                  RollBackSummary, JobSame, ClearSame, PointSame, Clearing
    <2>2. Accounted \subseteq Accounted'
      BY <1>4 DEF CompressRead, CompressSummary, CompressNote, ReadPoint, ReadPointSummary,
                  RollBackSummary, JobSame, ClearSame, PointSame, Accounted
    <2>3. Summing' = Summing
      BY <2>1 DEF Summing
    <2>4. QED
      BY <2>1, <2>2, <2>3, LossSame
  <1>5. CASE CompressSet
    <2>1. /\ history' = pack.kept
          /\ UNCHANGED <<digest, sent, late, forgotten, dropped, undone, cleared, job>>
          /\ ~Clearing /\ Packing
      BY <1>5 DEF CompressSet, JobSame, ClearSame, PointSame, Clearing, Packing
    <2>2. IdsOf(history) \subseteq IdsOf(history') \cup dropped
      BY <2>1 DEF PackInv
    <2>3. Summing => Gone(history', job.keep) \subseteq Gone(history, job.keep)
      <3>1. job.keep \in Nat /\ (Summing => job.at # "off")
        BY DEF HistoryTypes, Summing
      <3>2. Summing => Gone(pack.kept, job.keep) \subseteq Gone(history, job.keep)
        BY <2>1, <3>1 DEF PackInv
      <3>3. QED
        BY <2>1, <3>2
    <2>4. Accounted' = Accounted /\ Summing' = Summing /\ dropped \subseteq Accounted
      BY <2>1 DEF Summing, Accounted
    <2>5. QED
      BY <2>1, <2>2, <2>3, <2>4, LossSame
  <1>13. CASE RollBackHistory
    <2>1. /\ history' = point.kept /\ turn = "asked"
          /\ undone' = undone \cup (point.first + 1 .. sent)
          /\ UNCHANGED <<digest, sent, late, forgotten, dropped, cleared, job>>
      BY <1>13 DEF RollBackHistory, JobSame, ClearSame
    <2>2. IdsOf(history) \subseteq IdsOf(history') \cup (point.first + 1 .. sent)
      BY <2>1 DEF PointInv
    <2>3. Summing => Gone(history', job.keep) \subseteq Gone(history, job.keep)
      <3>1. job.keep \in Nat /\ (Summing => job.at # "off")
        BY DEF HistoryTypes, Summing
      <3>2. QED
        BY <2>1, <3>1 DEF PointInv
    <2>4. /\ Accounted \subseteq Accounted' /\ point.first + 1 .. sent \subseteq Accounted'
          /\ Summing' = Summing /\ ~Clearing
      BY <2>1 DEF Summing, Accounted, Clearing
    <2>5. QED
      BY <2>1, <2>2, <2>3, <2>4, LossSame
  <1>6. CASE ClearHistory
    BY <1>6 DEF ClearHistory, LossInv
  <1>7. CASE ClearSummary
    <2>1. /\ sent' = sent /\ cleared' = 1 .. sent /\ late' = late
      BY <1>7 DEF ClearSummary
    <2>2. NumInherited + 1 .. sent \subseteq 1 .. sent
      BY HistoryNumbers DEF HistoryTypes
    <2>3. Missing' \cup Doomed' = {}
      BY <2>1, <2>2 DEF Missing, Doomed
    <2> DEFINE T == Missing' \cup Doomed'
    <2>4. LossInv' <=> (~Clearing' => Cardinality(T) <= late')
      BY DEF LossInv, Clearing
    <2> HIDE DEF T
    <2>5. Cardinality(T) = 0
      BY <2>3, FS_EmptySet DEF T
    <2>6. QED
      BY <2>1, <2>4, <2>5 DEF HistoryTypes
  <1>8. CASE ReadHistory
    <2>1. /\ UNCHANGED <<history, digest, sent, late, forgotten, dropped, undone, cleared, turn>>
      BY <1>8 DEF ReadHistory, WorkerSame, ClearSame, PointSame
    <2>2. Missing' = Missing
      BY <2>1 DEF Missing, Visible
    <2>3. ~Summing' \/ job'.batch = Gone(history, job'.keep)
      <3>1. IdsOf(SubSeq(history, 1, SafeCut(history))) = Gone(history, KeepCount(history))
        BY CutFacts DEF HistoryTypes
      <3>2. job' = NoJob \/ (/\ job'.batch = IdsOf(SubSeq(history, 1, SafeCut(history)))
                             /\ job'.keep = KeepCount(history))
        BY <1>8 DEF ReadHistory, NoJob
      <3>3. job' = NoJob => ~Summing'
        BY NoMessages DEF Summing
      <3>4. QED
        BY <3>1, <3>2, <3>3
    <2>4. Doomed' = {}
      BY <2>1, <2>3 DEF Doomed
    <2>5. Clearing' = Clearing
      BY <2>1 DEF Clearing
    <2>6. QED
      BY <2>1, <2>2, <2>4, <2>5, LossShrinks
  <1>9. CASE ReadSummary \/ StoreSummary \/ NoSummary
    <2>1. /\ UNCHANGED <<history, sent, late, dropped, undone, cleared, turn>>
          /\ Summing
      BY <1>9 DEF ReadSummary, StoreSummary, NoSummary, WorkerSame, ClearSame, PointSame, Summing
    <2>2. Accounted \subseteq Accounted'
      BY <1>9 DEF ReadSummary, StoreSummary, NoSummary, WorkerSame, ClearSame,
                       PointSame, Accounted
    <2>3. ~Summing' \/ (job'.keep = job.keep /\ job'.batch = job.batch)
      <3>1. CASE ReadSummary
        BY <3>1 DEF ReadSummary, HistoryTypes
      <3>2. CASE StoreSummary
        BY <3>2 DEF StoreSummary, HistoryTypes
      <3>3. CASE NoSummary
        BY <3>3 DEF NoSummary, NoJob, Summing
      <3>4. QED
        BY <1>9, <3>1, <3>2, <3>3
    <2>4. Clearing' = Clearing
      BY <2>1 DEF Clearing
    <2>5. QED
      BY <2>1, <2>2, <2>3, <2>4, LossSame
  <1>10. CASE Truncate
    <2>1. /\ UNCHANGED <<digest, sent, late, forgotten, dropped, undone, cleared, turn>>
          /\ history' = Suffix(history, job.keep) /\ job.keep \in Nat
          /\ Summing /\ ~Summing' /\ job.at = "truncate"
      BY <1>10 DEF Truncate, WorkerSame, ClearSame, PointSame, NoJob, Summing, HistoryTypes
    <2>2. IdsOf(history) \subseteq IdsOf(history') \cup Gone(history, job.keep)
      BY <2>1, SuffixFacts DEF HistoryTypes
    <2>3. job.batch \subseteq digest \cup forgotten \cup cleared
      BY <2>1 DEF BatchInv
    <2>4. Missing' \subseteq Missing \cup Doomed
      BY <2>1, <2>2, <2>3 DEF Missing, Doomed, Visible
    <2>5. Doomed' = {} /\ Clearing' = Clearing
      BY <2>1 DEF Doomed, Clearing
    <2>6. QED
      BY <2>1, <2>4, <2>5, LossShrinks
  <1>11. CASE UNCHANGED histVars
    BY <1>11 DEF histVars, LossInv, Missing, Doomed, Visible, Summing
  <1>12. QED
    BY <1>1, <1>2, <1>3, <1>4, <1>5, <1>6, <1>7, <1>8, <1>9, <1>10, <1>11, <1>13
       DEF HistoryNext, Worker, Summarize, Over

-----------------------------------------------------------------------------
(* The theorems.                                                             *)

LEMMA HistoryInvInit == ASSUME HistoryAssumption, HistoryInit PROVE HistoryInv
  <1>1. HistoryTypes
    BY TypesInit
  <1>2. BatchInv /\ PackInv /\ PointInv
    BY NoMessages DEF HistoryInit, BatchInv, PackInv, PointInv, Packing
  <1>3. ClearInv
    BY DEF HistoryInit, ClearInv
  <1>4. LossInv
    <2>1. sent = NumInherited /\ late = 0
      BY DEF HistoryInit
    <2>2. NumInherited + 1 .. sent = {}
      BY <2>1, HistoryNumbers
    <2>3. Missing \cup Doomed = {}
      BY <2>2 DEF Missing, Doomed
    <2>4. QED
      BY <2>1, <2>3, FS_EmptySet DEF LossInv
  <1>5. QED
    BY <1>1, <1>2, <1>3, <1>4 DEF HistoryInv

LEMMA HistoryInvStep ==
    ASSUME HistoryAssumption, HistoryInv, [HistoryNext]_histVars PROVE HistoryInv'
  BY TypesStep, BatchStep, PackStep, PointStep, LossStep, ClearStep DEF HistoryInv

(* The session's history and summary, its worker and the goroutine that       *)
(* summarises have the types the model gives them; above all the number of    *)
(* messages summarizeSession decides to keep is one the history can have.     *)
THEOREM HistoryTypeCorrect == ASSUME HistoryAssumption PROVE HistorySpec => []HistoryTypeOK
  <1>1. HistoryInv => HistoryTypeOK
    <2>1. ASSUME HistoryInv PROVE 1 .. sent \subseteq Ids
      BY <2>1, HistoryNumbers DEF HistoryInv, HistoryTypes, Ids
    <2>2. QED
      BY <2>1 DEF HistoryInv, HistoryTypes, HistoryTypeOK
  <1>2. QED
    BY <1>1, HistoryInvInit, HistoryInvStep, PTL DEF HistorySpec

(* What a session keeps: messages are lost only as far as others were added   *)
(* while a summary was made, and nothing that /clear removed comes back,      *)
(* except what was already on its way into a summary.                         *)
THEOREM HistoryIsKeptCorrect == ASSUME HistoryAssumption PROVE HistorySpec => []HistoryIsKept
  <1>1. ASSUME HistoryInv PROVE HistoryIsKept
    <2>1. LossNeedsOverlap
      <3> SUFFICES ASSUME ~Clearing PROVE Cardinality(Missing) <= late
        BY DEF LossNeedsOverlap, Missing, Clearing
      <3> DEFINE S == Missing \cup Doomed
      <3>1. /\ IsFiniteSet(S) /\ Cardinality(S) \in Nat /\ Missing \in SUBSET S
            /\ Cardinality(S) <= late /\ late \in Nat
        BY <1>1, LossIsFinite DEF HistoryInv, LossInv, HistoryTypes, Clearing
      <3> HIDE DEF S
      <3>2. Cardinality(Missing) <= Cardinality(S) /\ Cardinality(Missing) \in Nat
        BY <3>1, FS_Subset, FS_CardinalityType
      <3>3. QED
        BY <3>1, <3>2
    <2>2. ClearedStaysAway
      BY <1>1 DEF HistoryInv, ClearInv, ClearedStaysAway
    <2>3. QED
      BY <2>1, <2>2 DEF HistoryIsKept
  <1>2. QED
    BY <1>1, HistoryInvInit, HistoryInvStep, PTL DEF HistorySpec

-----------------------------------------------------------------------------
(* Seahorse: numbers, finite sets and the operators on context items.        *)

LEMMA MinIsLeast ==
    ASSUME NEW S \in SUBSET Nat, S # {}
    PROVE  Min(S) \in S /\ \A y \in S : Min(S) <= y
  BY LeastExists DEF Min

LEMMA FiniteBounded ==
    ASSUME NEW S \in SUBSET Nat, IsFiniteSet(S)
    PROVE  \E b \in Nat : \A x \in S : x <= b
  <1>1. PICK s \in Seq(S) : \A x \in S : \E n \in 1 .. Len(s) : s[n] = x
    BY DEF IsFiniteSet
  <1>2. \A i \in 1 .. Len(s) : s[i] \in Nat
    <2>1. \A i \in 1 .. Len(s) : s[i] \in S
      BY <1>1
    <2>2. QED
      BY <2>1
  <1>3. Len(s) \in Nat
    BY <1>1
  <1> DEFINE K == {n \in 0 .. Len(s) : ~ \E b \in Nat : \A i \in 1 .. n : s[i] <= b}
  <1>4. K = {}
    <2> SUFFICES ASSUME K # {} PROVE FALSE
      OBVIOUS
    <2>1. PICK k \in K : \A l \in K : k <= l
      <3>1. K \in SUBSET Nat
        BY <1>3
      <3> HIDE DEF K
      <3>2. QED
        BY <3>1, LeastExists
    <2>2. k # 0
      <3>1. \A i \in 1 .. 0 : s[i] <= 0
        OBVIOUS
      <3>2. QED
        BY <3>1
    <2>3. k \in 0 .. Len(s)
      BY <2>1
    <2>9. k - 1 \in 0 .. Len(s) /\ k - 1 \notin K
      <3>1. k - 1 \in 0 .. Len(s) /\ ~(k <= k - 1)
        BY <1>3, <2>2, <2>3
      <3> HIDE DEF K
      <3>2. QED
        BY <3>1, <2>1
    <2>4. PICK b \in Nat : \A i \in 1 .. k - 1 : s[i] <= b
      BY <2>9
    <2> HIDE DEF K
    <2>5. k \in 1 .. Len(s) /\ s[k] \in Nat
      BY <1>2, <1>3, <2>2, <2>3
    <2>6. PICK d \in Nat : d >= b /\ d >= s[k]
      <3>1. CASE s[k] >= b
        BY <2>4, <2>5, <3>1
      <3>2. CASE s[k] < b
        BY <2>4, <2>5, <3>2
      <3>3. QED
        BY <2>4, <2>5, <3>1, <3>2
    <2>7. \A i \in 1 .. k : s[i] <= d
      <3> SUFFICES ASSUME NEW i \in 1 .. k PROVE s[i] <= d
        OBVIOUS
      <3>1. s[i] \in Nat
        BY <1>2, <2>5
      <3>2. CASE i = k
        BY <2>6, <3>2
      <3>3. CASE i # k
        <4>1. i \in 1 .. k - 1
          BY <2>5, <3>3
        <4>2. QED
          <5>1. s[i] <= b
            BY <4>1, <2>4
          <5>2. QED
            BY <5>1, <2>4, <2>6, <3>1
      <3>4. QED
        BY <3>2, <3>3
    <2>8. QED
      BY <2>1, <2>6, <2>7 DEF K
  <1>5. PICK b \in Nat : \A i \in 1 .. Len(s) : s[i] <= b
    <2>1. Len(s) \notin K
      BY <1>4
    <2>2. QED
      BY <2>1, <1>3
  <1>6. QED
    BY <1>1, <1>5

LEMMA MaxIsGreatest ==
    ASSUME NEW S \in SUBSET Nat, IsFiniteSet(S), S # {}
    PROVE  Max(S) \in S /\ \A y \in S : y <= Max(S)
  <1>1. PICK b \in Nat : \A x \in S : x <= b
    BY FiniteBounded
  <1> DEFINE T == {b - x : x \in S}
  <1>2. T \in SUBSET Nat /\ T # {}
    <2>1. \A x \in S : b - x \in Nat
      BY <1>1
    <2>2. QED
      BY <2>1
  <1>3. PICK y \in T : \A z \in T : y <= z
    <2> HIDE DEF T
    <2>1. QED
      BY <1>2, LeastExists
  <1>4. PICK x \in S : y = b - x
    OBVIOUS
  <1>5. \A z \in S : z <= x
    <2> SUFFICES ASSUME NEW z \in S PROVE z <= x
      OBVIOUS
    <2>1. b - x <= b - z
      BY <1>3, <1>4
    <2>2. QED
      BY <2>1
  <1>6. QED
    BY <1>5 DEF Max

(* Items in the table, by ordinal.                                           *)
Stored(f) == DOMAIN f \subseteq Nat /\ IsFiniteSet(DOMAIN f)

LEMMA InsertedStored ==
    ASSUME SeahorseAssumption, NEW f, Stored(f), NEW m \in Nat, NEW s
    PROVE  Stored(Inserted(f, m, s)) /\ Range(Inserted(f, m, s)) \subseteq Range(f) \cup {s}
  <1> DEFINE Place(o) == Cardinality({p \in DOMAIN f : p <= o}) * OrdinalStep
             end == (Cardinality(DOMAIN f) + 1) * OrdinalStep
             places == {Place(o) : o \in DOMAIN f}
             g == [place \in places \cup {end} |->
                      IF place = end THEN s ELSE f[CHOOSE o \in DOMAIN f : Place(o) = place]]
  <1>1. OrdinalStep \in Nat /\ DOMAIN f \subseteq Nat /\ IsFiniteSet(DOMAIN f)
    BY DEF SeahorseAssumption, Stored
  <1>2. Cardinality(DOMAIN f) \in Nat /\ end \in Nat
    BY <1>1, FS_CardinalityType
  <1>3. \A o \in DOMAIN f : Place(o) \in Nat
    <2> TAKE o \in DOMAIN f
    <2>1. IsFiniteSet({p \in DOMAIN f : p <= o})
      BY <1>1, FS_Subset
    <2>2. Cardinality({p \in DOMAIN f : p <= o}) \in Nat
      BY <2>1, FS_CardinalityType
    <2>3. QED
      BY <2>2, <1>1
  <1>4. CASE m \in DOMAIN f
    <2>1. Inserted(f, m, s) = g
      BY <1>4 DEF Inserted, Resequenced
    <2>2. IsFiniteSet(places \cup {end})
      <3> DEFINE h == [o \in DOMAIN f |-> Place(o)]
      <3>1. h \in Surjection(DOMAIN f, places)
        BY DEF Surjection
      <3> HIDE DEF h, places
      <3>2. IsFiniteSet(places)
        BY <1>1, <3>1, FS_Surjection
      <3>3. QED
        BY <3>2, FS_AddElement
    <2>3. \A p \in places : f[CHOOSE o \in DOMAIN f : Place(o) = p] \in Range(f)
      <3> TAKE p \in places
      <3> HIDE DEF Place
      <3>1. (CHOOSE o \in DOMAIN f : Place(o) = p) \in DOMAIN f
        OBVIOUS
      <3>2. QED
        BY <3>1 DEF Range
    <2>4. places \subseteq Nat
      BY <1>3
    <2> HIDE DEF places, Place, end
    <2>5. \A p \in places \cup {end} : g[p] \in Range(f) \cup {s}
      BY <2>3
    <2>6. DOMAIN g = places \cup {end}
      OBVIOUS
    <2> HIDE DEF g
    <2>7. QED
      BY <2>1, <2>2, <2>4, <2>5, <2>6, <1>2 DEF Stored, Range
  <1>5. CASE m \notin DOMAIN f
    <2> DEFINE h == [o \in DOMAIN f \cup {m} |-> IF o = m THEN s ELSE f[o]]
    <2>1. Inserted(f, m, s) = h
      BY <1>5 DEF Inserted
    <2>2. IsFiniteSet(DOMAIN f \cup {m})
      BY <1>1, FS_AddElement
    <2>3. Range(h) \subseteq Range(f) \cup {s}
      BY DEF Range
    <2>4. QED
      BY <2>1, <2>2, <2>3, <1>1 DEF Stored
  <1>6. QED
    BY <1>4, <1>5

LEMMA RestrictedStored ==
    ASSUME NEW f, Stored(f), NEW S, S \subseteq DOMAIN f
    PROVE  Stored(Restrict(f, S)) /\ Range(Restrict(f, S)) \subseteq Range(f)
  <1>1. IsFiniteSet(S)
    BY FS_Subset DEF Stored
  <1>2. QED
    BY <1>1 DEF Stored, Restrict, Range

LEMMA RangeReplacedStored ==
    ASSUME SeahorseAssumption, Stored(items), NEW span \in Nat \X Nat, NEW s
    PROVE  /\ Stored(RangeReplaced(span, s))
           /\ Range(RangeReplaced(span, s)) \subseteq Range(items) \cup {s}
  <1> DEFINE r == Restrict(items, Ordinals \ Between(span[1], span[2]))
             m == (span[1] + span[2]) \div 2
  <1>1. Stored(r) /\ Range(r) \subseteq Range(items)
    BY RestrictedStored DEF Ordinals
  <1>2. m \in Nat
    OBVIOUS
  <1> HIDE DEF r, m
  <1>3. Stored(Inserted(r, m, s)) /\ Range(Inserted(r, m, s)) \subseteq Range(r) \cup {s}
    BY <1>1, <1>2, InsertedStored
  <1>4. QED
    BY <1>1, <1>3 DEF RangeReplaced, r, m

LEMMA EachReplacedStored ==
    ASSUME SeahorseAssumption, Stored(items), NEW ids, NEW s
    PROVE  /\ Stored(EachReplaced(ids, s))
           /\ Range(EachReplaced(ids, s)) \subseteq Range(items) \cup {s}
  <1> DEFINE found == {o \in Ordinals : IsSummary(o) /\ items[o].id \in ids}
             r == Restrict(items, Ordinals \ found)
             m == (Min(found) + Max(found)) \div 2
  <1>1. CASE found = {}
    <2>1. EachReplaced(ids, s) = items
      BY <1>1 DEF EachReplaced
    <2>2. QED
      BY <2>1
  <1>2. CASE found # {}
    <2>1. EachReplaced(ids, s) = Inserted(r, m, s)
      BY <1>2 DEF EachReplaced
    <2>2. found \in SUBSET Nat /\ IsFiniteSet(found)
      BY FS_Subset DEF Stored, Ordinals
    <2>3. Min(found) \in Nat /\ Max(found) \in Nat
      <3> HIDE DEF found
      <3>1. QED
        BY <2>2, <1>2, MinIsLeast, MaxIsGreatest
    <2>4. m \in Nat
      <3> HIDE DEF found
      <3>1. QED
        BY <2>3
    <2>5. Stored(r) /\ Range(r) \subseteq Range(items)
      BY RestrictedStored DEF Ordinals
    <2> HIDE DEF r, m, found
    <2>6. Stored(Inserted(r, m, s)) /\ Range(Inserted(r, m, s)) \subseteq Range(r) \cup {s}
      BY <2>4, <2>5, InsertedStored
    <2>7. QED
      BY <2>1, <2>5, <2>6
  <1>3. QED
    BY <1>1, <1>2

-----------------------------------------------------------------------------
(* Seahorse: the inductive invariant.                                        *)

WorkerRecord == [at: {"boot", "idle", "on", "rows", "leaf", "launch", "under", "condense",
                      "clearing"},
                 next: {"idle", "on", "launch", "under"}, mark: Nat,
                 todo: Seq(MessageIds), added: Seq(MessageIds), span: Nat \X Nat,
                 over: SUBSET MessageIds]
CondenserRecord == [at: {"off", "pick", "llm", "swap"}, id: 0 .. MaxSummaries,
                    picks: SUBSET Item, span: Nat \X Nat, each: BOOLEAN, moved: BOOLEAN]

Summarises(i) == i.depth # MessageDepth
OverOf(picks) == UNION {i.over : i \in picks}
Picked == UNION {condenser[c].picks : c \in Condensers}
Known == Range(items) \cup Picked
Growing(s) == \A i, j \in 1 .. Len(s) : i < j => s[i] < s[j]

SeaTypes ==
    /\ log \in Seq(MessageIds) /\ rows \in Seq(MessageIds) /\ Stored(items)
    /\ worker \in WorkerRecord /\ condenser \in [Condensers -> CondenserRecord]
    /\ said \in 0 .. MaxSaid /\ made \in 0 .. MaxSummaries
    /\ missed \subseteq MessageIds /\ again \subseteq MessageIds /\ wiped \subseteq 1 .. said
    /\ overlap \in BOOLEAN /\ clash \in BOOLEAN

(* What is stored or was picked stands for messages there have been; a message *)
(* has no ID, and a summary is less deep than its ID.                         *)
Fits(i) ==
    /\ i \in Item /\ i.over \subseteq 1 .. said
    /\ (i.depth = MessageDepth <=> i.id = 0)
    /\ i.id <= made /\ (Summarises(i) => i.depth < i.id)
    /\ Summarises(i) \/ \E m \in i.over : i.over = {m}

(* What the worker and the condensers hold, by where they are.               *)
SeaPlaces ==
    /\ worker.at # "rows" => worker.todo = <<>> /\ worker.added = <<>>
    /\ worker.over \subseteq 1 .. said
    /\ condenser["worker"].at # "off" => worker.at = "condense"
    /\ worker.at = "boot" => \A c \in Condensers : condenser[c].at = "off"
    /\ \A c \in Condensers :
          /\ condenser[c].at \in {"off", "pick"} => condenser[c].picks = {}
          /\ condenser[c].at \in {"llm", "swap"} =>
                condenser[c].picks # {} /\ IsFiniteSet(condenser[c].picks)
          /\ condenser[c].at # "swap" => ~condenser[c].each
          /\ \A i \in condenser[c].picks : Summarises(i)

(* Messages are said, written and added in order.                            *)
SeaRows ==
    /\ Growing(log) /\ Range(log) \subseteq 1 .. said /\ worker.mark <= Len(log)
    /\ Growing(rows \o worker.todo) /\ Range(rows \o worker.todo) \subseteq 1 .. said
    /\ Growing(worker.added \o worker.todo) /\ Range(worker.added) \subseteq Range(rows)
    /\ \A i \in Range(items) : Summarises(i) \/ i.over \subseteq Range(rows)

(* A summary is known by its ID, also one that is stored but not in place.   *)
SeaNames ==
    /\ \A i \in Known : Fits(i)
    /\ \A i, j \in Known : i.id = j.id /\ Summarises(i) => i = j
    /\ \A c \in Condensers : condenser[c].at = "swap" =>
          /\ condenser[c].id \in 1 .. made
          /\ \A i \in Known : i.id # condenser[c].id
          /\ \A i \in condenser[c].picks : i.id < condenser[c].id
          /\ \A d \in Condensers \ {c} :
                condenser[d].at = "swap" => condenser[d].id # condenser[c].id

Deepest == \A o, p \in Ordinals : o < p => items[o].depth >= items[p].depth

Distinct == \A o, p \in Ordinals : items[o] = items[p] /\ IsSummary(o) => o = p

(* Picks are of one depth, and no item of that depth before them is left out. *)
Foremost(picks) ==
    /\ \A i, j \in picks : i.depth = j.depth
    /\ \A o, p \in Ordinals :
          o < p /\ items[o].depth = items[p].depth /\ items[p] \in picks => items[o] \in picks

(* While a condenser waits, others may replace its picks, and keep what they  *)
(* stand for; what it is about to replace is what it has picked.              *)
Waiting(c) ==
    LET me == condenser[c]
    IN  /\ me.at \in {"llm", "swap"} => Foremost(me.picks)
        /\ me.at = "llm" /\ (\E o \in Ordinals : items[o] \in me.picks) =>
              OverOf(me.picks) \subseteq Covered
        /\ me.at = "swap" /\ ~me.moved =>
              /\ OverOf(me.picks) \subseteq Covered
              /\ {me.span[1], me.span[2]} \subseteq Ordinals /\ me.span[1] <= me.span[2]
              /\ \A o \in Ordinals :
                    me.span[1] <= o /\ o <= me.span[2] <=> items[o] \in me.picks

(* The messages a leaf summary is made of stay where they are, in front.     *)
Leafing ==
    worker.at = "leaf" =>
        /\ {worker.span[1], worker.span[2]} \subseteq Ordinals
        /\ worker.span[1] <= worker.span[2]
        /\ \A o \in Ordinals : o <= worker.span[2] => (IsSummary(o) <=> o < worker.span[1])
        /\ worker.over = UNION {items[o].over : o \in Between(worker.span[1], worker.span[2])}

Emptied ==
    worker.at = "clearing" =>
        /\ Ordinals = {} /\ rows = <<>>
        /\ \A c \in Condensers : condenser[c].at = "swap" => condenser[c].moved

Complete ==
    /\ worker.at = "boot" => rows = <<>> \/ Range(log) \subseteq Covered \cup missed
    /\ worker.at \notin {"boot", "clearing"} =>
          Range(log) \subseteq Covered \cup missed \cup Pending

Clean ==
    ~clash => /\ Deepest /\ Distinct /\ Leafing /\ Emptied /\ Complete /\ Covered \cap wiped = {}
              /\ \A c \in Condensers : ~condenser[c].each /\ Waiting(c)

Wiped == (Range(log) \cup Pending) \cap wiped = {}

Apart == \A o, p \in Ordinals : o # p => items[o].over \cap items[p].over \subseteq again
Sorted ==
    \A o, p \in Ordinals : o < p => \A m \in items[o].over, n \in items[p].over : m < n

(* Where condensers do not overlap, picks stay or go together.               *)
Single ==
    ~clash /\ ~overlap =>
        /\ \A c, d \in Condensers :
              c # d /\ condenser[c].at \in {"llm", "swap"} => condenser[d].at \in {"off", "pick"}
        /\ Apart /\ Pending \cap Covered \subseteq again
        /\ \A c \in Condensers :
              /\ condenser[c].at = "llm" => \/ condenser[c].picks \subseteq Range(items)
                                            \/ condenser[c].picks \cap Range(items) = {}
              /\ condenser[c].at = "swap" /\ ~condenser[c].moved =>
                    condenser[c].picks \subseteq Range(items)

InOrder ==
    ~clash /\ ~overlap /\ again = {} =>
        /\ Sorted /\ \A m \in Covered, n \in Pending : m < n

SeaInv ==
    /\ SeaTypes /\ SeaPlaces /\ SeaRows /\ SeaNames
    /\ Clean /\ Wiped /\ Single /\ InOrder

-----------------------------------------------------------------------------
(* Seahorse: what the operators on items do.                                 *)

LEMMA RangeOf == ASSUME NEW f, NEW x PROVE x \in Range(f) <=> \E o \in DOMAIN f : f[o] = x
  BY DEF Range

(* appendContextItems leaves the items there are and adds one per message.   *)
LEMMA AddedItems ==
    ASSUME SeahorseAssumption, Stored(items), NEW new \in Seq(MessageIds)
    PROVE  \E end \in Nat :
              /\ \A o \in Ordinals : o <= end
              /\ DOMAIN WithMessages(new) =
                    Ordinals \cup {end + k * OrdinalStep : k \in 1 .. Len(new)}
              /\ \A o \in Ordinals : WithMessages(new)[o] = items[o]
              /\ \A k \in 1 .. Len(new) : /\ end + k * OrdinalStep \in Nat
                                          /\ end + k * OrdinalStep > end
                                          /\ WithMessages(new)[end + k * OrdinalStep] =
                                                MessageItem(new[k])
  <1> DEFINE end == IF Ordinals = {} THEN 0 ELSE Max(Ordinals)
             places == Ordinals \cup {end + k * OrdinalStep : k \in 1 .. Len(new)}
             w == [o \in places |->
                    IF o <= end THEN items[o] ELSE MessageItem(new[(o - end) \div OrdinalStep])]
  <1>1. Ordinals \in SUBSET Nat /\ IsFiniteSet(Ordinals)
    BY DEF Stored, Ordinals
  <1>2. end \in Nat /\ \A o \in Ordinals : o <= end
    BY <1>1, MaxIsGreatest
  <1>3. WithMessages(new) = w
    BY DEF WithMessages
  <1>4. OrdinalStep \in Nat \ {0} /\ Len(new) \in Nat
    BY DEF SeahorseAssumption
  <1> HIDE DEF end
  <1>5. ASSUME NEW k \in 1 .. Len(new)
        PROVE  /\ end + k * OrdinalStep \in Nat /\ end + k * OrdinalStep > end
               /\ w[end + k * OrdinalStep] = MessageItem(new[k])
    <2>1. k \in Nat /\ k >= 1 /\ k * OrdinalStep \in Nat /\ k * OrdinalStep >= 1
      BY <1>4
    <2>2. end + k * OrdinalStep \in Nat /\ end + k * OrdinalStep > end
      BY <2>1, <1>2
    <2>3. (end + k * OrdinalStep - end) \div OrdinalStep = k
      BY <2>1, <1>2, <1>4
    <2>4. end + k * OrdinalStep \in places
      OBVIOUS
    <2> HIDE DEF places
    <2>5. ~(end + k * OrdinalStep <= end)
      BY <2>2, <1>2
    <2>6. \A o \in places :
             ~(o <= end) => w[o] = MessageItem(new[(o - end) \div OrdinalStep])
      OBVIOUS
    <2> HIDE DEF w
    <2>7. PICK o \in places : o = end + k * OrdinalStep
      BY <2>4
    <2>8. (o - end) \div OrdinalStep = k
      BY <1>2, <1>4, <2>1, <2>3, <2>7
    <2>9. ~(o <= end)
      BY <2>5, <2>7
    <2>10. w[o] = MessageItem(new[(o - end) \div OrdinalStep])
      BY <2>6, <2>9
    <2>11. QED
      BY <2>2, <2>7, <2>8, <2>10
  <1>6. \A o \in Ordinals : w[o] = items[o]
    BY <1>2
  <1>7. DOMAIN w = places
    OBVIOUS
  <1> HIDE DEF w
  <1>8. QED
    BY <1>2, <1>3, <1>5, <1>6, <1>7

LEMMA AddedStored ==
    ASSUME SeahorseAssumption, Stored(items), NEW new \in Seq(MessageIds)
    PROVE  /\ Stored(WithMessages(new))
           /\ Range(WithMessages(new)) \subseteq
                 Range(items) \cup {MessageItem(m) : m \in Range(new)}
  <1>1. PICK end \in Nat :
              /\ \A o \in Ordinals : o <= end
              /\ DOMAIN WithMessages(new) =
                    Ordinals \cup {end + k * OrdinalStep : k \in 1 .. Len(new)}
              /\ \A o \in Ordinals : WithMessages(new)[o] = items[o]
              /\ \A k \in 1 .. Len(new) : /\ end + k * OrdinalStep \in Nat
                                          /\ end + k * OrdinalStep > end
                                          /\ WithMessages(new)[end + k * OrdinalStep] =
                                                MessageItem(new[k])
    BY AddedItems
  <1> DEFINE places == {end + k * OrdinalStep : k \in 1 .. Len(new)}
  <1>2. IsFiniteSet(places)
    <2> DEFINE h == [k \in 1 .. Len(new) |-> end + k * OrdinalStep]
    <2>1. h \in Surjection(1 .. Len(new), places)
      BY DEF Surjection
    <2>2. Len(new) \in Nat /\ 1 \in Int /\ Len(new) \in Int
      OBVIOUS
    <2>3. IsFiniteSet(1 .. Len(new))
      BY <2>2, FS_Interval
    <2> HIDE DEF h, places
    <2>4. IsFiniteSet(places) /\ Cardinality(places) <= Cardinality(1 .. Len(new))
      BY <2>1, <2>3, FS_Surjection
    <2>5. QED
      BY <2>4
  <1>3. Ordinals \in SUBSET Nat /\ IsFiniteSet(Ordinals)
    BY DEF Stored, Ordinals
  <1>4. places \subseteq Nat
    BY <1>1
  <1>5. IsFiniteSet(Ordinals \cup places)
    <2> HIDE DEF places
    <2>1. QED
      BY <1>2, <1>3, FS_Union
  <1>6. Stored(WithMessages(new))
    BY <1>1, <1>3, <1>4, <1>5 DEF Stored
  <1>7. \A o \in DOMAIN WithMessages(new) : WithMessages(new)[o] \in
                 Range(items) \cup {MessageItem(m) : m \in Range(new)}
    <2> TAKE o \in DOMAIN WithMessages(new)
    <2>1. CASE o \in Ordinals
      BY <1>1, <2>1 DEF Range, Ordinals
    <2>2. CASE o \notin Ordinals
      <3>1. PICK k \in 1 .. Len(new) : o = end + k * OrdinalStep
        BY <1>1, <2>2
      <3>2. WithMessages(new)[o] = MessageItem(new[k])
        BY <1>1, <3>1
      <3>3. new[k] \in Range(new)
        BY <3>1 DEF Range
      <3>4. QED
        BY <3>2, <3>3
    <2>3. QED
      BY <2>1, <2>2
  <1>8. QED
    BY <1>6, <1>7 DEF Range

(* The items with one in the place of all those from a to b.                 *)
Replaced(a, b, m, s) ==
    [o \in {p \in Ordinals : p < a \/ b < p} \cup {m} |-> IF o = m THEN s ELSE items[o]]

(* Where the span's ends are in order, its midpoint is free.                 *)
LEMMA Replacing ==
    ASSUME Stored(items), NEW span \in Nat \X Nat, NEW s, span[1] <= span[2]
    PROVE  \E mid \in Nat :
              /\ span[1] <= mid /\ mid <= span[2]
              /\ RangeReplaced(span, s) = Replaced(span[1], span[2], mid, s)
  <1> DEFINE mid == (span[1] + span[2]) \div 2
             r == Restrict(items, Ordinals \ Between(span[1], span[2]))
             others == {p \in Ordinals : p < span[1] \/ span[2] < p}
  <1>1. span[1] \in Nat /\ span[2] \in Nat
    OBVIOUS
  <1>2. mid \in Nat /\ span[1] <= mid /\ mid <= span[2]
    BY <1>1
  <1>3. Ordinals \subseteq Nat
    BY DEF Stored, Ordinals
  <1>4. Ordinals \ Between(span[1], span[2]) = others
    <2>1. \A p \in Ordinals : ~(span[1] <= p /\ p <= span[2]) <=> p < span[1] \/ span[2] < p
      BY <1>1, <1>3
    <2>2. QED
      BY <2>1 DEF Between
  <1>5. r = [o \in others |-> items[o]]
    BY <1>4 DEF Restrict
  <1>6. RangeReplaced(span, s) = Inserted(r, mid, s)
    BY DEF RangeReplaced
  <1> HIDE DEF mid
  <1>7. mid \notin others
    BY <1>1, <1>2
  <1> HIDE DEF r, others
  <1>8. DOMAIN r = others /\ \A o \in others : r[o] = items[o]
    BY <1>5
  <1>9. Inserted(r, mid, s) = [o \in others \cup {mid} |-> IF o = mid THEN s ELSE items[o]]
    <2>1. Inserted(r, mid, s) = [o \in others \cup {mid} |-> IF o = mid THEN s ELSE r[o]]
      BY <1>7, <1>8 DEF Inserted
    <2>2. QED
      BY <2>1, <1>8
  <1>10. QED
    BY <1>2, <1>6, <1>9 DEF others, Replaced

LEMMA SparedItems ==
    ASSUME Stored(items), NEW gone
    PROVE  /\ Stored(ItemsWithout(gone)) /\ Range(ItemsWithout(gone)) \subseteq Range(items)
           /\ DOMAIN ItemsWithout(gone) =
                 {o \in Ordinals : IsSummary(o) \/ items[o].over \cap gone = {}}
           /\ \A o \in DOMAIN ItemsWithout(gone) : ItemsWithout(gone)[o] = items[o]
  <1> DEFINE S == {o \in Ordinals : IsSummary(o) \/ items[o].over \cap gone = {}}
  <1>1. S \subseteq DOMAIN items /\ ItemsWithout(gone) = Restrict(items, S)
    BY DEF ItemsWithout, Ordinals
  <1> HIDE DEF S
  <1>2. Stored(Restrict(items, S)) /\ Range(Restrict(items, S)) \subseteq Range(items)
    BY <1>1, RestrictedStored
  <1>3. DOMAIN Restrict(items, S) = S /\ \A o \in S : Restrict(items, S)[o] = items[o]
    BY DEF Restrict
  <1>4. QED
    BY <1>1, <1>2, <1>3 DEF S

(* What is chosen to be condensed: summaries that are in the context.        *)
LEMMA ChosenItems ==
    ASSUME Stored(items), NEW picks \in CondensedPicks
    PROVE  /\ picks # {} /\ IsFiniteSet(picks)
           /\ \A i \in picks : \E o \in Ordinals : i = items[o] /\ IsSummary(o)
  <1>1. Ordinals \in SUBSET Nat /\ IsFiniteSet(Ordinals)
    BY DEF Stored, Ordinals
  <1>2. ASSUME NEW S \in SUBSET Ordinals, picks = {items[o] : o \in S}
        PROVE  IsFiniteSet(picks)
    <2> DEFINE h == [o \in S |-> items[o]]
    <2>1. IsFiniteSet(S)
      BY <1>1, FS_Subset
    <2>2. h \in Surjection(S, picks)
      BY <1>2 DEF Surjection
    <2> HIDE DEF h
    <2>3. IsFiniteSet(picks) /\ Cardinality(picks) <= Cardinality(S)
      BY <2>1, <2>2, FS_Surjection
    <2>4. QED
      BY <2>3
  <1>3. CASE picks \in FrontChunks
    <2>1. PICK e \in Evictable :
             /\ picks = {items[p] : p \in Between(Min(Ordinals), e)}
             /\ \A p \in Between(Min(Ordinals), e) : IsSummary(p)
      BY <1>3 DEF FrontChunks
    <2>2. e \in Ordinals
      BY DEF Evictable
    <2>3. Min(Ordinals) \in Ordinals /\ Min(Ordinals) <= e
      BY <1>1, <2>2, MinIsLeast
    <2>4. e \in Between(Min(Ordinals), e) /\ Between(Min(Ordinals), e) \subseteq Ordinals
      BY <1>1, <2>2, <2>3 DEF Between
    <2>5. IsFiniteSet(picks)
      BY <1>2, <2>1, <2>4
    <2>6. QED
      BY <2>1, <2>4, <2>5
  <1>4. CASE picks = ShallowestGroup /\ picks # {}
    <2> DEFINE OfDepth(d) == {o \in Evictable : IsSummary(o) /\ items[o].depth = d}
               enough == {d \in 0 .. MaxSummaries : Cardinality(OfDepth(d)) >= CondensedMinFanout}
               group == OfDepth(Min(enough))
               S == {p \in group : Cardinality({q \in group : q <= p}) <= CondensedMinFanout}
    <2>1. picks = {items[o] : o \in S}
      BY <1>4 DEF ShallowestGroup
    <2>2. \A o \in S : o \in Ordinals /\ IsSummary(o)
      BY DEF Evictable
    <2> HIDE DEF S
    <2>3. S \in SUBSET Ordinals
      BY <2>2
    <2>4. IsFiniteSet(picks)
      BY <1>2, <2>1, <2>3
    <2>5. QED
      BY <1>4, <2>1, <2>2, <2>4
  <1>5. QED
    BY <1>3, <1>4 DEF CondensedPicks

(* The span of those still there begins with the first of them.              *)
LEMMA RereadSpan ==
    ASSUME Stored(items), NEW present, present \subseteq Ordinals, present # {},
           NEW joined, joined = {o \in present : Between(Min(present), o) \subseteq present}
    PROVE  /\ Min(present) \in present /\ \A o \in present : Min(present) <= o
           /\ Max(joined) \in joined /\ \A o \in joined : o <= Max(joined)
  <1>1. Ordinals \in SUBSET Nat /\ IsFiniteSet(Ordinals)
    BY DEF Stored, Ordinals
  <1>2. present \in SUBSET Nat /\ IsFiniteSet(present)
    BY <1>1, FS_Subset
  <1>3. Min(present) \in present /\ \A o \in present : Min(present) <= o
    BY <1>2, MinIsLeast
  <1>4. Min(present) \in joined
    <2>1. PICK m \in present : m = Min(present)
      BY <1>3
    <2>2. m \in Nat
      BY <1>2, <2>1
    <2>3. \A o \in Between(m, m) : o = m
      BY <1>1, <2>2 DEF Between
    <2>4. QED
      BY <2>1, <2>3
  <1>5. joined \in SUBSET Nat /\ IsFiniteSet(joined)
    BY <1>2, FS_Subset
  <1>6. Max(joined) \in joined /\ \A o \in joined : o <= Max(joined)
    BY <1>4, <1>5, MaxIsGreatest
  <1>7. QED
    BY <1>3, <1>6

LEMMA ChunkSpan ==
    ASSUME Stored(items), NEW region \in SUBSET Ordinals, NEW span \in LeafChunks(region)
    PROVE  /\ span \in Nat \X Nat /\ span[1] \in region /\ span[2] \in region
           /\ \A o \in Between(span[1], span[2]) : ~IsSummary(o)
           /\ Cardinality(Between(span[1], span[2])) >= LeafMinFanout
           /\ \A a, b \in region :
                 /\ \A o \in Between(a, b) : ~IsSummary(o)
                 /\ Cardinality(Between(a, b)) >= LeafMinFanout
                 => span[1] <= a
  <1> DEFINE long == {run \in region \X region :
                        /\ \A o \in Between(run[1], run[2]) : ~IsSummary(o)
                        /\ Cardinality(Between(run[1], run[2])) >= LeafMinFanout}
  <1>1. span \in long /\ \A other \in long : span[1] <= other[1]
    BY DEF LeafChunks
  <1>2. span \in region \X region /\ region \subseteq Nat
    BY <1>1 DEF Stored, Ordinals
  <1>3. ASSUME NEW a \in region, NEW b \in region,
               \A o \in Between(a, b) : ~IsSummary(o),
               Cardinality(Between(a, b)) >= LeafMinFanout
        PROVE  span[1] <= a
    <2>1. PICK run \in region \X region : run = <<a, b>>
      OBVIOUS
    <2>2. run[1] = a /\ run[2] = b
      BY <2>1
    <2>3. run \in long
      BY <1>3, <2>2
    <2> HIDE DEF long
    <2>4. QED
      BY <1>1, <2>2, <2>3
  <1>4. QED
    BY <1>1, <1>2, <1>3

(* What Bootstrap keeps of the rows is what the history begins with.         *)
LEMMA MatchingRows ==
    ASSUME log \in Seq(MessageIds), rows \in Seq(MessageIds)
    PROVE  /\ Matching \in 0 .. Len(log) /\ Matching <= Len(rows)
           /\ \A i \in 1 .. Matching : rows[i] = log[i]
           /\ SubSeq(rows, 1, Matching) \in Seq(MessageIds)
           /\ Len(SubSeq(rows, 1, Matching)) = Matching
           /\ \A i \in 1 .. Matching : SubSeq(rows, 1, Matching)[i] = log[i]
           /\ SubSeq(log, Matching + 1, Len(log)) \in Seq(MessageIds)
           /\ Len(SubSeq(log, Matching + 1, Len(log))) = Len(log) - Matching
           /\ \A i \in 1 .. Len(log) - Matching :
                 SubSeq(log, Matching + 1, Len(log))[i] = log[Matching + i]
           /\ Range(SubSeq(rows, Matching + 1, Len(rows))) =
                 {rows[i] : i \in Matching + 1 .. Len(rows)}
  <1> DEFINE S == {k \in 0 .. Min({Len(log), Len(rows)}) :
                      SubSeq(rows, 1, k) = SubSeq(log, 1, k)}
  <1>1. Len(log) \in Nat /\ Len(rows) \in Nat
    OBVIOUS
  <1>2. Min({Len(log), Len(rows)}) \in Nat /\ Min({Len(log), Len(rows)}) <= Len(log)
        /\ Min({Len(log), Len(rows)}) <= Len(rows)
    BY <1>1, MinIsLeast
  <1>3. 0 \in S
    <2>1. SubSeq(rows, 1, 0) = SubSeq(log, 1, 0)
      OBVIOUS
    <2>2. QED
      BY <1>2, <2>1
  <1>4. S \in SUBSET Nat /\ IsFiniteSet(S)
    <2>1. S \subseteq 0 .. Min({Len(log), Len(rows)})
      OBVIOUS
    <2>2. IsFiniteSet(0 .. Min({Len(log), Len(rows)}))
      BY <1>2, FS_Interval
    <2> HIDE DEF S
    <2>3. IsFiniteSet(S)
      BY <2>1, <2>2, FS_Subset
    <2>4. QED
      BY <1>2, <2>1, <2>3
  <1>5. Max(S) \in S
    <2> HIDE DEF S
    <2>1. QED
      BY <1>3, <1>4, MaxIsGreatest
  <1>6. PICK k \in S : k = Matching
    BY <1>5 DEF Matching
  <1>7. k \in Nat /\ k <= Len(log) /\ k <= Len(rows) /\ SubSeq(rows, 1, k) = SubSeq(log, 1, k)
    BY <1>2, <1>6
  <1> HIDE DEF S
  <1>8. /\ SubSeq(rows, 1, k) \in Seq(MessageIds) /\ Len(SubSeq(rows, 1, k)) = k
        /\ \A i \in 1 .. k : SubSeq(rows, 1, k)[i] = rows[i]
    BY <1>1, <1>7, SubSeqProperties
  <1>9. \A i \in 1 .. k : SubSeq(log, 1, k)[i] = log[i]
    BY <1>1, <1>7, SubSeqProperties
  <1>10. /\ SubSeq(log, k + 1, Len(log)) \in Seq(MessageIds)
         /\ Len(SubSeq(log, k + 1, Len(log))) = Len(log) - k
         /\ \A i \in 1 .. Len(log) - k : SubSeq(log, k + 1, Len(log))[i] = log[k + i]
    BY <1>1, <1>7
  <1>11. Range(SubSeq(rows, k + 1, Len(rows))) = {rows[i] : i \in k + 1 .. Len(rows)}
    <2>1. /\ SubSeq(rows, k + 1, Len(rows)) \in Seq(MessageIds)
          /\ Len(SubSeq(rows, k + 1, Len(rows))) = Len(rows) - k
          /\ \A i \in 1 .. Len(rows) - k : SubSeq(rows, k + 1, Len(rows))[i] = rows[k + i]
      BY <1>1, <1>7
    <2> DEFINE t == SubSeq(rows, k + 1, Len(rows))
    <2> HIDE DEF t
    <2>2. \A i \in k + 1 .. Len(rows) : i - k \in 1 .. Len(rows) - k /\ k + (i - k) = i
      BY <1>1, <1>7
    <2>3. \A i \in 1 .. Len(rows) - k : k + i \in k + 1 .. Len(rows)
      BY <1>1, <1>7
    <2>4. DOMAIN t = 1 .. Len(rows) - k
      BY <2>1 DEF t
    <2>5. ASSUME NEW m \in Range(t) PROVE m \in {rows[i] : i \in k + 1 .. Len(rows)}
      <3>1. PICK i \in 1 .. Len(rows) - k : m = t[i]
        BY <2>4 DEF Range
      <3>2. t[i] = rows[k + i]
        BY <2>1 DEF t
      <3>3. QED
        BY <2>3, <3>1, <3>2
    <2>6. ASSUME NEW m \in {rows[i] : i \in k + 1 .. Len(rows)} PROVE m \in Range(t)
      <3>1. PICK i \in k + 1 .. Len(rows) : m = rows[i]
        OBVIOUS
      <3>2. i - k \in 1 .. Len(rows) - k /\ k + (i - k) = i
        BY <2>2
      <3>3. t[i - k] = rows[i]
        BY <2>1, <3>2 DEF t
      <3>4. QED
        BY <2>4, <3>1, <3>2, <3>3 DEF Range
    <2>7. QED
      BY <2>5, <2>6 DEF t
  <1>12. k \in 0 .. Len(log) /\ \A i \in 1 .. k : rows[i] = log[i]
    BY <1>1, <1>7, <1>8, <1>9
  <1>13. \A i \in 1 .. k : SubSeq(rows, 1, k)[i] = log[i]
    BY <1>7, <1>9
  <1>14. QED
    BY <1>6, <1>7, <1>8, <1>10, <1>11, <1>12, <1>13


(* Every variable keeps its range.                                           *)
LEMMA SeaTypesStep ==
    ASSUME SeahorseAssumption, SeaInv, [SeahorseNext]_seaVars
    PROVE  SeaTypes'
  <1> USE DEF SeaTypes, TurnSame, CondenserSame, CountersSame, GhostsSame
  <1>0. SeaTypes
    BY DEF SeaInv
  <1>1. MaxSaid \in Nat /\ MaxSummaries \in Nat
    BY DEF SeahorseAssumption
  <1>2. AtRest \in WorkerRecord /\ Off \in CondenserRecord
    <2>1. <<0, 0>> \in Nat \X Nat /\ <<>> \in Seq(MessageIds)
      OBVIOUS
    <2>2. QED
      BY <2>1, <1>1 DEF AtRest, WorkerRecord, Off, CondenserRecord
  <1>3. ASSUME NEW region \in SUBSET Ordinals, NEW next \in {"launch", "under"},
               LeafBegins(region, next)
        PROVE  SeaTypes'
    <2>1. PICK span \in LeafChunks(region) :
             worker' = [worker EXCEPT !.at = "leaf", !.next = next, !.span = span,
                          !.over = UNION {items[o].over : o \in Between(span[1], span[2])}]
      BY <1>3 DEF LeafBegins
    <2>2. span \in Nat \X Nat
      BY <1>0, ChunkSpan
    <2>3. UNION {items[o].over : o \in Between(span[1], span[2])} \in SUBSET MessageIds
      <3>1. \A o \in Ordinals : items[o].over \subseteq MessageIds
        BY DEF SeaInv, SeaNames, Known, Range, Ordinals, Fits, Item
      <3>2. QED
        BY <3>1 DEF Between
    <2>4. worker' \in WorkerRecord
      BY <1>0, <2>1, <2>2, <2>3 DEF WorkerRecord
    <2>5. QED
      BY <1>0, <1>3, <2>4 DEF LeafBegins, Stored
  <1>4. CASE TurnBegins
    <2>1. worker' \in WorkerRecord
      <3>1. Len(log) \in Nat
        BY <1>0
      <3>2. QED
        BY <3>1, <1>2, <1>4 DEF TurnBegins, WorkerRecord
    <2>2. QED
      BY <1>0, <1>4, <2>1 DEF TurnBegins, Stored
  <1>5. CASE TurnEnds
    BY <1>0, <1>2, <1>5 DEF TurnEnds, Stored
  <1>6. CASE TurnAborts
    <2>1. worker.mark \in Nat /\ worker.mark <= Len(log)
      BY <1>0 DEF WorkerRecord, SeaInv, SeaRows
    <2>2. SubSeq(log, 1, worker.mark) \in Seq(MessageIds)
      BY <1>0, <2>1
    <2>3. QED
      BY <1>0, <1>2, <1>6, <2>2 DEF TurnAborts, Stored
  <1>7. CASE Say
    <2>1. said + 1 \in MessageIds /\ said + 1 \in 0 .. MaxSaid /\ 1 .. said \subseteq 1 .. said + 1
      BY <1>0, <1>1, <1>7 DEF Say, MessageIds
    <2>2. worker' \in WorkerRecord
      <3>1. <<said + 1>> \in Seq(MessageIds)
        BY <2>1
      <3>2. QED
        BY <1>0, <1>7, <3>1 DEF Say, WorkerRecord
    <2>3. log' \in Seq(MessageIds)
      BY <1>0, <1>7, <2>1 DEF Say
    <2>4. QED
      BY <1>0, <1>7, <2>1, <2>2, <2>3 DEF Say, Stored
  <1>8. CASE AddRow
    <2>1. /\ worker.todo \in Seq(MessageIds) /\ worker.todo # <<>>
          /\ worker.added \in Seq(MessageIds)
      BY <1>0, <1>8 DEF AddRow, WorkerRecord
    <2>2. Head(worker.todo) \in MessageIds /\ Tail(worker.todo) \in Seq(MessageIds)
      BY <2>1
    <2>3. rows' \in Seq(MessageIds) /\ Append(worker.added, Head(worker.todo)) \in Seq(MessageIds)
      BY <1>0, <1>8, <2>1, <2>2 DEF AddRow
    <2>4. worker' \in WorkerRecord
      BY <1>0, <1>8, <2>2, <2>3 DEF AddRow, WorkerRecord
    <2>5. QED
      BY <1>0, <1>8, <2>3, <2>4 DEF AddRow, Stored
  <1>9. Ingested \in WorkerRecord /\ Pending \subseteq MessageIds
    <2>1. worker.next \in {"idle", "on", "launch", "under"} /\ <<>> \in Seq(MessageIds)
      BY <1>0 DEF WorkerRecord
    <2>2. worker.todo \in Seq(MessageIds) /\ worker.added \in Seq(MessageIds)
      BY <1>0 DEF WorkerRecord
    <2>3. Range(worker.todo) \subseteq MessageIds /\ Range(worker.added) \subseteq MessageIds
      BY <2>2 DEF Range
    <2>4. QED
      BY <1>0, <2>1, <2>3 DEF Ingested, WorkerRecord, Pending
  <1>10. CASE AppendItems
    <2>1. worker.added \in Seq(MessageIds)
      BY <1>0 DEF WorkerRecord
    <2>2. Stored(WithMessages(worker.added))
      BY <1>0, <2>1, AddedStored
    <2>3. Stored(items')
      BY <1>10, <2>2 DEF AppendItems, Stored
    <2>4. QED
      BY <1>0, <1>9, <1>10, <2>3 DEF AppendItems
  <1>11. CASE IngestFails
    BY <1>0, <1>9, <1>11 DEF IngestFails, Stored
  <1>12. CASE CompactBegins
    <2>1. Evictable \in SUBSET Ordinals
      BY DEF Evictable
    <2>2. QED
      BY <1>3, <1>12, <2>1 DEF CompactBegins
  <1>13. CASE CompactSkipsLeaf
    <2>1. worker' \in WorkerRecord
      BY <1>0, <1>13 DEF CompactSkipsLeaf, WorkerRecord
    <2>2. QED
      BY <1>0, <1>13, <2>1 DEF CompactSkipsLeaf, Stored
  <1>14. CASE LeafEnds
    <2>1. worker.span \in Nat \X Nat /\ worker.next \in {"idle", "on", "launch", "under"}
      BY <1>0 DEF WorkerRecord
    <2>2. Stored(items')
      <3>1. Stored(RangeReplaced(worker.span, [id |-> made + 1, depth |-> 0, over |-> worker.over]))
        BY <1>0, <2>1, RangeReplacedStored
      <3>2. QED
        BY <3>1, <1>14 DEF LeafEnds, Stored
    <2>3. worker' \in WorkerRecord
      <3>1. <<0, 0>> \in Nat \X Nat
        OBVIOUS
      <3>2. QED
        BY <1>0, <1>14, <2>1, <3>1 DEF LeafEnds, WorkerRecord
    <2>4. made' \in 0 .. MaxSummaries
      BY <1>0, <1>1, <1>14 DEF LeafEnds
    <2>5. QED
      BY <1>0, <1>14, <2>2, <2>3, <2>4 DEF LeafEnds
  <1>15. CASE LeafFails
    <2>1. worker' \in WorkerRecord
      <3>1. <<0, 0>> \in Nat \X Nat
        OBVIOUS
      <3>2. QED
        BY <1>0, <1>15, <3>1 DEF LeafFails, WorkerRecord
    <2>2. QED
      BY <1>0, <1>15, <2>1 DEF LeafFails, Stored
  <1>16. CASE Launch
    <2>1. worker' \in WorkerRecord
      BY <1>0, <1>16 DEF Launch, WorkerRecord
    <2>2. condenser' \in [Condensers -> CondenserRecord]
      <3>1. [condenser["goroutine"] EXCEPT !.at = "pick"] \in CondenserRecord
        BY <1>0 DEF CondenserRecord, Condensers
      <3>2. \/ condenser' = [condenser EXCEPT !["goroutine"] =
                               [condenser["goroutine"] EXCEPT !.at = "pick"]]
            \/ condenser' = condenser
        BY <1>16 DEF Launch
      <3>3. QED
        BY <1>0, <3>1, <3>2
    <2>3. QED
      BY <1>0, <1>16, <2>1, <2>2 DEF Launch, Stored
  <1>17. CASE Overflow
    <2>1. worker' \in WorkerRecord
      BY <1>0, <1>17 DEF Overflow, WorkerRecord
    <2>2. QED
      BY <1>0, <1>17, <2>1 DEF Overflow, Stored
  <1>18. CASE UnderLeaf
    BY <1>3, <1>18 DEF UnderLeaf
  <1>19. CASE UnderCondenses
    <2>1. worker' \in WorkerRecord
      BY <1>0, <1>19 DEF UnderCondenses, WorkerRecord
    <2>2. condenser' \in [Condensers -> CondenserRecord]
      <3>1. [condenser["worker"] EXCEPT !.at = "pick"] \in CondenserRecord
        BY <1>0 DEF CondenserRecord, Condensers
      <3>2. condenser' = [condenser EXCEPT !["worker"] = [condenser["worker"] EXCEPT !.at = "pick"]]
        BY <1>19 DEF UnderCondenses
      <3>3. QED
        BY <1>0, <3>1, <3>2
    <2>3. QED
      BY <1>0, <1>19, <2>1, <2>2 DEF UnderCondenses, Stored
  <1>20. CASE UnderReturns
    <2>1. worker' \in WorkerRecord
      BY <1>0, <1>20 DEF UnderReturns, WorkerRecord
    <2>2. QED
      BY <1>0, <1>20, <2>1 DEF UnderReturns, Stored
  <1>21. ASSUME NEW state \in [Condensers -> CondenserRecord]
         PROVE  Moved(state) \in [Condensers -> CondenserRecord]
    <2>1. ASSUME NEW d \in Condensers
          PROVE  [state[d] EXCEPT !.moved = (state[d].at = "swap")] \in CondenserRecord
      <3>1. state[d] \in CondenserRecord /\ (state[d].at = "swap") \in BOOLEAN
        OBVIOUS
      <3>2. QED
        BY <3>1 DEF CondenserRecord
    <2>2. QED
      BY <2>1 DEF Moved
  <1>22. CASE ClearTables
    <2>1. worker' \in WorkerRecord
      BY <1>0, <1>22 DEF ClearTables, WorkerRecord
    <2>2. condenser' \in [Condensers -> CondenserRecord]
      BY <1>0, <1>21, <1>22 DEF ClearTables
    <2>3. rows' \in Seq(MessageIds)
      BY <1>22 DEF ClearTables
    <2>4. Stored(items')
      <3>1. items' = <<>> /\ DOMAIN <<>> = {} /\ IsFiniteSet({})
        BY <1>22, FS_EmptySet DEF ClearTables
      <3>2. QED
        BY <3>1 DEF Stored
    <2>5. QED
      BY <1>0, <1>22, <2>1, <2>2, <2>3, <2>4 DEF ClearTables
  <1>23. CASE ClearFile
    <2>1. log' \in Seq(MessageIds)
      BY <1>23 DEF ClearFile
    <2>2. QED
      BY <1>0, <1>2, <1>23, <2>1 DEF ClearFile, Stored
  <1>24. ASSUME NEW c \in Condensers, NEW at \in {"on", "under"}, BackTo(c, at)
         PROVE  worker' \in WorkerRecord
    <2>1. worker' = [worker EXCEPT !.at = at] \/ worker' = worker
      BY <1>24 DEF BackTo
    <2>2. QED
      BY <1>0, <2>1 DEF WorkerRecord
  <1>25. ASSUME NEW c \in Condensers, Pick(c) PROVE SeaTypes'
    <2>1. PICK picks \in CondensedPicks :
             condenser' = [condenser EXCEPT ![c] = [Off EXCEPT !.at = "llm", !.picks = picks]]
      BY <1>25 DEF Pick
    <2>2. picks \subseteq Item
      <3>1. \A i \in picks : \E o \in Ordinals : i = items[o] /\ IsSummary(o)
        BY <1>0, ChosenItems
      <3>2. \A o \in Ordinals : items[o] \in Item
        BY DEF SeaInv, SeaNames, Known, Range, Ordinals, Fits
      <3>3. QED
        BY <3>1, <3>2
    <2>3. [Off EXCEPT !.at = "llm", !.picks = picks] \in CondenserRecord
      BY <1>2, <2>2 DEF CondenserRecord
    <2>4. condenser' \in [Condensers -> CondenserRecord]
      BY <1>0, <2>1, <2>3
    <2>5. overlap' \in BOOLEAN
      BY <1>25 DEF Pick
    <2>6. QED
      BY <1>0, <1>25, <2>4, <2>5 DEF Pick, Stored
  <1>26. ASSUME NEW c \in Condensers, GiveUp(c) PROVE SeaTypes'
    <2>1. condenser' \in [Condensers -> CondenserRecord]
      BY <1>0, <1>2, <1>26 DEF GiveUp
    <2>2. worker' \in WorkerRecord
      BY <1>24, <1>26 DEF GiveUp
    <2>3. QED
      BY <1>0, <1>26, <2>1, <2>2 DEF GiveUp, Stored
  <1>27. ASSUME NEW c \in Condensers, Reread(c) PROVE SeaTypes'
    <2> DEFINE ids == IdsIn(condenser[c].picks)
               present == {o \in Ordinals : IsSummary(o) /\ items[o].id \in ids}
               joined == {o \in present : Between(Min(present), o) \subseteq present}
    <2>1. made' \in 0 .. MaxSummaries /\ made + 1 \in 0 .. MaxSummaries
      BY <1>0, <1>1, <1>27 DEF Reread
    <2>2. CASE present = {}
      <3>1. condenser' \in [Condensers -> CondenserRecord]
        BY <1>0, <1>2, <1>27, <2>2 DEF Reread
      <3>2. worker' \in WorkerRecord
        BY <1>24, <1>27, <2>2 DEF Reread
      <3>3. QED
        BY <1>0, <1>27, <2>1, <3>1, <3>2 DEF Reread, Stored
    <2>3. CASE present # {}
      <3>1. Min(present) \in present /\ Max(joined) \in joined
        <4>1. present \subseteq Ordinals
          OBVIOUS
        <4> HIDE DEF present
        <4>2. QED
          BY <1>0, <2>3, <4>1, RereadSpan
      <3>2. <<Min(present), Max(joined)>> \in Nat \X Nat
        <4>1. present \subseteq Nat /\ joined \subseteq present
          BY <1>0 DEF Stored, Ordinals
        <4> HIDE DEF present, joined
        <4>2. QED
          BY <3>1, <4>1
      <3>3. condenser' = [condenser EXCEPT ![c] =
                       [@ EXCEPT !.at = "swap", !.id = made + 1,
                                 !.span = <<Min(present), Max(joined)>>,
                                 !.each = (present # joined)]]
            /\ worker' = worker
        BY <1>27, <2>3 DEF Reread
      <3>4. (present # joined) \in BOOLEAN
        OBVIOUS
      <3> HIDE DEF present, joined
      <3>5. condenser' \in [Condensers -> CondenserRecord]
        <4> DEFINE r == [condenser[c] EXCEPT !.at = "swap", !.id = made + 1,
                                 !.span = <<Min(present), Max(joined)>>,
                                 !.each = (present # joined)]
        <4>1. condenser[c] \in CondenserRecord
          BY <1>0
        <4>2. r \in CondenserRecord
          BY <4>1, <2>1, <3>2, <3>4 DEF CondenserRecord
        <4>3. condenser' = [condenser EXCEPT ![c] = r]
          BY <3>3
        <4> HIDE DEF r
        <4>4. QED
          BY <1>0, <4>2, <4>3
      <3>6. QED
        BY <1>0, <1>27, <2>1, <3>3, <3>5 DEF Reread, Stored
    <2>4. QED
      BY <2>2, <2>3
  <1>28. ASSUME NEW c \in Condensers, Swap(c) PROVE SeaTypes'
    <2>1. PICK s : items' = IF condenser[c].each THEN EachReplaced(IdsIn(condenser[c].picks), s)
                            ELSE RangeReplaced(condenser[c].span, s)
      BY <1>28 DEF Swap
    <2>2. condenser[c].span \in Nat \X Nat
      BY <1>0 DEF CondenserRecord
    <2>3. Stored(RangeReplaced(condenser[c].span, s))
          /\ Stored(EachReplaced(IdsIn(condenser[c].picks), s))
      BY <1>0, <2>2, RangeReplacedStored, EachReplacedStored
    <2>4. Stored(items')
      BY <2>1, <2>3 DEF Stored
    <2>5. IF c = "worker" THEN Off \in CondenserRecord ELSE [Off EXCEPT !.at = "pick"] \in CondenserRecord
      BY <1>2 DEF CondenserRecord
    <2>6. [condenser EXCEPT ![c] = IF c = "worker" THEN Off ELSE [Off EXCEPT !.at = "pick"]]
             \in [Condensers -> CondenserRecord]
      BY <1>0, <2>5
    <2>7. condenser' \in [Condensers -> CondenserRecord]
      BY <1>21, <1>28, <2>6 DEF Swap
    <2>8. worker' \in WorkerRecord
      BY <1>24, <1>28 DEF Swap
    <2>9. clash' \in BOOLEAN
      BY <1>28 DEF Swap
    <2>10. UNCHANGED <<log, rows, said, made, missed, again, wiped, overlap>>
      BY <1>28 DEF Swap
    <2>11. QED
      BY <1>0, <2>4, <2>7, <2>8, <2>9, <2>10
  <1>29. CASE SeahorseCrash
    <2>1. worker' \in WorkerRecord
      BY <1>2, <1>29 DEF SeahorseCrash, WorkerRecord
    <2>2. condenser' \in [Condensers -> CondenserRecord]
      BY <1>2, <1>29 DEF SeahorseCrash
    <2>3. QED
      BY <1>0, <1>9, <1>29, <2>1, <2>2 DEF SeahorseCrash, Stored
  <1>30. CASE Bootstrap
    <2> DEFINE delta == SubSeq(log, Matching + 1, Len(log))
               spared == ItemsWithout(Range(SubSeq(rows, Matching + 1, Len(rows))))
    <2>1. SubSeq(rows, 1, Matching) \in Seq(MessageIds) /\ delta \in Seq(MessageIds)
      BY <1>0, MatchingRows
    <2>2. Stored(spared)
      BY <1>0, SparedItems
    <2>3. CASE delta = <<>>
      BY <1>0, <1>2, <1>30, <2>3 DEF Bootstrap, Stored
    <2>4. CASE delta # <<>>
      <3>1. /\ rows' = SubSeq(rows, 1, Matching) /\ items' = spared
            /\ worker' = [AtRest EXCEPT !.at = "rows", !.todo = delta]
            /\ missed' = missed \ Range(delta)
            /\ again' = again \cup
                  {m \in Range(delta) : \E o \in DOMAIN spared : \E n \in spared[o].over : m <= n}
            /\ UNCHANGED <<wiped, condenser, overlap, clash, said, made, log>>
        BY <1>30, <2>4 DEF Bootstrap
      <3> HIDE DEF delta, spared
      <3>2. Range(delta) \subseteq MessageIds
        BY <2>1 DEF Range
      <3>3. worker' \in WorkerRecord
        BY <1>2, <2>1, <3>1 DEF WorkerRecord
      <3>4. Stored(items')
        BY <2>2, <3>1 DEF Stored
      <3>5. again' \subseteq MessageIds /\ missed' \subseteq MessageIds
        BY <1>0, <3>1, <3>2
      <3>6. QED
        BY <1>0, <2>1, <3>1, <3>3, <3>4, <3>5
    <2>5. QED
      BY <2>3, <2>4
  <1>31. CASE UNCHANGED seaVars
    BY <1>0, <1>31 DEF seaVars, Stored
  <1>32. QED
    BY <1>4, <1>5, <1>6, <1>7, <1>8, <1>10, <1>11, <1>12, <1>13, <1>14, <1>15, <1>16, <1>17,
       <1>18, <1>19, <1>20, <1>22, <1>23, <1>25, <1>26, <1>27, <1>28, <1>29, <1>30, <1>31
    DEF SeahorseNext, WorkerStep, Condense


(* Where the worker and the condensers stand, and what they hold there.      *)
Alike(a, b) == a.at = b.at /\ a.picks = b.picks /\ a.each = b.each

LEMMA SeaPlacesStep ==
    ASSUME SeahorseAssumption, SeaInv, [SeahorseNext]_seaVars
    PROVE  SeaPlaces'
  <1> USE DEF TurnSame, CondenserSame, CountersSame, GhostsSame
  <1>0. SeaTypes /\ SeaPlaces
    BY DEF SeaInv
  <1>1. worker \in WorkerRecord /\ condenser \in [Condensers -> CondenserRecord] /\ said \in Nat
    BY <1>0 DEF SeaTypes
  <1>2. Condensers = {"worker", "goroutine"}
    BY DEF Condensers
  <1>3. ASSUME NEW w \in WorkerRecord, worker' = w, condenser' = condenser,
               worker.at # "condense", w.at # "boot", w.over \subseteq 1 .. said',
               w.at # "rows" => w.todo = <<>> /\ w.added = <<>>
        PROVE  SeaPlaces'
    <2>1. condenser["worker"].at = "off"
      BY <1>0, <1>3 DEF SeaPlaces
    <2>2. QED
      BY <1>0, <1>3, <2>1 DEF SeaPlaces
  <1>4. worker.over \subseteq 1 .. said
    BY <1>0 DEF SeaPlaces
  <1>5. worker' \in WorkerRecord /\ said' \in Nat
    BY SeaTypesStep DEF SeaTypes
  <1>6. CASE \/ TurnBegins \/ TurnEnds \/ TurnAborts \/ CompactSkipsLeaf
             \/ LeafFails \/ Overflow \/ UnderReturns \/ ClearFile
    <2>1. /\ condenser' = condenser /\ worker.at \notin {"condense", "rows"} /\ said' = said
          /\ worker'.at \notin {"boot", "rows"} /\ worker'.over \in {{}, worker.over}
          /\ worker'.todo \in {<<>>, worker.todo} /\ worker'.added \in {<<>>, worker.added}
      <3>1. CASE TurnBegins
        BY <3>1 DEF TurnBegins, AtRest
      <3>2. CASE TurnEnds
        BY <3>2 DEF TurnEnds, AtRest
      <3>3. CASE TurnAborts
        BY <3>3 DEF TurnAborts, AtRest
      <3>4. CASE CompactSkipsLeaf
        BY <1>1, <3>4 DEF CompactSkipsLeaf, WorkerRecord
      <3>5. CASE LeafFails
        BY <1>1, <3>5 DEF LeafFails, WorkerRecord
      <3>6. CASE Overflow
        BY <1>1, <3>6 DEF Overflow, WorkerRecord
      <3>7. CASE UnderReturns
        BY <1>1, <3>7 DEF UnderReturns, WorkerRecord
      <3>8. CASE ClearFile
        BY <3>8 DEF ClearFile, AtRest
      <3>9. QED
        BY <1>6, <3>1, <3>2, <3>3, <3>4, <3>5, <3>6, <3>7, <3>8
    <2>2. worker'.todo = <<>> /\ worker'.added = <<>>
      BY <1>0, <2>1 DEF SeaPlaces
    <2>3. worker'.over \subseteq 1 .. said'
      BY <1>4, <2>1
    <2>4. QED
      BY <1>3, <1>5, <2>1, <2>2, <2>3
  <1>7. ASSUME NEW region \in SUBSET Ordinals, NEW next \in {"launch", "under"},
               LeafBegins(region, next), worker.at \in {"on", "under"}
        PROVE  SeaPlaces'
    <2>1. PICK span \in LeafChunks(region) :
             worker' = [worker EXCEPT !.at = "leaf", !.next = next, !.span = span,
                          !.over = UNION {items[o].over : o \in Between(span[1], span[2])}]
      BY <1>7 DEF LeafBegins
    <2>2. UNION {items[o].over : o \in Between(span[1], span[2])} \subseteq 1 .. said
      <3>1. \A o \in Ordinals : items[o].over \subseteq 1 .. said
        BY DEF SeaInv, SeaNames, Known, Range, Ordinals, Fits
      <3>2. QED
        BY <3>1 DEF Between
    <2>3. /\ worker'.at = "leaf" /\ worker'.todo = worker.todo /\ worker'.added = worker.added
          /\ worker'.over = UNION {items[o].over : o \in Between(span[1], span[2])}
          /\ condenser' = condenser /\ said' = said
      BY <1>1, <1>7, <2>1 DEF LeafBegins, WorkerRecord
    <2>4. worker.todo = <<>> /\ worker.added = <<>>
      BY <1>0, <1>7 DEF SeaPlaces
    <2>5. QED
      BY <1>3, <1>5, <1>7, <2>2, <2>3, <2>4
  <1>8. CASE CompactBegins \/ UnderLeaf
    <2>1. Evictable \in SUBSET Ordinals /\ Ordinals \in SUBSET Ordinals
      BY DEF Evictable
    <2>2. QED
      BY <1>7, <1>8, <2>1 DEF CompactBegins, UnderLeaf
  <1>9. CASE Say
    <2>1. /\ condenser' = condenser /\ worker.at = "on" /\ said' = said + 1
          /\ worker'.at = "rows" /\ worker'.over = worker.over
      BY <1>1, <1>9 DEF Say, WorkerRecord
    <2>2. worker'.over \subseteq 1 .. said'
      <3>1. 1 .. said \subseteq 1 .. said + 1
        BY <1>1
      <3>2. QED
        BY <1>4, <2>1, <3>1
    <2>3. QED
      BY <1>3, <1>5, <2>1, <2>2
  <1>10. CASE AddRow
    <2>1. /\ condenser' = condenser /\ worker.at = "rows" /\ said' = said
          /\ worker'.at = "rows" /\ worker'.over = worker.over
      BY <1>1, <1>10 DEF AddRow, WorkerRecord
    <2>2. QED
      BY <1>3, <1>4, <1>5, <2>1
  <1>11. CASE AppendItems \/ IngestFails
    <2>1. /\ condenser' = condenser /\ worker.at = "rows" /\ said' = said
          /\ worker' = Ingested
      BY <1>11 DEF AppendItems, IngestFails
    <2>2. /\ worker'.at \in {"idle", "on", "launch", "under"} /\ worker'.over = worker.over
          /\ worker'.todo = <<>> /\ worker'.added = <<>>
      BY <1>1, <2>1 DEF Ingested, WorkerRecord
    <2>3. QED
      BY <1>3, <1>4, <1>5, <2>1, <2>2
  <1>12. CASE LeafEnds
    <2>1. /\ condenser' = condenser /\ worker.at = "leaf" /\ said' = said
          /\ worker'.at \in {"idle", "on", "launch", "under"} /\ worker'.over = {}
          /\ worker'.todo = worker.todo /\ worker'.added = worker.added
      BY <1>1, <1>12 DEF LeafEnds, WorkerRecord
    <2>2. QED
      BY <1>0, <1>3, <1>5, <2>1 DEF SeaPlaces
  <1>13. ASSUME NEW d \in Condensers, NEW r \in CondenserRecord,
                Alike(condenser'[d], r),
                \A c \in Condensers \ {d} : Alike(condenser'[c], condenser[c]),
                said' = said, worker' = [worker EXCEPT !.at = worker'.at],
                worker'.at # "boot", worker.at = "rows" <=> worker'.at = "rows",
                condenser'["worker"].at # "off" => worker'.at = "condense",
                /\ r.at \in {"off", "pick"} => r.picks = {}
                /\ r.at \in {"llm", "swap"} => r.picks # {} /\ IsFiniteSet(r.picks)
                /\ r.at # "swap" => ~r.each
                /\ \A i \in r.picks : Summarises(i)
         PROVE  SeaPlaces'
    <2>1. /\ worker'.over = worker.over /\ worker'.todo = worker.todo
          /\ worker'.added = worker.added
      BY <1>1, <1>13 DEF WorkerRecord
    <2>2. \A c \in Condensers :
          /\ condenser'[c].at \in {"off", "pick"} => condenser'[c].picks = {}
          /\ condenser'[c].at \in {"llm", "swap"} =>
                condenser'[c].picks # {} /\ IsFiniteSet(condenser'[c].picks)
          /\ condenser'[c].at # "swap" => ~condenser'[c].each
          /\ \A i \in condenser'[c].picks : Summarises(i)
      <3> TAKE c \in Condensers
      <3>1. CASE c = d
        <4>1. /\ condenser'[c].at = r.at /\ condenser'[c].picks = r.picks
              /\ condenser'[c].each = r.each
          BY <1>13, <3>1 DEF Alike
        <4>2. QED
          BY <1>13, <4>1
      <3>2. CASE c # d
        <4>1. /\ condenser'[c].at = condenser[c].at /\ condenser'[c].picks = condenser[c].picks
              /\ condenser'[c].each = condenser[c].each
          BY <1>13, <3>2 DEF Alike
        <4>2. QED
          BY <1>0, <4>1 DEF SeaPlaces
      <3>3. QED
        BY <3>1, <3>2
    <2>3. worker'.over \subseteq 1 .. said'
      BY <1>4, <1>13, <2>1
    <2>4. worker'.at # "rows" => worker'.todo = <<>> /\ worker'.added = <<>>
      BY <1>0, <1>13, <2>1 DEF SeaPlaces
    <2>5. QED
      BY <1>13, <2>2, <2>3, <2>4 DEF SeaPlaces
  <1>14. \A c \in Condensers : condenser[c].at # "off" => worker.at # "boot"
    BY <1>0 DEF SeaPlaces
  <1>15. condenser["worker"].at # "off" => worker.at = "condense"
    BY <1>0 DEF SeaPlaces
  <1>16. worker = [worker EXCEPT !.at = worker.at]
    BY <1>1 DEF WorkerRecord
  <1>17. ASSUME NEW c \in Condensers, NEW at, BackTo(c, at), at \in {"on", "under"},
                condenser[c].at # "off"
         PROVE  /\ worker' = [worker EXCEPT !.at = worker'.at]
                /\ worker'.at # "boot" /\ (worker.at = "rows" <=> worker'.at = "rows")
                /\ c = "goroutine" => worker' = worker
    <2>1. CASE c = "worker"
      <3>1. worker' = [worker EXCEPT !.at = at] /\ worker.at = "condense"
        BY <1>15, <1>17, <2>1 DEF BackTo
      <3>2. worker'.at = at
        BY <1>1, <3>1 DEF WorkerRecord
      <3>3. QED
        BY <1>17, <2>1, <3>1, <3>2
    <2>2. CASE c = "goroutine"
      BY <1>14, <1>16, <1>17, <2>2 DEF BackTo
    <2>3. QED
      BY <1>2, <2>1, <2>2
  <1>18. ASSUME NEW c \in Condensers, NEW r \in CondenserRecord, NEW n,
                n = [condenser EXCEPT ![c] = r]
         PROVE  n[c] = r /\ Alike(n[c], r)
                /\ \A d \in Condensers \ {c} : n[d] = condenser[d] /\ Alike(n[d], condenser[d])
    BY <1>1, <1>18 DEF Alike
  <1>19. Off \in CondenserRecord /\ Off.at = "off" /\ Off.picks = {} /\ Off.each = FALSE
    <2>1. <<0, 0>> \in Nat \X Nat /\ MaxSummaries \in Nat
      BY DEF SeahorseAssumption
    <2>2. QED
      BY <2>1 DEF Off, CondenserRecord
  <1>20. [Off EXCEPT !.at = "pick"] \in CondenserRecord
         /\ [Off EXCEPT !.at = "pick"].at = "pick" /\ [Off EXCEPT !.at = "pick"].picks = {}
         /\ [Off EXCEPT !.at = "pick"].each = FALSE
    BY <1>19 DEF CondenserRecord
  <1>21. ASSUME NEW c \in Condensers, condenser[c].at = "off"
         PROVE  LET r == [condenser[c] EXCEPT !.at = "pick"]
                IN  /\ r \in CondenserRecord /\ r.at = "pick" /\ r.picks = {} /\ r.each = FALSE
    <2>1. condenser[c] \in CondenserRecord
      BY <1>1
    <2>2. condenser[c].picks = {} /\ ~condenser[c].each
      BY <1>0, <1>21 DEF SeaPlaces
    <2>3. QED
      BY <2>1, <2>2 DEF CondenserRecord
  <1>22. CASE Launch
    <2>1. /\ worker.at = "launch" /\ worker' = [worker EXCEPT !.at = "on"] /\ said' = said
      BY <1>22 DEF Launch
    <2>2. /\ worker'.at = "on" /\ worker'.over = worker.over /\ worker'.todo = worker.todo
          /\ worker'.added = worker.added
      BY <1>1, <2>1 DEF WorkerRecord
    <2>3. CASE condenser' = condenser
      BY <1>0, <1>3, <1>5, <2>1, <2>2, <2>3 DEF SeaPlaces
    <2>4. CASE condenser' # condenser
      <3> DEFINE r == [condenser["goroutine"] EXCEPT !.at = "pick"]
      <3>1. condenser["goroutine"].at = "off" /\ condenser' = [condenser EXCEPT !["goroutine"] = r]
        BY <1>22, <2>4 DEF Launch
      <3>2. "goroutine" \in Condensers
        BY <1>2
      <3>3. r \in CondenserRecord /\ r.at = "pick" /\ r.picks = {} /\ r.each = FALSE
        BY <1>21, <3>1, <3>2
      <3> HIDE DEF r
      <3>4. /\ Alike(condenser'["goroutine"], r)
            /\ \A d \in Condensers \ {"goroutine"} :
                  condenser'[d] = condenser[d] /\ Alike(condenser'[d], condenser[d])
        BY <1>1, <3>1, <3>2, <3>3 DEF Alike
      <3>5. condenser'["worker"].at = "off"
        BY <1>2, <1>15, <2>1, <3>4
      <3>6. worker' = [worker EXCEPT !.at = worker'.at]
        BY <2>1, <2>2
      <3>7. ~r.each /\ r.picks = {} /\ r.at = "pick" /\ \A i \in r.picks : Summarises(i)
        BY <3>3
      <3>8. worker'.at # "boot" /\ worker.at # "rows" /\ worker'.at # "rows"
        BY <2>1, <2>2
      <3>9. QED
        BY <1>13, <2>1, <3>2, <3>3, <3>4, <3>5, <3>6, <3>7, <3>8
    <2>5. QED
      BY <2>3, <2>4
  <1>23. CASE UnderCondenses
    <2> DEFINE r == [condenser["worker"] EXCEPT !.at = "pick"]
    <2>1. /\ worker.at = "under" /\ worker' = [worker EXCEPT !.at = "condense"] /\ said' = said
          /\ condenser' = [condenser EXCEPT !["worker"] = r]
      BY <1>23 DEF UnderCondenses
    <2>2. worker'.at = "condense"
      BY <1>1, <2>1 DEF WorkerRecord
    <2>3. "worker" \in Condensers /\ condenser["worker"].at = "off"
      BY <1>2, <1>15, <2>1
    <2>4. r \in CondenserRecord /\ r.at = "pick" /\ r.picks = {} /\ r.each = FALSE
      <3>1. PICK me \in CondenserRecord :
               me = condenser["worker"] /\ me.picks = {} /\ me.each = FALSE
        BY <1>0, <1>1, <2>3 DEF SeaPlaces
      <3>2. r = [me EXCEPT !.at = "pick"]
        BY <3>1
      <3>3. QED
        BY <3>1, <3>2 DEF CondenserRecord
    <2> HIDE DEF r
    <2>5. /\ Alike(condenser'["worker"], r)
          /\ \A d \in Condensers \ {"worker"} : Alike(condenser'[d], condenser[d])
      <3>1. /\ condenser'["worker"] = r
            /\ \A d \in Condensers \ {"worker"} : condenser'[d] = condenser[d]
        BY <1>1, <2>1, <2>3
      <3>2. QED
        BY <3>1 DEF Alike
    <2>6. worker' = [worker EXCEPT !.at = worker'.at]
      BY <2>1, <2>2
    <2>7. ~r.each /\ r.picks = {} /\ r.at = "pick" /\ \A i \in r.picks : Summarises(i)
      BY <2>4
    <2>8. worker'.at # "boot" /\ worker.at # "rows" /\ worker'.at # "rows"
      BY <2>1, <2>2
    <2>9. QED
      BY <1>13, <2>1, <2>2, <2>3, <2>4, <2>5, <2>6, <2>7, <2>8
  <1>24. ASSUME NEW state \in [Condensers -> CondenserRecord], NEW d \in Condensers
         PROVE  Alike(Moved(state)[d], state[d])
    <2>1. Moved(state)[d] = [state[d] EXCEPT !.moved = (state[d].at = "swap")]
      BY DEF Moved
    <2>2. state[d] \in CondenserRecord
      OBVIOUS
    <2>3. QED
      BY <2>1, <2>2 DEF CondenserRecord, Alike
  <1>25. CASE ClearTables
    <2>1. /\ worker.at = "idle" /\ worker' = [worker EXCEPT !.at = "clearing"] /\ said' = said
          /\ condenser' = Moved(condenser)
      BY <1>25 DEF ClearTables
    <2>2. worker'.at = "clearing"
      BY <1>1, <2>1 DEF WorkerRecord
    <2>3. "worker" \in Condensers /\ condenser["worker"].at = "off"
      BY <1>2, <1>15, <2>1
    <2>4. \A d \in Condensers : Alike(condenser'[d], condenser[d])
      BY <1>1, <1>24, <2>1
    <2>5. condenser["worker"] \in CondenserRecord /\ condenser["worker"].picks = {}
          /\ ~condenser["worker"].each
          /\ \A i \in condenser["worker"].picks : Summarises(i)
      BY <1>0, <1>1, <2>3 DEF SeaPlaces
    <2>6. worker' = [worker EXCEPT !.at = worker'.at]
      BY <2>1, <2>2
    <2>7. worker'.at # "boot" /\ worker.at # "rows" /\ worker'.at # "rows"
      BY <2>1, <2>2
    <2>8. condenser'["worker"].at = "off"
      BY <2>3, <2>4 DEF Alike
    <2>9. QED
      BY <1>13, <2>1, <2>3, <2>4, <2>5, <2>6, <2>7, <2>8
  <1>26. ASSUME NEW c \in Condensers, Pick(c) PROVE SeaPlaces'
    <2>1. PICK picks \in CondensedPicks :
             condenser' = [condenser EXCEPT ![c] = [Off EXCEPT !.at = "llm", !.picks = picks]]
      BY <1>26 DEF Pick
    <2> DEFINE r == [Off EXCEPT !.at = "llm", !.picks = picks]
    <2>2. /\ picks # {} /\ IsFiniteSet(picks)
          /\ \A i \in picks : \E o \in Ordinals : i = items[o] /\ IsSummary(o)
      BY <1>0, ChosenItems DEF SeaTypes
    <2>3. \A i \in picks : Summarises(i)
      BY <2>2 DEF Summarises, IsSummary
    <2>4. r.at = "llm" /\ r.picks = picks /\ r.each = FALSE
      BY <1>19 DEF CondenserRecord
    <2>5. r \in CondenserRecord
      <3>1. \A o \in Ordinals : items[o] \in Item
        BY DEF SeaInv, SeaNames, Known, Range, Ordinals, Fits
      <3>2. picks \subseteq Item
        BY <2>2, <3>1
      <3>3. QED
        BY <1>19, <3>2 DEF CondenserRecord
    <2> HIDE DEF r
    <2>6. /\ Alike(condenser'[c], r) /\ condenser'[c] = r
          /\ \A d \in Condensers \ {c} :
                condenser'[d] = condenser[d] /\ Alike(condenser'[d], condenser[d])
      <3>1. condenser' = [condenser EXCEPT ![c] = r]
        BY <2>1 DEF r
      <3>2. QED
        BY <1>1, <2>5, <3>1 DEF Alike
    <2>7. worker' = worker /\ said' = said /\ condenser[c].at = "pick"
      BY <1>26 DEF Pick
    <2>8. condenser'["worker"].at # "off" => worker'.at = "condense"
      BY <1>2, <1>15, <2>6, <2>7
    <2>9. worker.at # "boot"
      BY <1>14, <2>7
    <2>10. QED
      BY <1>13, <1>16, <2>2, <2>3, <2>4, <2>5, <2>6, <2>7, <2>8, <2>9
  <1>27. ASSUME NEW c \in Condensers, condenser[c].at # "off", NEW at \in {"on", "under"},
                BackTo(c, at), said' = said, NEW r \in {Off, [Off EXCEPT !.at = "pick"]},
                c = "worker" => r = Off,
                Alike(condenser'[c], r),
                \A d \in Condensers \ {c} : Alike(condenser'[d], condenser[d])
         PROVE  SeaPlaces'
    <2>1. /\ worker' = [worker EXCEPT !.at = worker'.at]
          /\ worker'.at # "boot" /\ (worker.at = "rows" <=> worker'.at = "rows")
          /\ c = "goroutine" => worker' = worker
      BY <1>17, <1>27
    <2>2. r \in CondenserRecord /\ r.at \in {"off", "pick"} /\ r.picks = {} /\ r.each = FALSE
      BY <1>19, <1>20, <1>27
    <2>3. condenser'["worker"].at # "off" => worker'.at = "condense"
      <3>1. CASE c = "worker"
        BY <1>19, <1>27, <3>1 DEF Alike
      <3>2. CASE c = "goroutine"
        <4>1. condenser'["worker"].at = condenser["worker"].at
          BY <1>2, <1>27, <3>2 DEF Alike
        <4>2. QED
          BY <1>15, <2>1, <3>2, <4>1
      <3>3. QED
        BY <1>2, <3>1, <3>2
    <2>4. /\ r.at \in {"off", "pick"} => r.picks = {}
          /\ r.at \in {"llm", "swap"} => r.picks # {} /\ IsFiniteSet(r.picks)
          /\ r.at # "swap" => ~r.each
          /\ \A i \in r.picks : Summarises(i)
      BY <2>2
    <2>5. QED
      BY <1>13, <1>27, <2>1, <2>2, <2>3, <2>4
  <1>28. ASSUME NEW c \in Condensers, GiveUp(c) PROVE SeaPlaces'
    <2>1. /\ condenser[c].at # "off" /\ BackTo(c, "on") /\ said' = said
          /\ condenser' = [condenser EXCEPT ![c] = Off]
      BY <1>28 DEF GiveUp
    <2>2. /\ Alike(condenser'[c], Off)
          /\ \A d \in Condensers \ {c} : Alike(condenser'[d], condenser[d])
      BY <1>18, <1>19, <2>1
    <2>3. QED
      BY <1>27, <2>1, <2>2
  <1>29. ASSUME NEW c \in Condensers, Reread(c) PROVE SeaPlaces'
    <2> DEFINE ids == IdsIn(condenser[c].picks)
               present == {o \in Ordinals : IsSummary(o) /\ items[o].id \in ids}
               joined == {o \in present : Between(Min(present), o) \subseteq present}
    <2>1. condenser[c].at = "llm" /\ said' = said
      BY <1>29 DEF Reread
    <2>2. CASE present = {}
      <3>1. condenser' = [condenser EXCEPT ![c] = Off] /\ BackTo(c, "on")
        BY <1>29, <2>2 DEF Reread
      <3>2. /\ Alike(condenser'[c], Off)
            /\ \A d \in Condensers \ {c} : Alike(condenser'[d], condenser[d])
        BY <1>18, <1>19, <3>1
      <3>3. QED
        BY <1>27, <2>1, <3>1, <3>2
    <2>3. CASE present # {}
      <3> DEFINE r == [condenser[c] EXCEPT !.at = "swap", !.id = made + 1,
                                 !.span = <<Min(present), Max(joined)>>,
                                 !.each = (present # joined)]
      <3>1. condenser' = [condenser EXCEPT ![c] = r] /\ worker' = worker
        BY <1>29, <2>3 DEF Reread
      <3>2. condenser[c] \in CondenserRecord
        BY <1>1
      <3> HIDE DEF present, joined
      <3>3. r.at = "swap" /\ r.picks = condenser[c].picks
        BY <3>2 DEF CondenserRecord
      <3> HIDE DEF r
      <3>4. condenser'[c] = r /\ \A d \in Condensers \ {c} : condenser'[d] = condenser[d]
        BY <1>1, <3>1
      <3>5. r \in CondenserRecord
        <4>1. condenser' \in [Condensers -> CondenserRecord]
          BY SeaTypesStep DEF SeaTypes
        <4>2. QED
          BY <3>4, <4>1
      <3>6. r.picks # {} /\ IsFiniteSet(r.picks) /\ \A i \in r.picks : Summarises(i)
        BY <1>0, <2>1, <3>3 DEF SeaPlaces
      <3>7. condenser'["worker"].at # "off" => worker'.at = "condense"
        BY <1>2, <1>15, <2>1, <3>1, <3>4
      <3>8. worker.at # "boot"
        BY <1>14, <2>1
      <3>9. Alike(condenser'[c], r)
            /\ \A d \in Condensers \ {c} : Alike(condenser'[d], condenser[d])
        BY <3>4 DEF Alike
      <3>10. QED
        BY <1>13, <1>16, <2>1, <3>1, <3>3, <3>5, <3>6, <3>7, <3>8, <3>9
    <2>4. QED
      BY <2>2, <2>3
  <1>30. ASSUME NEW c \in Condensers, Swap(c) PROVE SeaPlaces'
    <2> DEFINE r == IF c = "worker" THEN Off ELSE [Off EXCEPT !.at = "pick"]
               state == [condenser EXCEPT ![c] = r]
    <2>1. /\ condenser[c].at = "swap" /\ said' = said /\ condenser' = Moved(state)
          /\ BackTo(c, "under")
      BY <1>30 DEF Swap
    <2>2. r \in CondenserRecord /\ r \in {Off, [Off EXCEPT !.at = "pick"]} /\ (c = "worker" => r = Off)
      BY <1>19, <1>20
    <2> HIDE DEF r
    <2>3. state \in [Condensers -> CondenserRecord]
          /\ state[c] = r /\ \A d \in Condensers \ {c} : state[d] = condenser[d]
      BY <1>1, <2>2
    <2> HIDE DEF state
    <2>4. \A d \in Condensers : Alike(condenser'[d], state[d])
      BY <1>24, <2>1, <2>3
    <2>5. /\ Alike(condenser'[c], r)
          /\ \A d \in Condensers \ {c} : Alike(condenser'[d], condenser[d])
      BY <2>3, <2>4
    <2>6. QED
      BY <1>27, <2>1, <2>2, <2>5
  <1>31. CASE SeahorseCrash
    <2>1. /\ worker' = [AtRest EXCEPT !.at = "boot"] /\ said' = said
          /\ condenser' = [c \in Condensers |-> Off]
      BY <1>31 DEF SeahorseCrash
    <2>2. /\ worker'.at = "boot" /\ worker'.todo = <<>> /\ worker'.added = <<>>
          /\ worker'.over = {}
      BY <2>1 DEF AtRest
    <2>3. \A c \in Condensers : condenser'[c] = Off
      BY <2>1
    <2>4. QED
      BY <1>2, <1>19, <2>1, <2>2, <2>3 DEF SeaPlaces
  <1>32. CASE Bootstrap
    <2>1. /\ worker.at = "boot" /\ condenser' = condenser /\ said' = said
          /\ \/ worker' = AtRest
             \/ worker' = [AtRest EXCEPT !.at = "rows",
                                         !.todo = SubSeq(log, Matching + 1, Len(log))]
      BY <1>32 DEF Bootstrap
    <2>2. /\ worker'.over = {} /\ worker'.at \in {"idle", "rows"}
          /\ worker'.at # "rows" => worker'.todo = <<>> /\ worker'.added = <<>>
      <3> DEFINE delta == SubSeq(log, Matching + 1, Len(log))
      <3>1. CASE worker' = AtRest
        BY <3>1 DEF AtRest
      <3>2. CASE worker' = [AtRest EXCEPT !.at = "rows", !.todo = delta]
        <4> HIDE DEF delta
        <4>1. QED
          BY <3>2 DEF AtRest
      <3>3. QED
        BY <2>1, <3>1, <3>2
    <2>3. worker.at # "condense" /\ worker'.at # "boot" /\ worker'.over \subseteq 1 .. said'
      BY <2>1, <2>2
    <2>4. QED
      BY <1>3, <1>5, <2>1, <2>2, <2>3
  <1>33. CASE UNCHANGED seaVars
    BY <1>0, <1>33 DEF seaVars, SeaPlaces
  <1>34. QED
    BY <1>6, <1>8, <1>9, <1>10, <1>11, <1>12, <1>22, <1>23, <1>25, <1>26, <1>28, <1>29, <1>30,
       <1>31, <1>32, <1>33
    DEF SeahorseNext, WorkerStep, Condense

(* Names stay apart when what is new has names of its own.                   *)
LEMMA NamesKept ==
    ASSUME SeahorseAssumption, SeaInv, NEW new, SeaTypes',
           said' >= said, made' >= made,
           Range(items') \subseteq Known \cup new,
           \A c \in Condensers :
              /\ condenser'[c].picks \subseteq Known \cup new
              /\ condenser'[c].at = "swap" => /\ condenser[c].at = "swap"
                                              /\ condenser'[c].id = condenser[c].id
                                              /\ condenser'[c].picks = condenser[c].picks
                                              /\ \A i \in new : i.id # condenser[c].id,
           \A i \in new : Fits(i)',
           \A i \in new, j \in Known \cup new :
              i.id = j.id /\ (Summarises(i) \/ Summarises(j)) => i = j
    PROVE  SeaNames'
  <1>1. /\ said \in Nat /\ made \in Nat /\ said' \in Nat /\ made' \in Nat
    BY DEF SeaInv, SeaTypes, SeahorseAssumption
  <1>2. Known' \subseteq Known \cup new
    <2>1. \A c \in Condensers : condenser'[c].picks \subseteq Known \cup new
      OBVIOUS
    <2>2. Known' = Range(items') \cup UNION {condenser'[c].picks : c \in Condensers}
      BY DEF Known, Picked
    <2>3. UNION {condenser'[c].picks : c \in Condensers} \subseteq Known \cup new
      BY <2>1
    <2>4. QED
      BY <2>2, <2>3
  <1>3. SeaNames
    BY DEF SeaInv
  <1>4. \A i \in Known' : Fits(i)'
    <2> SUFFICES ASSUME NEW i \in Known, Fits(i) PROVE Fits(i)'
      BY <1>2, <1>3 DEF SeaNames
    <2>1. /\ i \in Item /\ i.over \subseteq 1 .. said /\ (i.depth = MessageDepth <=> i.id = 0)
          /\ i.id <= made /\ (Summarises(i) => i.depth < i.id)
          /\ Summarises(i) \/ \E m \in i.over : i.over = {m}
      BY DEF Fits
    <2>2. 1 .. said \subseteq 1 .. said'
      BY <1>1
    <2>3. i.id \in Nat
      BY <2>1 DEF Item
    <2>4. i.id <= made'
      BY <1>1, <2>1, <2>3
    <2>5. QED
      BY <2>1, <2>2, <2>4 DEF Fits
  <1>5. ASSUME NEW i \in Known', NEW j \in Known', i.id = j.id, Summarises(i) PROVE i = j
    <2>1. CASE i \in new
      BY <1>2, <1>5, <2>1
    <2>2. CASE j \in new
      BY <1>2, <1>5, <2>2
    <2>3. CASE i \in Known /\ j \in Known
      BY <1>3, <1>5, <2>3 DEF SeaNames
    <2>4. QED
      BY <1>2, <2>1, <2>2, <2>3
  <1>6. ASSUME NEW c \in Condensers, condenser'[c].at = "swap"
        PROVE  /\ condenser'[c].id \in 1 .. made'
               /\ \A i \in Known' : i.id # condenser'[c].id
               /\ \A i \in condenser'[c].picks : i.id < condenser'[c].id
               /\ \A d \in Condensers \ {c} :
                     condenser'[d].at = "swap" => condenser'[d].id # condenser'[c].id
    <2>1. /\ condenser[c].at = "swap" /\ condenser'[c].id = condenser[c].id
          /\ condenser'[c].picks = condenser[c].picks
          /\ \A i \in new : i.id # condenser[c].id
      BY <1>6
    <2>2. /\ condenser[c].id \in 1 .. made
          /\ \A i \in Known : i.id # condenser[c].id
          /\ \A i \in condenser[c].picks : i.id < condenser[c].id
          /\ \A d \in Condensers \ {c} :
                condenser[d].at = "swap" => condenser[d].id # condenser[c].id
      BY <1>3, <2>1 DEF SeaNames
    <2>3. condenser'[c].id \in 1 .. made'
      BY <1>1, <2>1, <2>2
    <2>4. QED
      BY <1>2, <2>1, <2>2, <2>3
  <1>7. QED
    BY <1>4, <1>5, <1>6 DEF SeaNames

(* What a condenser makes of its picks.                                      *)
LEMMA CondensedFits ==
    ASSUME SeahorseAssumption, SeaInv, NEW c \in Condensers, condenser[c].at = "swap",
           NEW sum, sum = [id |-> condenser[c].id,
                           depth |-> Max({i.depth : i \in condenser[c].picks}) + 1,
                           over |-> OverOf(condenser[c].picks)]
    PROVE  /\ Fits(sum) /\ sum.id \in 1 .. made /\ sum.depth \in Nat \ {0}
           /\ \E i \in condenser[c].picks : sum.depth = i.depth + 1
           /\ \A i \in condenser[c].picks : i.depth + 1 <= sum.depth
  <1> DEFINE picks == condenser[c].picks
             depths == {i.depth : i \in picks}
  <1>1. /\ picks # {} /\ IsFiniteSet(picks) /\ \A i \in picks : Summarises(i)
    BY DEF SeaInv, SeaPlaces
  <1>2. /\ condenser[c].id \in 1 .. made /\ \A i \in picks : i.id < condenser[c].id
    BY DEF SeaInv, SeaNames
  <1>3. \A i \in picks : Fits(i)
    BY DEF SeaInv, SeaNames, Known, Picked
  <1>4. made \in 0 .. MaxSummaries /\ MaxSummaries \in Nat
    BY DEF SeaInv, SeaTypes, SeahorseAssumption
  <1>5. \A i \in picks : i.depth \in Nat /\ i.id \in Nat /\ i.depth < i.id
    <2> TAKE i \in picks
    <2>1. i \in Item /\ i.depth # MessageDepth /\ i.depth < i.id
      BY <1>1, <1>3 DEF Fits, Summarises
    <2>2. QED
      BY <1>4, <2>1 DEF Item, MessageDepth
  <1>6. depths \in SUBSET Nat /\ depths # {} /\ IsFiniteSet(depths)
    <2>1. depths \in SUBSET Nat /\ depths # {}
      BY <1>1, <1>5
    <2> DEFINE h == [i \in picks |-> i.depth]
    <2>2. h \in Surjection(picks, depths)
      BY DEF Surjection
    <2> HIDE DEF h, depths, picks
    <2>3. IsFiniteSet(depths) /\ Cardinality(depths) <= Cardinality(picks)
      BY <1>1, <2>2, FS_Surjection
    <2>4. QED
      BY <2>1, <2>3
  <1>7. Max(depths) \in depths /\ \A d \in depths : d <= Max(depths)
    <2> HIDE DEF depths
    <2>1. QED
      BY <1>6, MaxIsGreatest
  <1>8. PICK i \in picks : Max(depths) = i.depth
    BY <1>7
  <1>9. sum.id = condenser[c].id /\ sum.depth = i.depth + 1 /\ sum.over = OverOf(picks)
    BY <1>8
  <1>10. OverOf(picks) \subseteq 1 .. said
    BY <1>3 DEF OverOf, Fits
  <1>11. 1 .. said \subseteq MessageIds
    <2>1. said \in 0 .. MaxSaid /\ MaxSaid \in Nat
      BY DEF SeaInv, SeaTypes, SeahorseAssumption
    <2>2. QED
      BY <2>1 DEF MessageIds
  <1>12. i.depth \in Nat /\ i.id \in Nat /\ i.depth < i.id /\ i.id < condenser[c].id
    BY <1>2, <1>5, <1>8
  <1>13. i.depth + 1 < condenser[c].id /\ condenser[c].id \in Nat
    BY <1>2, <1>4, <1>12
  <1>14. sum \in Item
    <2>1. i.depth + 1 \in MessageDepth .. MaxSummaries
      BY <1>2, <1>4, <1>12, <1>13 DEF MessageDepth
    <2>2. condenser[c].id \in 0 .. MaxSummaries
      BY <1>2, <1>4
    <2>3. OverOf(picks) \in SUBSET MessageIds
      BY <1>10, <1>11
    <2> HIDE DEF picks, depths
    <2>4. sum = [id |-> condenser[c].id, depth |-> i.depth + 1, over |-> OverOf(picks)]
      BY <1>8 DEF picks, depths
    <2>5. QED
      BY <2>1, <2>2, <2>3, <2>4 DEF Item
  <1>15. Fits(sum)
    <2>1. sum.depth # MessageDepth /\ sum.id # 0 /\ sum.id <= made /\ sum.depth < sum.id
      BY <1>2, <1>4, <1>9, <1>12, <1>13 DEF MessageDepth
    <2>2. QED
      BY <1>9, <1>10, <1>14, <2>1 DEF Fits, Summarises
  <1>16. \A j \in picks : j.depth + 1 <= sum.depth
    <2> TAKE j \in picks
    <2>1. j.depth \in depths
      OBVIOUS
    <2>2. j.depth <= i.depth /\ j.depth \in Nat
      BY <1>5, <1>7, <1>8, <2>1
    <2>3. QED
      BY <1>9, <1>12, <2>2
  <1>17. sum.depth \in Nat \ {0}
    BY <1>9, <1>12
  <1>18. QED
    BY <1>2, <1>8, <1>9, <1>15, <1>16, <1>17

(* A new summary gets an identifier no summary has had.                      *)
LEMMA SeaNamesStep ==
    ASSUME SeahorseAssumption, SeaInv, [SeahorseNext]_seaVars
    PROVE  SeaNames'
  <1> USE DEF TurnSame, CondenserSame, CountersSame, GhostsSame
  <1>0. SeaTypes /\ SeaPlaces /\ SeaNames
    BY DEF SeaInv
  <1>1. /\ worker \in WorkerRecord /\ condenser \in [Condensers -> CondenserRecord]
        /\ said \in Nat /\ made \in Nat /\ made <= MaxSummaries /\ MaxSummaries \in Nat
        /\ MaxSaid \in Nat /\ said <= MaxSaid
    BY <1>0 DEF SeaTypes, SeahorseAssumption
  <1>2. SeaTypes'
    BY SeaTypesStep
  <1>3. /\ said' \in Nat /\ made' \in Nat /\ made' <= MaxSummaries
        /\ condenser' \in [Condensers -> CondenserRecord]
    BY <1>1, <1>2 DEF SeaTypes
  <1>4. Range(items) \subseteq Known /\ \A c \in Condensers : condenser[c].picks \subseteq Known
    BY DEF Known, Picked
  <1>5. Off.picks = {} /\ Off.at = "off"
    BY DEF Off
  <1>6. \A i \in Known : Fits(i)
    BY <1>0 DEF SeaNames
  <1>7. \A i \in Known : i.id <= made
    BY <1>6 DEF Fits
  (* Nothing new is known. *)
  <1>8. ASSUME said' >= said, made' >= made, Range(items') \subseteq Range(items),
               \A c \in Condensers :
                  /\ condenser'[c].picks \subseteq Range(items) \cup condenser[c].picks
                  /\ condenser'[c].at = "swap" => /\ condenser[c].at = "swap"
                                                  /\ condenser'[c].id = condenser[c].id
                                                  /\ condenser'[c].picks = condenser[c].picks
        PROVE  SeaNames'
    <2>1. \A c \in Condensers :
              /\ condenser'[c].picks \subseteq Known \cup {}
              /\ condenser'[c].at = "swap" => /\ condenser[c].at = "swap"
                                              /\ condenser'[c].id = condenser[c].id
                                              /\ condenser'[c].picks = condenser[c].picks
                                              /\ \A i \in {} : i.id # condenser[c].id
      BY <1>4, <1>8
    <2>2. Range(items') \subseteq Known \cup {}
      BY <1>4, <1>8
    <2>3. PICK new : new = {}
      OBVIOUS
    <2>4. /\ \A i \in new : Fits(i)'
          /\ \A i \in new, j \in Known \cup new :
                i.id = j.id /\ (Summarises(i) \/ Summarises(j)) => i = j
      BY <2>3
    <2>5. QED
      BY <1>2, <1>8, <2>1, <2>2, <2>3, <2>4, NamesKept
  <1>9. CASE \/ TurnBegins \/ TurnEnds \/ TurnAborts \/ Say \/ AddRow \/ IngestFails
             \/ CompactBegins \/ CompactSkipsLeaf \/ LeafFails \/ Overflow \/ UnderLeaf
             \/ UnderReturns \/ ClearFile \/ UNCHANGED seaVars
    <2>1. items' = items /\ condenser' = condenser /\ made' = made /\ said' \in {said, said + 1}
      BY <1>9 DEF TurnBegins, TurnEnds, TurnAborts, Say, AddRow, IngestFails, CompactBegins,
           CompactSkipsLeaf, LeafFails, Overflow, UnderLeaf, LeafBegins, UnderReturns, ClearFile,
           seaVars
    <2>2. said' >= said /\ made' >= made
      BY <1>1, <2>1
    <2>3. QED
      BY <1>8, <2>1, <2>2
  <1>10. CASE AppendItems
    <2> DEFINE new == {MessageItem(m) : m \in Range(worker.added)}
    <2>1. worker.added \in Seq(MessageIds)
      BY <1>1 DEF WorkerRecord
    <2>2. Range(WithMessages(worker.added)) \subseteq Range(items) \cup new
      BY <1>0, <2>1, AddedStored DEF SeaTypes
    <2>3. items' = WithMessages(worker.added) /\ condenser' = condenser
          /\ said' = said /\ made' = made
      BY <1>10 DEF AppendItems
    <2>4. Range(worker.added) \subseteq 1 .. said
      <3>1. /\ Range(worker.added) \subseteq Range(rows)
            /\ Range(rows \o worker.todo) \subseteq 1 .. said
            /\ rows \in Seq(MessageIds) /\ worker.todo = <<>>
        BY <1>10 DEF SeaInv, SeaRows, SeaTypes, AppendItems
      <3>2. rows \o worker.todo = rows
        BY <3>1
      <3>3. QED
        BY <3>1, <3>2
    <2>5. ASSUME NEW i \in new PROVE Fits(i)' /\ i.id = 0 /\ ~Summarises(i)
      <3>1. PICK m \in Range(worker.added) : i = MessageItem(m)
        OBVIOUS
      <3>2. i.id = 0 /\ i.depth = MessageDepth /\ i.over = {m}
        BY <3>1 DEF MessageItem
      <3>3. i \in Item
        <4>1. m \in MessageIds
          BY <2>1, <3>1 DEF Range
        <4>2. QED
          BY <1>1, <3>1, <4>1 DEF Item, MessageItem, MessageDepth
      <3>4. i.over \subseteq 1 .. said'
        BY <2>3, <2>4, <3>1, <3>2
      <3>5. QED
        BY <1>3, <3>2, <3>3, <3>4 DEF Fits, Summarises
    <2>6. \A i \in new, j \in Known \cup new :
             i.id = j.id /\ (Summarises(i) \/ Summarises(j)) => i = j
      <3>1. \A j \in Known : j.id = 0 => ~Summarises(j)
        BY <1>6 DEF Fits, Summarises
      <3> HIDE DEF new
      <3>2. QED
        BY <2>5, <3>1
    <2>7. \A c \in Condensers :
              /\ condenser'[c].picks \subseteq Known \cup new
              /\ condenser'[c].at = "swap" => /\ condenser[c].at = "swap"
                                              /\ condenser'[c].id = condenser[c].id
                                              /\ condenser'[c].picks = condenser[c].picks
                                              /\ \A i \in new : i.id # condenser[c].id
      <3>1. \A c \in Condensers : condenser[c].at = "swap" => condenser[c].id # 0
        BY <1>0, <1>1 DEF SeaNames
      <3> HIDE DEF new
      <3>2. QED
        BY <1>4, <2>3, <2>5, <3>1
    <2>8. /\ Range(items') \subseteq Known \cup new
          /\ said' >= said /\ made' >= made
      BY <1>1, <1>4, <2>2, <2>3 DEF Range
    <2>9. \A i \in new : Fits(i)'
      BY <2>5
    <2> HIDE DEF new
    <2>10. QED
      BY <1>2, <2>6, <2>7, <2>8, <2>9, NamesKept
  <1>11. CASE LeafEnds
    <2>0. PICK sum : sum = [id |-> made + 1, depth |-> 0, over |-> worker.over]
      OBVIOUS
    <2>1. /\ made' = made + 1 /\ said' = said /\ condenser' = condenser
          /\ items' = RangeReplaced(worker.span, sum) /\ worker.at = "leaf"
      BY <1>11, <2>0 DEF LeafEnds
    <2>2. worker.span \in Nat \X Nat
      BY <1>1 DEF WorkerRecord
    <2>3. Range(items') \subseteq Range(items) \cup {sum}
      <3>1. Range(RangeReplaced(worker.span, sum)) \subseteq Range(items) \cup {sum}
        BY <1>0, <2>2, RangeReplacedStored DEF SeaTypes
      <3>2. QED
        BY <2>1, <3>1 DEF Range
    <2>4. sum.id = made + 1 /\ sum.depth = 0 /\ sum.over = worker.over
      BY <2>0
    <2>5. Fits(sum)'
      <3>1. worker.over \subseteq 1 .. said /\ worker.over \subseteq MessageIds
        BY <1>0, <1>1 DEF SeaPlaces, WorkerRecord
      <3>2. made + 1 \in 0 .. MaxSummaries
        BY <1>1, <1>3, <2>1
      <3>3. 0 \in MessageDepth .. MaxSummaries /\ 0 # MessageDepth
        BY <1>1 DEF MessageDepth
      <3>4. sum \in Item
        BY <2>0, <3>1, <3>2, <3>3 DEF Item
      <3>5. QED
        <4>1. sum.id # 0 /\ sum.id <= made' /\ sum.depth < sum.id
          BY <1>1, <2>1, <2>4
        <4>2. QED
          BY <2>1, <2>4, <3>1, <3>3, <3>4, <4>1 DEF Fits, Summarises
    <2>6. \A i \in {sum}, j \in Known \cup {sum} :
             i.id = j.id /\ (Summarises(i) \/ Summarises(j)) => i = j
      <3>1. \A j \in Known : j.id # made + 1
        <4> TAKE j \in Known
        <4>1. j.id <= made /\ j.id \in Nat
          BY <1>6 DEF Fits, Item
        <4>2. QED
          BY <1>1, <4>1
      <3>2. QED
        BY <2>4, <3>1
    <2>7. \A c \in Condensers :
              /\ condenser'[c].picks \subseteq Known \cup {sum}
              /\ condenser'[c].at = "swap" => /\ condenser[c].at = "swap"
                                              /\ condenser'[c].id = condenser[c].id
                                              /\ condenser'[c].picks = condenser[c].picks
                                              /\ \A i \in {sum} : i.id # condenser[c].id
      <3>1. \A c \in Condensers : condenser[c].at = "swap" => condenser[c].id # made + 1
        <4>1. \A c \in Condensers : condenser[c].at = "swap" => condenser[c].id \in 1 .. made
          BY <1>0 DEF SeaNames
        <4>2. QED
          BY <1>1, <4>1
      <3>2. QED
        BY <1>4, <2>1, <2>4, <3>1
    <2>8. Range(items') \subseteq Known \cup {sum}
      BY <1>4, <2>3
    <2>11. said' >= said /\ made' >= made
      BY <1>1, <2>1
    <2>9. \A i \in {sum} : Fits(i)'
      BY <2>5
    <2>10. QED
      BY <1>2, <2>6, <2>7, <2>8, <2>9, <2>11, NamesKept
  <1>12. CASE Launch
    <2>1. /\ said' = said /\ made' = made /\ items' = items
          /\ \/ condenser' = [condenser EXCEPT !["goroutine"].at = "pick"]
             \/ condenser' = condenser
      BY <1>12 DEF Launch
    <2>2. \A c \in Condensers :
             /\ condenser'[c].picks = condenser[c].picks
             /\ condenser'[c].at = "swap" => /\ condenser[c].at = "swap"
                                             /\ condenser'[c].id = condenser[c].id
      BY <1>1, <2>1 DEF CondenserRecord
    <2>3. QED
      BY <1>1, <1>8, <2>1, <2>2
  <1>13. CASE UnderCondenses
    <2>1. /\ said' = said /\ made' = made /\ items' = items
          /\ condenser' = [condenser EXCEPT !["worker"].at = "pick"]
      BY <1>13 DEF UnderCondenses
    <2>2. \A c \in Condensers :
             /\ condenser'[c].picks = condenser[c].picks
             /\ condenser'[c].at = "swap" => /\ condenser[c].at = "swap"
                                             /\ condenser'[c].id = condenser[c].id
      BY <1>1, <2>1 DEF CondenserRecord
    <2>3. QED
      BY <1>1, <1>8, <2>1, <2>2
  <1>14. ASSUME NEW state \in [Condensers -> CondenserRecord], NEW d \in Condensers
         PROVE  /\ Moved(state)[d].at = state[d].at /\ Moved(state)[d].picks = state[d].picks
                /\ Moved(state)[d].id = state[d].id
    <2>1. Moved(state)[d] = [state[d] EXCEPT !.moved = (state[d].at = "swap")]
      BY DEF Moved
    <2>2. state[d] \in CondenserRecord
      OBVIOUS
    <2>3. QED
      BY <2>1, <2>2 DEF CondenserRecord
  <1>15. CASE ClearTables
    <2>1. /\ said' = said /\ made' = made /\ items' = <<>> /\ condenser' = Moved(condenser)
      BY <1>15 DEF ClearTables
    <2>2. \A c \in Condensers :
             /\ condenser'[c].picks = condenser[c].picks /\ condenser'[c].at = condenser[c].at
             /\ condenser'[c].id = condenser[c].id
      BY <1>1, <1>14, <2>1
    <2>3. Range(items') = {}
      BY <2>1 DEF Range
    <2>4. QED
      BY <1>1, <1>8, <2>1, <2>2, <2>3
  <1>16. ASSUME NEW c \in Condensers, Pick(c) PROVE SeaNames'
    <2>1. PICK picks \in CondensedPicks :
             condenser' = [condenser EXCEPT ![c] = [Off EXCEPT !.at = "llm", !.picks = picks]]
      BY <1>16 DEF Pick
    <2>2. \A i \in picks : \E o \in Ordinals : i = items[o] /\ IsSummary(o)
      BY <1>0, ChosenItems DEF SeaTypes
    <2>3. picks \subseteq Range(items)
      BY <2>2 DEF Range, Ordinals
    <2>4. condenser'[c].at = "llm" /\ condenser'[c].picks = picks
          /\ \A d \in Condensers \ {c} : condenser'[d] = condenser[d]
      BY <1>1, <2>1 DEF Off
    <2>5. said' = said /\ made' = made /\ items' = items
      BY <1>16 DEF Pick
    <2>6. \A d \in Condensers :
                  /\ condenser'[d].picks \subseteq Range(items) \cup condenser[d].picks
                  /\ condenser'[d].at = "swap" => /\ condenser[d].at = "swap"
                                                  /\ condenser'[d].id = condenser[d].id
                                                  /\ condenser'[d].picks = condenser[d].picks
      BY <2>3, <2>4
    <2>7. QED
      BY <1>1, <1>8, <2>5, <2>6
  <1>17. ASSUME NEW c \in Condensers, condenser' = [condenser EXCEPT ![c] = Off],
                items' = items, said' = said, made' \in {made, made + 1}
         PROVE  SeaNames'
    <2>1. condenser'[c] = Off /\ \A d \in Condensers \ {c} : condenser'[d] = condenser[d]
      BY <1>1, <1>17
    <2>2. \A d \in Condensers :
                  /\ condenser'[d].picks \subseteq Range(items) \cup condenser[d].picks
                  /\ condenser'[d].at = "swap" => /\ condenser[d].at = "swap"
                                                  /\ condenser'[d].id = condenser[d].id
                                                  /\ condenser'[d].picks = condenser[d].picks
      BY <1>5, <2>1
    <2>3. said' >= said /\ made' >= made
      BY <1>1, <1>17
    <2>4. QED
      BY <1>8, <1>17, <2>2, <2>3
  <1>18. ASSUME NEW c \in Condensers, GiveUp(c) PROVE SeaNames'
    BY <1>17, <1>18 DEF GiveUp
  <1>19. ASSUME NEW c \in Condensers, Reread(c) PROVE SeaNames'
    <2> DEFINE ids == IdsIn(condenser[c].picks)
               present == {o \in Ordinals : IsSummary(o) /\ items[o].id \in ids}
               joined == {o \in present : Between(Min(present), o) \subseteq present}
    <2>1. condenser[c].at = "llm" /\ said' = said /\ made' = made + 1 /\ items' = items
      BY <1>19 DEF Reread
    <2>2. CASE present = {}
      <3>1. condenser' = [condenser EXCEPT ![c] = Off]
        BY <1>19, <2>2 DEF Reread
      <3>2. QED
        BY <1>17, <2>1, <3>1
    <2>3. CASE present # {}
      <3> DEFINE r == [condenser[c] EXCEPT !.at = "swap", !.id = made + 1,
                                 !.span = <<Min(present), Max(joined)>>,
                                 !.each = (present # joined)]
      <3>1. condenser' = [condenser EXCEPT ![c] = r]
        BY <1>19, <2>3 DEF Reread
      <3>2. condenser[c] \in CondenserRecord
        BY <1>1
      <3> HIDE DEF present, joined
      <3>3. r.at = "swap" /\ r.picks = condenser[c].picks /\ r.id = made + 1
        BY <3>2 DEF CondenserRecord
      <3> HIDE DEF r
      <3>4. condenser'[c] = r /\ \A d \in Condensers \ {c} : condenser'[d] = condenser[d]
        BY <1>1, <3>1
      <3>5. Known' = Known
        <4>1. \A d \in Condensers : condenser'[d].picks = condenser[d].picks
          BY <3>3, <3>4
        <4>2. {condenser'[d].picks : d \in Condensers} = {condenser[d].picks : d \in Condensers}
          BY <4>1
        <4>3. QED
          BY <2>1, <4>2 DEF Known, Picked, Range
      <3>6. \A i \in Known : i.id \in Nat /\ i.id < made + 1
        <4> TAKE i \in Known
        <4>1. i.id <= made /\ i.id \in Nat
          BY <1>6 DEF Fits, Item
        <4>2. QED
          BY <1>1, <4>1
      <3>7. \A i \in Known : Fits(i)'
        <4> TAKE i \in Known
        <4>1. Fits(i) /\ i.id <= made'
          BY <1>1, <1>6, <2>1, <3>6
        <4>2. QED
          BY <2>1, <4>1 DEF Fits
      <3>8. ASSUME NEW d \in Condensers, condenser'[d].at = "swap"
            PROVE  /\ condenser'[d].id \in 1 .. made'
                   /\ \A i \in Known : i.id # condenser'[d].id
                   /\ \A i \in condenser'[d].picks : i.id < condenser'[d].id
                   /\ \A e \in Condensers \ {d} :
                         condenser'[e].at = "swap" => condenser'[e].id # condenser'[d].id
        <4>1. \A e \in Condensers : condenser[e].at = "swap" =>
                /\ condenser[e].id \in 1 .. made
                /\ \A i \in Known : i.id # condenser[e].id
                /\ \A i \in condenser[e].picks : i.id < condenser[e].id
          BY <1>0 DEF SeaNames
        <4>2. CASE d = c
          <5>1. condenser'[d].id = made + 1 /\ condenser'[d].picks \subseteq Known
            BY <1>4, <3>3, <3>4, <4>2
          <5>2. \A e \in Condensers \ {d} : condenser'[e].at = "swap" => condenser'[e].id <= made
            BY <1>1, <3>4, <4>1, <4>2
          <5>3. QED
            BY <1>1, <2>1, <3>6, <5>1, <4>1, <3>4, <4>2
        <4>3. CASE d # c
          <5>1. condenser'[d] = condenser[d] /\ condenser'[c].id = made + 1
            BY <3>3, <3>4, <4>3
          <5>2. /\ condenser'[d].id \in 1 .. made
                /\ \A i \in Known : i.id # condenser'[d].id
                /\ \A i \in condenser'[d].picks : i.id < condenser'[d].id
            BY <3>8, <4>1, <5>1
          <5>3. ASSUME NEW e \in Condensers \ {d}, condenser'[e].at = "swap"
                PROVE  condenser'[e].id # condenser'[d].id
            <6>1. CASE e = c
              BY <1>1, <5>1, <5>2, <6>1
            <6>2. CASE e # c
              BY <1>0, <3>4, <3>8, <5>1, <5>3, <6>2 DEF SeaNames
            <6>3. QED
              BY <6>1, <6>2
          <5>4. condenser'[d].id \in 1 .. made'
            BY <1>1, <2>1, <5>2
          <5>5. QED
            BY <5>2, <5>3, <5>4
        <4>4. QED
          BY <4>2, <4>3
      <3>9. \A i, j \in Known : i.id = j.id /\ Summarises(i) => i = j
        BY <1>0 DEF SeaNames
      <3>10. QED
        BY <3>5, <3>7, <3>8, <3>9 DEF SeaNames
    <2>4. QED
      BY <2>2, <2>3
  <1>20. ASSUME NEW c \in Condensers, Swap(c) PROVE SeaNames'
    <2> DEFINE r == IF c = "worker" THEN Off ELSE [Off EXCEPT !.at = "pick"]
               state == [condenser EXCEPT ![c] = r]
               sum == [id |-> condenser[c].id,
                       depth |-> Max({i.depth : i \in condenser[c].picks}) + 1,
                       over |-> OverOf(condenser[c].picks)]
    <2>1. /\ condenser[c].at = "swap" /\ said' = said /\ made' = made /\ condenser' = Moved(state)
          /\ items' = IF condenser[c].each THEN EachReplaced(IdsIn(condenser[c].picks), sum)
                      ELSE RangeReplaced(condenser[c].span, sum)
      BY <1>20 DEF Swap, OverOf
    <2>2. Fits(sum)
      <3>1. PICK s : s = sum
        OBVIOUS
      <3> HIDE DEF sum
      <3>2. Fits(s)
        BY <2>1, <3>1, CondensedFits DEF sum
      <3>3. QED
        BY <3>1, <3>2
    <2>3. sum.id = condenser[c].id
      OBVIOUS
    <2> HIDE DEF sum
    <2>4. Range(items') \subseteq Known \cup {sum}
      <3>1. condenser[c].span \in Nat \X Nat
        BY <1>1 DEF CondenserRecord
      <3>2. /\ Range(RangeReplaced(condenser[c].span, sum)) \subseteq Range(items) \cup {sum}
            /\ Range(EachReplaced(IdsIn(condenser[c].picks), sum)) \subseteq Range(items) \cup {sum}
        BY <1>0, <3>1, RangeReplacedStored, EachReplacedStored DEF SeaTypes
      <3>3. Range(items') \subseteq Range(items) \cup {sum}
        BY <2>1, <3>2 DEF Range
      <3>4. QED
        BY <1>4, <3>3
    <2>5. r \in CondenserRecord /\ r.at # "swap" /\ r.picks = {}
      <3>1. <<0, 0>> \in Nat \X Nat
        OBVIOUS
      <3>2. QED
        <4>1. Off \in CondenserRecord
          BY <1>1, <3>1 DEF Off, CondenserRecord
        <4>2. [Off EXCEPT !.at = "pick"] \in CondenserRecord
          BY <4>1 DEF CondenserRecord
        <4>3. [Off EXCEPT !.at = "pick"].at = "pick" /\ [Off EXCEPT !.at = "pick"].picks = {}
          BY DEF Off
        <4>4. QED
          BY <1>5, <4>1, <4>2, <4>3
    <2> HIDE DEF r
    <2>6. state \in [Condensers -> CondenserRecord]
          /\ state[c] = r /\ \A d \in Condensers \ {c} : state[d] = condenser[d]
      BY <1>1, <2>5
    <2> HIDE DEF state
    <2>7. \A d \in Condensers :
                /\ condenser'[d].at = state[d].at /\ condenser'[d].picks = state[d].picks
                /\ condenser'[d].id = state[d].id
      BY <1>14, <2>1, <2>6
    <2>8. \A d \in Condensers :
              /\ condenser'[d].picks \subseteq Known \cup {sum}
              /\ condenser'[d].at = "swap" => /\ condenser[d].at = "swap"
                                              /\ condenser'[d].id = condenser[d].id
                                              /\ condenser'[d].picks = condenser[d].picks
                                              /\ \A i \in {sum} : i.id # condenser[d].id
      <3> TAKE d \in Condensers
      <3>1. CASE d = c
        <4>1. condenser'[d].at # "swap" /\ condenser'[d].picks = {}
          BY <2>5, <2>6, <2>7, <3>1
        <4>2. QED
          BY <4>1
      <3>2. CASE d # c
        <4>1. /\ condenser'[d].at = condenser[d].at /\ condenser'[d].picks = condenser[d].picks
              /\ condenser'[d].id = condenser[d].id
          BY <2>6, <2>7, <3>2
        <4>2. condenser[d].at = "swap" => condenser[d].id # condenser[c].id
          BY <1>0, <2>1, <3>2 DEF SeaNames
        <4>3. QED
          BY <1>4, <2>3, <4>1, <4>2
      <3>3. QED
        BY <3>1, <3>2
    <2>9. \A i \in {sum} : Fits(i)'
      BY <2>1, <2>2 DEF Fits
    <2>10. \A i \in {sum}, j \in Known \cup {sum} :
             i.id = j.id /\ (Summarises(i) \/ Summarises(j)) => i = j
      <3>1. \A j \in Known : j.id # condenser[c].id
        BY <1>0, <2>1 DEF SeaNames
      <3>2. QED
        BY <2>3, <3>1
    <2>11. said' >= said /\ made' >= made
      BY <1>1, <2>1
    <2>12. QED
      BY <1>2, <2>4, <2>8, <2>9, <2>10, <2>11, NamesKept
  <1>21. CASE SeahorseCrash
    <2>1. /\ condenser' = [c \in Condensers |-> Off] /\ items' = items
          /\ said' = said /\ made' = made
      BY <1>21 DEF SeahorseCrash
    <2>2. \A c \in Condensers : condenser'[c] = Off
      BY <2>1
    <2>3. QED
      BY <1>1, <1>5, <1>8, <2>1, <2>2
  <1>22. CASE Bootstrap
    <2>1. /\ condenser' = condenser /\ said' = said /\ made' = made
          /\ \/ items' = items
             \/ items' = ItemsWithout(Range(SubSeq(rows, Matching + 1, Len(rows))))
      BY <1>22 DEF Bootstrap
    <2>2. Range(items') \subseteq Range(items)
      <3>1. Range(ItemsWithout(Range(SubSeq(rows, Matching + 1, Len(rows))))) \subseteq Range(items)
        BY <1>0, SparedItems DEF SeaTypes
      <3>2. QED
        BY <2>1, <3>1 DEF Range
    <2>3. QED
      BY <1>1, <1>8, <2>1, <2>2
  <1>23. QED
    BY <1>9, <1>10, <1>11, <1>12, <1>13, <1>15, <1>16, <1>18, <1>19, <1>20, <1>21, <1>22
    DEF SeahorseNext, WorkerStep, Condense
-----------------------------------------------------------------------------
(* Seahorse: sequences of messages.                                          *)

LEMMA RangeOfConcat ==
    ASSUME NEW s \in Seq(MessageIds), NEW t \in Seq(MessageIds)
    PROVE  /\ s \o t \in Seq(MessageIds) /\ Range(s \o t) = Range(s) \cup Range(t)
           /\ Range(s) \subseteq MessageIds
  <1>1. /\ s \o t \in Seq(MessageIds) /\ Len(s \o t) = Len(s) + Len(t)
        /\ \A i \in 1 .. Len(s) : (s \o t)[i] = s[i]
        /\ \A i \in 1 .. Len(t) : (s \o t)[Len(s) + i] = t[i]
    OBVIOUS
  <1>2. Len(s) \in Nat /\ Len(t) \in Nat /\ DOMAIN s = 1 .. Len(s) /\ DOMAIN t = 1 .. Len(t)
        /\ DOMAIN (s \o t) = 1 .. Len(s) + Len(t)
    BY <1>1
  <1>3. ASSUME NEW m \in Range(s \o t) PROVE m \in Range(s) \cup Range(t)
    <2>1. PICK i \in 1 .. Len(s) + Len(t) : m = (s \o t)[i]
      BY <1>2 DEF Range
    <2>2. CASE i <= Len(s)
      <3>1. i \in 1 .. Len(s)
        BY <1>2, <2>2
      <3>2. QED
        BY <1>1, <1>2, <2>1, <3>1 DEF Range
    <2>3. CASE i > Len(s)
      <3>1. i - Len(s) \in 1 .. Len(t) /\ Len(s) + (i - Len(s)) = i
        BY <1>2, <2>3
      <3>2. m = t[i - Len(s)]
        BY <1>1, <2>1, <3>1
      <3>3. QED
        BY <1>2, <3>1, <3>2 DEF Range
    <2>4. QED
      BY <1>2, <2>2, <2>3
  <1>4. ASSUME NEW m \in Range(s) PROVE m \in Range(s \o t)
    <2>1. PICK i \in 1 .. Len(s) : m = s[i]
      BY <1>2 DEF Range
    <2>2. i \in 1 .. Len(s) + Len(t) /\ (s \o t)[i] = m
      BY <1>1, <1>2, <2>1
    <2>3. QED
      BY <1>2, <2>2 DEF Range
  <1>5. ASSUME NEW m \in Range(t) PROVE m \in Range(s \o t)
    <2>1. PICK i \in 1 .. Len(t) : m = t[i]
      BY <1>2 DEF Range
    <2>2. Len(s) + i \in 1 .. Len(s) + Len(t) /\ (s \o t)[Len(s) + i] = m
      BY <1>1, <1>2, <2>1
    <2>3. QED
      BY <1>2, <2>2 DEF Range
  <1>6. Range(s) \subseteq MessageIds
    BY <1>2 DEF Range
  <1>7. QED
    BY <1>1, <1>3, <1>4, <1>5, <1>6

LEMMA RangeOfOne ==
    ASSUME NEW x \in MessageIds
    PROVE  <<x>> \in Seq(MessageIds) /\ Range(<<x>>) = {x} /\ Growing(<<x>>)
           /\ Range(<<>>) = {} /\ Growing(<<>>)
  <1>1. Len(<<x>>) = 1 /\ DOMAIN <<x>> = 1 .. 1 /\ <<x>>[1] = x /\ <<x>> \in Seq(MessageIds)
    OBVIOUS
  <1>2. Range(<<x>>) = {x}
    BY <1>1 DEF Range
  <1>3. Growing(<<x>>)
    BY <1>1 DEF Growing
  <1>4. Range(<<>>) = {} /\ Growing(<<>>)
    BY DEF Range, Growing
  <1>5. QED
    BY <1>1, <1>2, <1>3, <1>4

(* One sequence after another grows when all in it are less.                 *)
LEMMA GrowingConcat ==
    ASSUME NEW s \in Seq(MessageIds), NEW t \in Seq(MessageIds)
    PROVE  Growing(s \o t) <=> /\ Growing(s) /\ Growing(t)
                               /\ \A m \in Range(s), n \in Range(t) : m < n
  <1>1. /\ s \o t \in Seq(MessageIds) /\ Len(s \o t) = Len(s) + Len(t)
        /\ \A i \in 1 .. Len(s) : (s \o t)[i] = s[i]
        /\ \A i \in 1 .. Len(t) : (s \o t)[Len(s) + i] = t[i]
    OBVIOUS
  <1>2. Len(s) \in Nat /\ Len(t) \in Nat /\ DOMAIN s = 1 .. Len(s) /\ DOMAIN t = 1 .. Len(t)
    OBVIOUS
  <1>3. ASSUME Growing(s \o t)
        PROVE  Growing(s) /\ Growing(t) /\ \A m \in Range(s), n \in Range(t) : m < n
    <2>1. \A i, j \in 1 .. Len(s) + Len(t) : i < j => (s \o t)[i] < (s \o t)[j]
      BY <1>1, <1>3 DEF Growing
    <2>2. Growing(s)
      <3> SUFFICES ASSUME NEW i \in 1 .. Len(s), NEW j \in 1 .. Len(s), i < j
                   PROVE  s[i] < s[j]
        BY DEF Growing
      <3>1. i \in 1 .. Len(s) + Len(t) /\ j \in 1 .. Len(s) + Len(t)
        BY <1>2
      <3>2. (s \o t)[i] < (s \o t)[j]
        BY <2>1, <3>1
      <3>3. QED
        BY <1>1, <3>2
    <2>3. Growing(t)
      <3> SUFFICES ASSUME NEW i \in 1 .. Len(t), NEW j \in 1 .. Len(t), i < j
                   PROVE  t[i] < t[j]
        BY DEF Growing
      <3>1. /\ Len(s) + i \in 1 .. Len(s) + Len(t) /\ Len(s) + j \in 1 .. Len(s) + Len(t)
            /\ Len(s) + i < Len(s) + j
        BY <1>2
      <3>2. (s \o t)[Len(s) + i] < (s \o t)[Len(s) + j]
        BY <2>1, <3>1
      <3>3. QED
        BY <1>1, <3>2
    <2>4. ASSUME NEW m \in Range(s), NEW n \in Range(t) PROVE m < n
      <3>1. PICK i \in 1 .. Len(s) : m = s[i]
        BY <1>2 DEF Range
      <3>2. PICK j \in 1 .. Len(t) : n = t[j]
        BY <1>2 DEF Range
      <3>3. /\ i \in 1 .. Len(s) + Len(t) /\ Len(s) + j \in 1 .. Len(s) + Len(t)
            /\ i < Len(s) + j
        BY <1>2
      <3>4. (s \o t)[i] < (s \o t)[Len(s) + j]
        BY <2>1, <3>3
      <3>5. QED
        BY <1>1, <3>1, <3>2, <3>4
    <2>5. QED
      BY <2>2, <2>3, <2>4
  <1>4. ASSUME Growing(s), Growing(t), \A m \in Range(s), n \in Range(t) : m < n
        PROVE  Growing(s \o t)
    <2> SUFFICES ASSUME NEW i \in 1 .. Len(s) + Len(t), NEW j \in 1 .. Len(s) + Len(t), i < j
                 PROVE  (s \o t)[i] < (s \o t)[j]
      BY <1>1 DEF Growing
    <2>1. CASE j <= Len(s)
      <3>1. i \in 1 .. Len(s) /\ j \in 1 .. Len(s)
        BY <1>2, <2>1
      <3>2. s[i] < s[j]
        BY <1>4, <3>1 DEF Growing
      <3>3. QED
        BY <1>1, <3>1, <3>2
    <2>2. CASE i > Len(s)
      <3>1. /\ i - Len(s) \in 1 .. Len(t) /\ j - Len(s) \in 1 .. Len(t) /\ i - Len(s) < j - Len(s)
            /\ Len(s) + (i - Len(s)) = i /\ Len(s) + (j - Len(s)) = j
        BY <1>2, <2>2
      <3>2. t[i - Len(s)] < t[j - Len(s)]
        BY <1>4, <3>1 DEF Growing
      <3>3. QED
        BY <1>1, <3>1, <3>2
    <2>3. CASE i <= Len(s) /\ j > Len(s)
      <3>1. i \in 1 .. Len(s) /\ j - Len(s) \in 1 .. Len(t) /\ Len(s) + (j - Len(s)) = j
        BY <1>2, <2>3
      <3>2. s[i] \in Range(s) /\ t[j - Len(s)] \in Range(t)
        BY <1>2, <3>1 DEF Range
      <3>3. s[i] < t[j - Len(s)]
        BY <1>4, <3>2
      <3>4. QED
        BY <1>1, <3>1, <3>3
    <2>4. QED
      BY <1>2, <2>1, <2>2, <2>3
  <1>5. QED
    BY <1>3, <1>4

(* The head of one moved to the end of the other.                            *)
LEMMA HeadMoved ==
    ASSUME NEW s \in Seq(MessageIds), NEW t \in Seq(MessageIds), t # <<>>
    PROVE  /\ Head(t) \in MessageIds /\ Tail(t) \in Seq(MessageIds)
           /\ Append(s, Head(t)) \in Seq(MessageIds)
           /\ Append(s, Head(t)) \o Tail(t) = s \o t
           /\ Range(Append(s, Head(t))) = Range(s) \cup {Head(t)}
           /\ Range(t) = Range(Tail(t)) \cup {Head(t)}
  <1>1. /\ Head(t) \in MessageIds /\ Tail(t) \in Seq(MessageIds)
        /\ Append(s, Head(t)) \in Seq(MessageIds)
    OBVIOUS
  <1>2. Append(s, Head(t)) \o Tail(t) = s \o t
    OBVIOUS
  <1>3. Append(s, Head(t)) = s \o <<Head(t)>> /\ t = <<Head(t)>> \o Tail(t)
    <2>1. PICK x \in MessageIds : x = Head(t)
      BY <1>1
    <2>2. Append(s, x) = s \o <<x>>
      OBVIOUS
    <2>3. /\ t = SubSeq(t, 1, Len(t)) /\ Tail(t) = SubSeq(t, 2, Len(t))
          /\ SubSeq(t, 1, Len(t)) = <<t[1]>> \o SubSeq(t, 1 + 1, Len(t)) /\ t[1] = Head(t)
      BY TailIsSubSeq, SubSeqFull, SubSeqRecursiveFirst
    <2>4. SubSeq(t, 1 + 1, Len(t)) = Tail(t)
      BY <2>3
    <2>5. t = <<t[1]>> \o Tail(t)
      BY <2>3, <2>4
    <2>6. QED
      BY <2>1, <2>2, <2>3, <2>5
  <1>4. PICK u \in Seq(MessageIds) : u = <<Head(t)>> /\ Range(u) = {Head(t)}
    BY <1>1, RangeOfOne
  <1>8. Append(s, Head(t)) = s \o u /\ t = u \o Tail(t)
    BY <1>3, <1>4
  <1>5. Range(Append(s, Head(t))) = Range(s) \cup {Head(t)}
    <2>1. Range(s \o u) = Range(s) \cup Range(u)
      BY RangeOfConcat
    <2>2. QED
      BY <1>4, <1>8, <2>1
  <1>6. Range(t) = {Head(t)} \cup Range(Tail(t))
    <2>1. Range(u \o Tail(t)) = Range(u) \cup Range(Tail(t))
      BY <1>1, RangeOfConcat
    <2>2. QED
      BY <1>4, <1>8, <2>1
  <1>7. QED
    BY <1>1, <1>2, <1>5, <1>6

LEMMA GrowingStart ==
    ASSUME NEW s \in Seq(MessageIds), NEW k \in Nat, k <= Len(s), Growing(s)
    PROVE  /\ SubSeq(s, 1, k) \in Seq(MessageIds) /\ Len(SubSeq(s, 1, k)) = k
           /\ Growing(SubSeq(s, 1, k)) /\ Range(SubSeq(s, 1, k)) \subseteq Range(s)
  <1>1. Len(s) \in Nat /\ DOMAIN s = 1 .. Len(s) /\ 1 .. k \subseteq 1 .. Len(s)
    OBVIOUS
  <1>2. /\ SubSeq(s, 1, k) \in Seq(MessageIds) /\ Len(SubSeq(s, 1, k)) = k
        /\ \A i \in 1 .. k : SubSeq(s, 1, k)[i] = s[i]
    BY <1>1, SubSeqProperties
  <1>3. DOMAIN SubSeq(s, 1, k) = 1 .. k
    BY <1>2
  <1>4. Growing(SubSeq(s, 1, k))
    BY <1>1, <1>2 DEF Growing
  <1>5. Range(SubSeq(s, 1, k)) \subseteq Range(s)
    BY <1>1, <1>2, <1>3 DEF Range
  <1>6. QED
    BY <1>2, <1>4, <1>5

(* The rows and what is still to be added are the history, in order, until   *)
(* an ingestion fails; a bootstrap brings them together again.               *)
LEMMA SeaRowsStep ==
    ASSUME SeahorseAssumption, SeaInv, [SeahorseNext]_seaVars
    PROVE  SeaRows'
  <1> USE DEF TurnSame, RowsSame, CondenserSame, CountersSame, GhostsSame
  <1>0. SeaTypes /\ SeaPlaces /\ SeaRows
    BY DEF SeaInv
  <1>1. /\ worker \in WorkerRecord /\ log \in Seq(MessageIds) /\ rows \in Seq(MessageIds)
        /\ worker.todo \in Seq(MessageIds) /\ worker.added \in Seq(MessageIds)
        /\ said \in Nat /\ said <= MaxSaid /\ MaxSaid \in Nat /\ Stored(items)
    <2>1. /\ worker \in WorkerRecord /\ log \in Seq(MessageIds) /\ rows \in Seq(MessageIds)
          /\ said \in 0 .. MaxSaid /\ MaxSaid \in Nat /\ Stored(items)
      BY <1>0 DEF SeaTypes, SeahorseAssumption
    <2>2. worker.todo \in Seq(MessageIds) /\ worker.added \in Seq(MessageIds)
      BY <2>1 DEF WorkerRecord
    <2>3. said \in Nat /\ said <= MaxSaid
      BY <2>1
    <2>4. QED
      BY <2>1, <2>2, <2>3
  <1>2. /\ Growing(log) /\ Range(log) \subseteq 1 .. said /\ worker.mark <= Len(log)
        /\ Growing(rows \o worker.todo) /\ Range(rows \o worker.todo) \subseteq 1 .. said
        /\ Growing(worker.added \o worker.todo) /\ Range(worker.added) \subseteq Range(rows)
        /\ \A i \in Range(items) : Summarises(i) \/ i.over \subseteq Range(rows)
    BY <1>0 DEF SeaRows
  <1>3. /\ rows \o worker.todo \in Seq(MessageIds)
        /\ Range(rows \o worker.todo) = Range(rows) \cup Range(worker.todo)
        /\ Growing(rows) /\ Range(rows) \subseteq 1 .. said
    BY <1>1, <1>2, RangeOfConcat, GrowingConcat
  <1>4. rows \o <<>> = rows /\ <<>> \o <<>> = <<>> /\ Growing(<<>>) /\ Range(<<>>) = {}
        /\ <<>> \in Seq(MessageIds) /\ Len(<<>>) = 0
    BY <1>1 DEF Growing, Range
  (* The rows stay; what was to be added is given up or added. *)
  <1>5. ASSUME rows' = rows, log' = log, said' = said, worker'.mark \in {0, worker.mark, Len(log)},
               \/ worker'.todo = <<>> /\ worker'.added = <<>>
               \/ worker'.todo = worker.todo /\ worker'.added = worker.added,
               \A i \in Range(items') : Summarises(i) \/ i.over \subseteq Range(rows)
        PROVE  SeaRows'
    <2>1. /\ Growing(log') /\ Range(log') \subseteq 1 .. said' /\ worker'.mark <= Len(log')
      BY <1>1, <1>2, <1>5
    <2>2. CASE worker'.todo = <<>> /\ worker'.added = <<>>
      BY <1>2, <1>3, <1>4, <1>5, <2>1, <2>2 DEF SeaRows
    <2>3. CASE worker'.todo = worker.todo /\ worker'.added = worker.added
      BY <1>2, <1>5, <2>1, <2>3 DEF SeaRows
    <2>4. QED
      BY <1>5, <2>2, <2>3
  <1>6. ASSUME items' = items PROVE \A i \in Range(items') : Summarises(i) \/ i.over \subseteq Range(rows)
    <2>1. Range(items') = Range(items)
      BY <1>6
    <2>2. QED
      BY <1>2, <2>1
  <1>7. AtRest.mark = 0 /\ AtRest.todo = <<>> /\ AtRest.added = <<>>
    BY DEF AtRest
  <1>8. CASE \/ TurnBegins \/ TurnEnds
    <2>1. /\ rows' = rows /\ log' = log /\ said' = said /\ items' = items
          /\ worker' = [AtRest EXCEPT !.at = "on", !.mark = Len(log)] \/ worker' = AtRest
      <3>1. CASE TurnBegins
        BY <3>1 DEF TurnBegins
      <3>2. CASE TurnEnds
        BY <3>2 DEF TurnEnds
      <3>3. QED
        BY <1>8, <3>1, <3>2
    <2>2. /\ worker'.mark \in {0, Len(log)} /\ worker'.todo = <<>> /\ worker'.added = <<>>
      <3>1. CASE worker' = AtRest
        BY <1>7, <3>1
      <3>2. CASE worker' = [AtRest EXCEPT !.at = "on", !.mark = Len(log)]
        <4>1. PICK n : n = Len(log)
          OBVIOUS
        <4>2. worker' = [AtRest EXCEPT !.at = "on", !.mark = n]
          BY <3>2, <4>1
        <4>3. worker'.mark = n /\ worker'.todo = <<>> /\ worker'.added = <<>>
          BY <4>2 DEF AtRest
        <4>4. QED
          BY <4>1, <4>3
      <3>3. QED
        BY <2>1, <3>1, <3>2
    <2>3. QED
      BY <1>5, <1>6, <2>1, <2>2
  <1>9. CASE TurnAborts
    <2>1. /\ worker' = AtRest /\ log' = SubSeq(log, 1, worker.mark)
          /\ rows' = rows /\ said' = said /\ items' = items
      BY <1>9 DEF TurnAborts
    <2>2. worker.mark \in Nat
      BY <1>1 DEF WorkerRecord
    <2>3. Growing(log') /\ Range(log') \subseteq 1 .. said' /\ 0 <= Len(log')
      <3>1. /\ Growing(SubSeq(log, 1, worker.mark))
            /\ Range(SubSeq(log, 1, worker.mark)) \subseteq Range(log)
            /\ Len(SubSeq(log, 1, worker.mark)) = worker.mark
        BY <1>1, <1>2, <2>2, GrowingStart
      <3>2. PICK s : s = SubSeq(log, 1, worker.mark)
        OBVIOUS
      <3>3. Growing(s) /\ Range(s) \subseteq 1 .. said /\ 0 <= Len(s)
        BY <1>2, <2>2, <3>1, <3>2
      <3>4. log' = s /\ said' = said
        BY <2>1, <3>2
      <3>5. QED
        BY <3>3, <3>4
    <2>4. QED
      BY <1>2, <1>3, <1>4, <1>6, <1>7, <2>1, <2>3 DEF SeaRows
  <1>10. CASE Say
    <2>1. /\ worker.at = "on" /\ said < MaxSaid /\ said' = said + 1 /\ log' = Append(log, said + 1)
          /\ worker'.todo = <<said + 1>> /\ worker'.mark = worker.mark
          /\ worker'.added = worker.added /\ rows' = rows /\ items' = items
      BY <1>1, <1>10 DEF Say, WorkerRecord
    <2>2. worker.added = <<>>
      BY <1>0, <2>1 DEF SeaPlaces
    <2>3. said + 1 \in MessageIds /\ said + 1 \in 1 .. said' /\ \A m \in 1 .. said : m < said + 1 /\ m \in 1 .. said'
      BY <1>1, <2>1 DEF MessageIds
    <2>4. PICK x \in MessageIds : x = said + 1
      BY <2>3
    <2>5. PICK t \in Seq(MessageIds) : t = <<x>> /\ Range(t) = {x} /\ Growing(t)
      BY RangeOfOne
    <2>6. /\ Append(log, x) = log \o t /\ Len(log \o t) = Len(log) + 1 /\ Len(log) \in Nat
          /\ <<>> \o t = t
      <3>1. Append(log, x) = log \o <<x>>
        BY <1>1
      <3>2. Len(t) = 1 /\ Len(log \o t) = Len(log) + Len(t)
        BY <1>1, <2>5
      <3>3. <<>> \o t = t
        BY ConcatEmptySeq
      <3>4. Len(log) \in Nat
        BY <1>1
      <3>5. QED
        BY <2>5, <3>1, <3>2, <3>3, <3>4
    <2>20. /\ \A m \in Range(log), n \in Range(t) : m < n
           /\ \A m \in Range(rows), n \in Range(t) : m < n
      BY <1>2, <1>3, <2>3, <2>4, <2>5
    <2>7. /\ Growing(log \o t) /\ Range(log \o t) \subseteq 1 .. said'
      <3>1. Range(log \o t) = Range(log) \cup Range(t)
        BY <1>1, RangeOfConcat
      <3>2. Growing(log \o t)
        BY <1>1, <1>2, <2>5, <2>20, GrowingConcat
      <3>3. QED
        BY <1>2, <2>3, <2>4, <2>5, <3>1, <3>2
    <2>8. /\ Growing(rows \o t) /\ Range(rows \o t) \subseteq 1 .. said'
      <3>1. Range(rows \o t) = Range(rows) \cup Range(t)
        BY <1>1, RangeOfConcat
      <3>2. Growing(rows \o t)
        BY <1>1, <1>3, <2>5, <2>20, GrowingConcat
      <3>3. QED
        BY <1>3, <2>3, <2>4, <2>5, <3>1, <3>2
    <2>9. /\ log' = log \o t /\ worker'.todo = t /\ worker'.added = <<>>
          /\ worker'.mark <= Len(log')
      <3>1. worker.mark \in Nat
        BY <1>1 DEF WorkerRecord
      <3>2. QED
        BY <1>2, <2>1, <2>2, <2>4, <2>5, <2>6, <3>1
    <2>10. Growing(log') /\ Range(log') \subseteq 1 .. said'
      BY <2>7, <2>9
    <2>11. /\ Growing(rows' \o worker'.todo) /\ Range(rows' \o worker'.todo) \subseteq 1 .. said'
      BY <2>1, <2>8, <2>9
    <2>12. Growing(worker'.added \o worker'.todo) /\ Range(worker'.added) \subseteq Range(rows')
      BY <1>4, <2>5, <2>6, <2>9
    <2>13. \A i \in Range(items') : Summarises(i) \/ i.over \subseteq Range(rows')
      BY <1>6, <2>1
    <2>14. QED
      BY <2>9, <2>10, <2>11, <2>12, <2>13 DEF SeaRows
  <1>11. CASE AddRow
    <2>1. /\ worker.todo # <<>> /\ rows' = Append(rows, Head(worker.todo))
          /\ worker'.todo = Tail(worker.todo)
          /\ worker'.added = Append(worker.added, Head(worker.todo))
          /\ worker'.mark = worker.mark /\ log' = log /\ said' = said /\ items' = items
      BY <1>1, <1>11 DEF AddRow, WorkerRecord
    <2>2. /\ rows' \o worker'.todo = rows \o worker.todo
          /\ Range(rows') = Range(rows) \cup {Head(worker.todo)}
      <3>1. /\ Append(rows, Head(worker.todo)) \o Tail(worker.todo) = rows \o worker.todo
            /\ Range(Append(rows, Head(worker.todo))) = Range(rows) \cup {Head(worker.todo)}
        BY <1>1, <2>1, HeadMoved
      <3>2. QED
        BY <2>1, <3>1 DEF Range
    <2>3. /\ worker'.added \o worker'.todo = worker.added \o worker.todo
          /\ Range(worker'.added) = Range(worker.added) \cup {Head(worker.todo)}
      <3>1. /\ Append(worker.added, Head(worker.todo)) \o Tail(worker.todo) = worker.added \o worker.todo
            /\ Range(Append(worker.added, Head(worker.todo))) = Range(worker.added) \cup {Head(worker.todo)}
        BY <1>1, <2>1, HeadMoved
      <3>2. QED
        BY <2>1, <3>1
    <2>4. \A i \in Range(items') : Summarises(i) \/ i.over \subseteq Range(rows')
      BY <1>6, <2>1, <2>2
    <2>5. QED
      BY <1>2, <2>1, <2>2, <2>3, <2>4 DEF SeaRows
  <1>12. /\ Ingested.todo = <<>> /\ Ingested.added = <<>> /\ Ingested.mark = worker.mark
    BY <1>1 DEF Ingested, WorkerRecord
  <1>13. CASE AppendItems
    <2>1. /\ items' = WithMessages(worker.added) /\ worker' = Ingested
          /\ log' = log /\ rows' = rows /\ said' = said
      BY <1>13 DEF AppendItems
    <2>2. Range(WithMessages(worker.added)) \subseteq
                 Range(items) \cup {MessageItem(m) : m \in Range(worker.added)}
      BY <1>1, AddedStored
    <2>3. \A i \in Range(items') : Summarises(i) \/ i.over \subseteq Range(rows)
      <3> TAKE i \in Range(items')
      <3>1. i \in Range(items) \cup {MessageItem(m) : m \in Range(worker.added)}
        BY <2>1, <2>2 DEF Range
      <3>2. CASE i \in Range(items)
        BY <1>2, <3>2
      <3>3. CASE i \in {MessageItem(m) : m \in Range(worker.added)}
        <4>1. PICK m \in Range(worker.added) : i = MessageItem(m)
          BY <3>3
        <4>2. i.over = {m} /\ m \in Range(rows)
          BY <1>2, <4>1 DEF MessageItem
        <4>3. QED
          BY <4>2
      <3>4. QED
        BY <3>1, <3>2, <3>3
    <2>4. QED
      BY <1>5, <1>12, <2>1, <2>3
  <1>14. CASE IngestFails
    <2>1. /\ items' = items /\ worker' = Ingested /\ log' = log /\ rows' = rows /\ said' = said
      BY <1>14 DEF IngestFails
    <2>2. QED
      BY <1>5, <1>6, <1>12, <2>1
  <1>15. CASE CompactBegins \/ UnderLeaf
    <2>1. /\ items' = items /\ log' = log /\ rows' = rows /\ said' = said
          /\ worker'.mark = worker.mark /\ worker'.todo = worker.todo /\ worker'.added = worker.added
      BY <1>1, <1>15 DEF CompactBegins, UnderLeaf, LeafBegins, WorkerRecord
    <2>2. QED
      BY <1>5, <1>6, <2>1
  <1>16. CASE CompactSkipsLeaf \/ LeafFails \/ Launch \/ Overflow \/ UnderCondenses \/ UnderReturns
    <2>1. /\ items' = items /\ log' = log /\ rows' = rows /\ said' = said
      BY <1>16 DEF CompactSkipsLeaf, LeafFails, Launch, Overflow, UnderCondenses, UnderReturns
    <2>2. worker'.mark = worker.mark /\ worker'.todo = worker.todo /\ worker'.added = worker.added
      <3>1. CASE LeafFails
        BY <1>1, <3>1 DEF LeafFails, WorkerRecord
      <3>2. CASE CompactSkipsLeaf \/ Launch \/ Overflow \/ UnderCondenses \/ UnderReturns
        <4>1. PICK at : worker' = [worker EXCEPT !.at = at]
          BY <3>2 DEF CompactSkipsLeaf, Launch, Overflow, UnderCondenses, UnderReturns
        <4>2. QED
          BY <1>1, <4>1 DEF WorkerRecord
      <3>3. QED
        BY <1>16, <3>1, <3>2
    <2>3. QED
      BY <1>5, <1>6, <2>1, <2>2
  <1>17. CASE LeafEnds
    <2>0. PICK sum : sum = [id |-> made + 1, depth |-> 0, over |-> worker.over]
      OBVIOUS
    <2>1. /\ log' = log /\ rows' = rows /\ said' = said
          /\ items' = RangeReplaced(worker.span, sum)
          /\ worker'.mark = worker.mark /\ worker'.todo = worker.todo /\ worker'.added = worker.added
      BY <1>1, <1>17, <2>0 DEF LeafEnds, WorkerRecord
    <2>2. worker.span \in Nat \X Nat
      BY <1>1 DEF WorkerRecord
    <2>3. Range(RangeReplaced(worker.span, sum)) \subseteq Range(items) \cup {sum}
      BY <1>1, <2>2, RangeReplacedStored
    <2>4. Summarises(sum)
      BY <2>0 DEF Summarises, MessageDepth
    <2>5. \A i \in Range(items') : Summarises(i) \/ i.over \subseteq Range(rows)
      <3>1. Range(items') \subseteq Range(items) \cup {sum}
        BY <2>1, <2>3 DEF Range
      <3>2. QED
        BY <1>2, <2>4, <3>1
    <2>6. QED
      BY <1>5, <2>1, <2>5
  <1>18. CASE ClearTables
    <2>1. /\ rows' = <<>> /\ items' = <<>> /\ log' = log /\ said' = said /\ worker.at = "idle"
          /\ worker'.mark = worker.mark /\ worker'.todo = worker.todo /\ worker'.added = worker.added
      BY <1>1, <1>18 DEF ClearTables, WorkerRecord
    <2>2. worker.todo = <<>> /\ worker.added = <<>>
      BY <1>0, <2>1 DEF SeaPlaces
    <2>3. Range(items') = {} /\ Range(rows') = {}
      BY <2>1 DEF Range
    <2>4. QED
      BY <1>2, <1>4, <2>1, <2>2, <2>3 DEF SeaRows
  <1>19. CASE ClearFile
    <2>1. /\ worker' = AtRest /\ log' = <<>> /\ rows' = rows /\ items' = items /\ said' = said
      BY <1>19 DEF ClearFile
    <2>2. Growing(log') /\ Range(log') \subseteq 1 .. said' /\ Len(log') = 0
      BY <1>4, <2>1
    <2>3. worker'.todo = <<>> /\ worker'.added = <<>> /\ worker'.mark = 0
      BY <1>7, <2>1
    <2>4. /\ rows' \o worker'.todo = rows /\ worker'.added \o worker'.todo = <<>>
          /\ worker'.mark <= Len(log')
      BY <1>4, <2>1, <2>2, <2>3
    <2>5. \A i \in Range(items') : Summarises(i) \/ i.over \subseteq Range(rows')
      BY <1>6, <2>1
    <2>6. QED
      BY <1>3, <1>4, <2>1, <2>2, <2>3, <2>4, <2>5 DEF SeaRows
  <1>20. ASSUME NEW c \in Condensers, NEW at, BackTo(c, at) \/ worker' = worker
         PROVE  worker'.mark = worker.mark /\ worker'.todo = worker.todo /\ worker'.added = worker.added
    BY <1>1, <1>20 DEF BackTo, WorkerRecord
  <1>21. ASSUME NEW c \in Condensers, Pick(c) \/ GiveUp(c) \/ Reread(c) PROVE SeaRows'
    <2>1. /\ items' = items /\ log' = log /\ rows' = rows /\ said' = said
          /\ BackTo(c, "on") \/ worker' = worker
      BY <1>21 DEF Pick, GiveUp, Reread
    <2>2. QED
      BY <1>5, <1>6, <1>20, <2>1
  <1>22. ASSUME NEW c \in Condensers, Swap(c) PROVE SeaRows'
    <2> DEFINE sum == [id |-> condenser[c].id,
                       depth |-> Max({i.depth : i \in condenser[c].picks}) + 1,
                       over |-> OverOf(condenser[c].picks)]
    <2>1. /\ condenser[c].at = "swap" /\ said' = said /\ log' = log /\ rows' = rows
          /\ BackTo(c, "under")
          /\ items' = IF condenser[c].each THEN EachReplaced(IdsIn(condenser[c].picks), sum)
                      ELSE RangeReplaced(condenser[c].span, sum)
      BY <1>22 DEF Swap, OverOf
    <2>2. Summarises(sum)
      <3>1. PICK s : s = sum
        OBVIOUS
      <3>2. s.depth \in Nat \ {0}
        <4> HIDE DEF sum
        <4>1. QED
          BY <2>1, <3>1, CondensedFits DEF sum
      <3>3. s.depth # MessageDepth
        BY <3>2 DEF MessageDepth
      <3> HIDE DEF sum
      <3>4. QED
        BY <3>1, <3>3 DEF Summarises
    <2> HIDE DEF sum
    <2>3. Range(items') \subseteq Range(items) \cup {sum}
      <3>1. condenser[c].span \in Nat \X Nat
        BY <1>0 DEF SeaTypes, CondenserRecord
      <3>2. /\ Range(RangeReplaced(condenser[c].span, sum)) \subseteq Range(items) \cup {sum}
            /\ Range(EachReplaced(IdsIn(condenser[c].picks), sum)) \subseteq Range(items) \cup {sum}
        BY <1>1, <3>1, RangeReplacedStored, EachReplacedStored
      <3>3. QED
        BY <2>1, <3>2 DEF Range
    <2>4. \A i \in Range(items') : Summarises(i) \/ i.over \subseteq Range(rows)
      BY <1>2, <2>2, <2>3
    <2>5. QED
      BY <1>5, <1>20, <2>1, <2>4
  <1>23. CASE SeahorseCrash
    <2>1. /\ worker' = [AtRest EXCEPT !.at = "boot"]
          /\ items' = items /\ log' = log /\ rows' = rows /\ said' = said
      BY <1>23 DEF SeahorseCrash
    <2>2. worker'.mark = 0 /\ worker'.todo = <<>> /\ worker'.added = <<>>
      BY <2>1 DEF AtRest
    <2>3. QED
      BY <1>5, <1>6, <2>1, <2>2
  <1>24. CASE Bootstrap
    <2> DEFINE kept == SubSeq(rows, 1, Matching)
               gone == Range(SubSeq(rows, Matching + 1, Len(rows)))
               delta == SubSeq(log, Matching + 1, Len(log))
    <2>1. /\ worker.at = "boot" /\ log' = log /\ said' = said
          /\ \/ worker' = AtRest /\ rows' = rows /\ items' = items
             \/ /\ worker' = [AtRest EXCEPT !.at = "rows", !.todo = delta]
                /\ rows' = kept /\ items' = ItemsWithout(gone)
      BY <1>24 DEF Bootstrap
    <2>2. CASE worker' = AtRest /\ rows' = rows /\ items' = items
      BY <1>5, <1>6, <1>7, <2>1, <2>2
    <2>3. CASE /\ worker' = [AtRest EXCEPT !.at = "rows", !.todo = delta]
               /\ rows' = kept /\ items' = ItemsWithout(gone)
      <3>1. /\ Matching \in 0 .. Len(log) /\ Matching <= Len(rows)
            /\ \A i \in 1 .. Matching : rows[i] = log[i]
            /\ kept \in Seq(MessageIds) /\ Len(kept) = Matching
            /\ \A i \in 1 .. Matching : kept[i] = log[i]
            /\ delta \in Seq(MessageIds) /\ Len(delta) = Len(log) - Matching
            /\ \A i \in 1 .. Len(log) - Matching : delta[i] = log[Matching + i]
            /\ gone = {rows[i] : i \in Matching + 1 .. Len(rows)}
        BY <1>1, MatchingRows
      <3>2. /\ Range(ItemsWithout(gone)) \subseteq Range(items)
            /\ DOMAIN ItemsWithout(gone) =
                 {o \in Ordinals : IsSummary(o) \/ items[o].over \cap gone = {}}
            /\ \A o \in DOMAIN ItemsWithout(gone) : ItemsWithout(gone)[o] = items[o]
        BY <1>1, SparedItems
      <3> HIDE DEF kept, gone, delta
      <3>3. worker'.todo = delta /\ worker'.added = <<>> /\ worker'.mark = 0
        BY <2>3 DEF AtRest
      <3>4. kept \o delta = log
        <4>1. /\ kept \o delta \in Seq(MessageIds) /\ Len(kept \o delta) = Len(kept) + Len(delta)
              /\ \A i \in 1 .. Len(kept) + Len(delta) : (kept \o delta)[i] =
                     IF i <= Len(kept) THEN kept[i] ELSE delta[i - Len(kept)]
          BY <3>1, ConcatProperties
        <4>2. Len(log) \in Nat /\ Len(kept \o delta) = Len(log)
          BY <1>1, <3>1, <4>1
        <4>3. ASSUME NEW i \in 1 .. Len(log) PROVE (kept \o delta)[i] = log[i]
          <5>1. CASE i <= Matching
            <6>1. i \in 1 .. Matching
              BY <3>1, <4>2, <5>1
            <6>2. QED
              BY <3>1, <4>1, <4>2, <5>1, <6>1
          <5>2. CASE i > Matching
            <6>1. i - Matching \in 1 .. Len(log) - Matching /\ Matching + (i - Matching) = i
              BY <3>1, <4>2, <5>2
            <6>2. (kept \o delta)[i] = delta[i - Matching]
              BY <3>1, <4>1, <4>2, <5>2
            <6>3. QED
              BY <3>1, <6>1, <6>2
          <5>3. QED
            BY <3>1, <4>2, <5>1, <5>2
        <4>4. QED
          <5>1. \A i \in 1 .. Len(kept \o delta) : (kept \o delta)[i] = log[i]
            BY <4>2, <4>3
          <5>2. QED
            BY <1>1, <4>1, <4>2, <5>1, SeqEqual
      <3>5. Growing(kept) /\ Growing(delta) /\ <<>> \o delta = delta
        <4>1. Growing(kept \o delta)
          BY <1>2, <3>4
        <4>2. Growing(kept) /\ Growing(delta)
          BY <3>1, <4>1, GrowingConcat
        <4>3. <<>> \o delta = delta
          BY <3>1, ConcatEmptySeq
        <4>4. QED
          BY <4>2, <4>3
      <3>6. \A i \in Range(items') : Summarises(i) \/ i.over \subseteq Range(kept)
        <4> TAKE i \in Range(items')
        <4>1. PICK o \in Ordinals :
                 /\ i = items[o]
                 /\ IsSummary(o) \/ items[o].over \cap gone = {}
          <5>1. PICK o \in DOMAIN ItemsWithout(gone) : i = ItemsWithout(gone)[o]
            BY <2>3 DEF Range
          <5>2. QED
            BY <3>2, <5>1
        <4>2. CASE IsSummary(o)
          BY <4>1, <4>2 DEF Summarises, IsSummary
        <4>3. CASE items[o].over \cap gone = {} /\ ~Summarises(i)
          <5>1. i.over \subseteq Range(rows)
            BY <1>2, <4>1, <4>3 DEF Range, Ordinals
          <5>2. Range(rows) \subseteq Range(kept) \cup gone
            <6> SUFFICES ASSUME NEW k \in 1 .. Len(rows) PROVE rows[k] \in Range(kept) \cup gone
              BY <1>1 DEF Range
            <6>1. CASE k <= Matching
              <7>1. k \in 1 .. Matching /\ DOMAIN kept = 1 .. Matching
                BY <1>1, <3>1, <6>1
              <7>2. rows[k] = kept[k]
                BY <3>1, <7>1
              <7>3. QED
                BY <7>1, <7>2 DEF Range
            <6>2. CASE k > Matching
              <7>1. k \in Matching + 1 .. Len(rows)
                BY <1>1, <3>1, <6>2
              <7>2. QED
                BY <3>1, <7>1
            <6>3. QED
              BY <1>1, <3>1, <6>1, <6>2
          <5>3. QED
            BY <4>1, <4>3, <5>1, <5>2
        <4>4. QED
          BY <4>1, <4>2, <4>3
      <3>7. worker'.mark <= Len(log') /\ Growing(log') /\ Range(log') \subseteq 1 .. said'
        BY <1>1, <1>2, <2>1, <3>3
      <3>8. rows' \o worker'.todo = log /\ worker'.added \o worker'.todo = delta
        BY <2>3, <3>3, <3>4, <3>5
      <3>9. Range(worker'.added) \subseteq Range(rows')
        BY <1>4, <3>3
      <3>10. \A i \in Range(items') : Summarises(i) \/ i.over \subseteq Range(rows')
        BY <2>3, <3>6
      <3>11. QED
        BY <1>2, <2>1, <3>5, <3>7, <3>8, <3>9, <3>10 DEF SeaRows
    <2>4. QED
      BY <2>1, <2>2, <2>3
  <1>25. CASE UNCHANGED seaVars
    <2>1. /\ items' = items /\ log' = log /\ rows' = rows /\ said' = said /\ worker' = worker
      BY <1>25 DEF seaVars
    <2>2. QED
      BY <1>5, <1>6, <2>1
  <1>26. QED
    BY <1>8, <1>9, <1>10, <1>11, <1>13, <1>14, <1>15, <1>16, <1>17, <1>18, <1>19, <1>21, <1>22,
       <1>23, <1>24, <1>25
    DEF SeahorseNext, WorkerStep, Condense
-----------------------------------------------------------------------------
(* Seahorse: what stays true of the context.                                 *)

Depths == \A o \in Ordinals : items[o].depth \in Int

(* A summary takes the place of neighbours: what they stand for is kept, and *)
(* so is the order of the depths.                                            *)
LEMMA SpanReplaced ==
    ASSUME Stored(items), NEW a \in Ordinals, NEW b \in Ordinals, a <= b,
           NEW m \in Nat, a <= m, m <= b, NEW s, s.depth \in Int, Depths,
           items' = Replaced(a, b, m, s),
           Deepest, Distinct, \A o \in Ordinals : items[o] # s,
           \A o \in Ordinals : o < a => items[o].depth >= s.depth,
           \A o \in Ordinals : b <= o => items[o].depth < s.depth,
           UNION {items[o].over : o \in Between(a, b)} \subseteq s.over, s.over \subseteq Covered
    PROVE  /\ Deepest' /\ Distinct' /\ Covered' = Covered
           /\ \A picks : Foremost(picks) /\ s \notin picks => Foremost(picks)'
           /\ m \in Ordinals' /\ items'[m] = s
           /\ \A o \in Ordinals' : o \in Nat /\ (o # m => o \in Ordinals /\ (o < a \/ b < o))
           /\ \A o \in Ordinals : o < a \/ b < o => o \in Ordinals' /\ items'[o] = items[o]
  <1> DEFINE others == {p \in Ordinals : p < a \/ b < p}
  <1>1. Ordinals \subseteq Nat /\ Ordinals' = others \cup {m} /\ m \notin others
    BY DEF Stored, Ordinals, Replaced
  <1>2. items'[m] = s /\ \A o \in others : items'[o] = items[o]
    BY <1>1 DEF Replaced
  <1>3. \A o \in others : o \in Ordinals /\ o \in Nat /\ (o < a \/ b < o)
    BY <1>1
  <1>4. \A o \in Ordinals : o < a \/ b < o => o \in others
    OBVIOUS
  <1>5. \A o \in Ordinals : o \in others \/ o \in Between(a, b)
    BY <1>1 DEF Between
  <1> HIDE DEF others
  <1>6. ASSUME NEW o \in others, NEW picks PROVE (m < o => items[o].depth < s.depth)
                                                 /\ (o < m => items[o].depth >= s.depth)
    <2>0. a \in Nat /\ b \in Nat /\ o \in Nat /\ (o < a \/ b < o)
      BY <1>1, <1>3
    <2>1. m < o => b <= o
      BY <2>0
    <2>2. o < m => o < a
      BY <2>0
    <2>3. QED
      BY <1>3, <2>1, <2>2
  <1>7. Deepest'
    <2> SUFFICES ASSUME NEW o \in others \cup {m}, NEW p \in others \cup {m}, o < p
                 PROVE  items'[o].depth >= items'[p].depth
      BY <1>1 DEF Deepest
    <2>1. CASE o = m /\ p \in others
      <3>1. items[p].depth < s.depth /\ items[p].depth \in Int
        BY <1>3, <1>6, <2>1 DEF Depths
      <3>2. QED
        BY <1>2, <2>1, <3>1
    <2>2. CASE p = m /\ o \in others
      BY <1>2, <1>6, <2>2
    <2>3. CASE o \in others /\ p \in others
      BY <1>2, <1>3, <2>3 DEF Deepest
    <2>4. QED
      BY <1>1, <2>1, <2>2, <2>3
  <1>8. Distinct'
    <2> SUFFICES ASSUME NEW o \in others \cup {m}, NEW p \in others \cup {m},
                        items'[o] = items'[p], items'[o].depth # MessageDepth
                 PROVE  o = p
      BY <1>1 DEF Distinct, IsSummary
    <2>1. CASE o = m /\ p \in others
      BY <1>2, <1>3, <2>1
    <2>2. CASE p = m /\ o \in others
      BY <1>2, <1>3, <2>2
    <2>3. CASE o \in others /\ p \in others
      BY <1>2, <1>3, <2>3 DEF Distinct, IsSummary
    <2>4. QED
      BY <2>1, <2>2, <2>3
  <1>9. Covered' = Covered
    <2>1. Covered' = UNION {items'[o].over : o \in others \cup {m}}
      BY <1>1 DEF Covered
    <2>2. ASSUME NEW n \in Covered PROVE n \in Covered'
      <3>1. PICK o \in Ordinals : n \in items[o].over
        BY DEF Covered
      <3>2. CASE o \in others
        BY <1>2, <2>1, <3>1, <3>2
      <3>3. CASE o \in Between(a, b)
        <4>1. n \in s.over
          BY <3>1, <3>3
        <4>2. QED
          BY <1>2, <2>1, <4>1
      <3>4. QED
        BY <1>5, <3>2, <3>3
    <2>3. ASSUME NEW n \in Covered' PROVE n \in Covered
      <3>1. PICK o \in others \cup {m} : n \in items'[o].over
        BY <2>1
      <3>2. CASE o = m
        BY <1>2, <3>1, <3>2
      <3>3. CASE o \in others
        BY <1>2, <1>3, <3>1, <3>3 DEF Covered
      <3>4. QED
        BY <3>2, <3>3
    <2>4. QED
      BY <2>2, <2>3
  <1>10. ASSUME NEW picks, Foremost(picks), s \notin picks PROVE Foremost(picks)'
    <2> SUFFICES ASSUME NEW o \in others \cup {m}, NEW p \in others \cup {m}, o < p,
                        items'[o].depth = items'[p].depth, items'[p] \in picks
                 PROVE  items'[o] \in picks
      BY <1>1, <1>10 DEF Foremost
    <2>1. p \in others
      BY <1>2, <1>10
    <2>2. CASE o = m
      <3>1. items[p].depth < s.depth /\ items[p].depth \in Int
        BY <1>3, <1>6, <2>1, <2>2 DEF Depths
      <3>2. QED
        BY <1>2, <2>1, <2>2, <3>1
    <2>3. CASE o \in others
      BY <1>2, <1>3, <1>10, <2>1, <2>3 DEF Foremost
    <2>4. QED
      BY <2>2, <2>3
  <1>11. \A o \in Ordinals' : o \in Nat /\ (o # m => o \in Ordinals /\ (o < a \/ b < o))
    BY <1>1, <1>3
  <1>12. \A o \in Ordinals : o < a \/ b < o => o \in Ordinals' /\ items'[o] = items[o]
    BY <1>1, <1>2, <1>4
  <1>13. QED
    BY <1>1, <1>2, <1>7, <1>8, <1>9, <1>10, <1>11, <1>12

(* Nothing is shared or out of order that was not before.                    *)
LEMMA SpanKeepsApart ==
    ASSUME Ordinals \subseteq Nat, NEW a \in Ordinals, NEW b \in Ordinals, a <= b,
           NEW m \in Nat, a <= m, m <= b, NEW s,
           m \in Ordinals', items'[m] = s,
           \A o \in Ordinals' : o \in Nat /\ (o # m => o \in Ordinals /\ (o < a \/ b < o)),
           \A o \in Ordinals : o < a \/ b < o => o \in Ordinals' /\ items'[o] = items[o],
           s.over = UNION {items[o].over : o \in Between(a, b)}, again' = again
    PROVE  (Apart => Apart') /\ (Sorted => Sorted')
  <1>0. a \in Nat /\ b \in Nat
    OBVIOUS
  <1>1. \A o \in Between(a, b) : o \in Ordinals /\ o \in Nat /\ a <= o /\ o <= b
    BY DEF Between
  <1>2. ASSUME NEW n \in s.over PROVE \E o \in Between(a, b) : n \in items[o].over
    OBVIOUS
  <1>3. ASSUME Apart PROVE Apart'
    <2> SUFFICES ASSUME NEW o \in Ordinals', NEW p \in Ordinals', o # p,
                        NEW n \in items'[o].over \cap items'[p].over
                 PROVE  n \in again
      BY DEF Apart
    <2>1. ASSUME NEW q \in Ordinals', q # m, n \in items'[q].over, n \in s.over PROVE n \in again
      <3>1. PICK r \in Between(a, b) : n \in items[r].over
        BY <1>2, <2>1
      <3>2. q \in Ordinals /\ q # r /\ r \in Ordinals /\ n \in items[q].over
        BY <1>1, <2>1
      <3>3. QED
        BY <1>3, <3>1, <3>2 DEF Apart
    <2>2. CASE o = m
      BY <2>1, <2>2
    <2>3. CASE p = m
      BY <2>1, <2>3
    <2>4. CASE o # m /\ p # m
      <3>1. o \in Ordinals /\ p \in Ordinals /\ items'[o] = items[o] /\ items'[p] = items[p]
        BY <2>4
      <3>2. QED
        BY <1>3, <3>1 DEF Apart
    <2>5. QED
      BY <2>2, <2>3, <2>4
  <1>4. ASSUME Sorted PROVE Sorted'
    <2> SUFFICES ASSUME NEW o \in Ordinals', NEW p \in Ordinals', o < p,
                        NEW k \in items'[o].over, NEW n \in items'[p].over
                 PROVE  k < n
      BY DEF Sorted
    <2>1. CASE o = m
      <3>1. PICK r \in Between(a, b) : k \in items[r].over
        BY <1>2, <2>1
      <3>2. p \in Ordinals /\ b < p /\ items'[p] = items[p]
        BY <2>1
      <3>3. r \in Ordinals /\ r < p
        <4>1. r \in Ordinals /\ r \in Nat /\ r <= b /\ p \in Nat
          BY <1>1
        <4>2. QED
          BY <1>0, <3>2, <4>1
      <3>4. QED
        BY <1>4, <3>1, <3>2, <3>3 DEF Sorted
    <2>2. CASE p = m
      <3>1. PICK r \in Between(a, b) : n \in items[r].over
        BY <1>2, <2>2
      <3>2. o \in Ordinals /\ o < a /\ items'[o] = items[o]
        BY <2>2
      <3>3. r \in Ordinals /\ o < r
        <4>1. r \in Ordinals /\ r \in Nat /\ a <= r /\ o \in Nat
          BY <1>1
        <4>2. QED
          BY <1>0, <3>2, <4>1
      <3>4. QED
        BY <1>4, <3>1, <3>2, <3>3 DEF Sorted
    <2>3. CASE o # m /\ p # m
      <3>1. o \in Ordinals /\ p \in Ordinals /\ items'[o] = items[o] /\ items'[p] = items[p]
        BY <2>3
      <3>2. QED
        BY <1>4, <3>1 DEF Sorted
    <2>4. QED
      BY <2>1, <2>2, <2>3
  <1>5. QED
    BY <1>3, <1>4
(* /clear puts away what was said, and what is said or added later is new.   *)
LEMMA WipedStep ==
    ASSUME SeahorseAssumption, SeaInv, [SeahorseNext]_seaVars
    PROVE  Wiped'
  <1> USE DEF TurnSame, RowsSame, CondenserSame, CountersSame, GhostsSame
  <1>0. SeaTypes /\ SeaRows /\ Wiped
    BY DEF SeaInv
  <1>18. /\ worker \in WorkerRecord /\ log \in Seq(MessageIds) /\ rows \in Seq(MessageIds)
         /\ wiped \subseteq 1 .. said /\ said \in 0 .. MaxSaid /\ MaxSaid \in Nat
    BY <1>0 DEF SeaTypes, SeahorseAssumption
  <1>19. worker.todo \in Seq(MessageIds) /\ worker.added \in Seq(MessageIds)
    BY <1>18 DEF WorkerRecord
  <1>20. said \in Nat
    BY <1>18
  <1>1. /\ worker \in WorkerRecord /\ log \in Seq(MessageIds) /\ rows \in Seq(MessageIds)
        /\ worker.todo \in Seq(MessageIds) /\ worker.added \in Seq(MessageIds)
        /\ said \in Nat /\ wiped \subseteq 1 .. said
    BY <1>18, <1>19, <1>20
  <1>2. Range(<<>>) = {}
    BY DEF Range
  <1>3. AtRest.todo = <<>> /\ AtRest.added = <<>>
    BY DEF AtRest
  <1>4. ASSUME wiped' = wiped, Range(log') \subseteq Range(log), Pending' \subseteq Pending
        PROVE  Wiped'
    BY <1>0, <1>4 DEF Wiped
  <1>5. ASSUME worker'.todo = <<>>, worker'.added = <<>> PROVE Pending' = {}
    BY <1>2, <1>5 DEF Pending
  <1>6. ASSUME worker'.todo = worker.todo, worker'.added = worker.added PROVE Pending' = Pending
    BY <1>6 DEF Pending
  <1>7. CASE TurnBegins \/ TurnEnds \/ TurnAborts
    <2>1. wiped' = wiped
      BY <1>7 DEF TurnBegins, TurnEnds, TurnAborts
    <2>2. Range(log') \subseteq Range(log)
      <3>1. CASE TurnBegins \/ TurnEnds
        BY <3>1 DEF TurnBegins, TurnEnds
      <3>2. CASE TurnAborts
        <4>1. worker.mark \in Nat /\ worker.mark <= Len(log) /\ Growing(log)
          BY <1>0, <1>1 DEF WorkerRecord, SeaRows
        <4>2. Range(SubSeq(log, 1, worker.mark)) \subseteq Range(log)
          BY <1>1, <4>1, GrowingStart
        <4>3. QED
          BY <3>2, <4>2 DEF TurnAborts
      <3>3. QED
        BY <1>7, <3>1, <3>2
    <2>3. worker'.todo = <<>> /\ worker'.added = <<>>
      <3>1. CASE TurnBegins
        <4>1. PICK n : n = Len(log)
          OBVIOUS
        <4>2. worker' = [AtRest EXCEPT !.at = "on", !.mark = n]
          BY <3>1, <4>1 DEF TurnBegins
        <4>3. QED
          BY <4>2 DEF AtRest
      <3>2. CASE TurnEnds \/ TurnAborts
        BY <1>3, <3>2 DEF TurnEnds, TurnAborts
      <3>3. QED
        BY <1>7, <3>1, <3>2
    <2>4. QED
      BY <1>4, <1>5, <2>1, <2>2, <2>3
  <1>8. CASE Say
    <2>1. /\ said' = said + 1 /\ said < MaxSaid /\ log' = Append(log, said + 1) /\ wiped' = wiped
          /\ worker'.todo = <<said + 1>> /\ worker'.added = worker.added /\ MaxSaid \in Nat
      BY <1>1, <1>8 DEF Say, WorkerRecord, SeahorseAssumption
    <2>2. PICK x \in MessageIds : x = said + 1
      BY <1>1, <2>1 DEF MessageIds
    <2>3. PICK t \in Seq(MessageIds) : t = <<x>> /\ Range(t) = {x}
      BY RangeOfOne
    <2>4. Range(log') = Range(log) \cup {x}
      <3>1. Append(log, x) = log \o t
        BY <1>1, <2>3
      <3>2. Range(log \o t) = Range(log) \cup Range(t)
        BY <1>1, RangeOfConcat
      <3>3. QED
        BY <2>1, <2>2, <2>3, <3>1, <3>2
    <2>5. Pending' \subseteq Pending \cup {x}
      BY <2>1, <2>2, <2>3 DEF Pending
    <2>6. x \notin wiped
      BY <1>1, <2>2
    <2>7. QED
      BY <1>0, <2>1, <2>4, <2>5, <2>6 DEF Wiped
  <1>9. CASE AddRow
    <2>1. /\ worker.todo # <<>> /\ worker'.todo = Tail(worker.todo)
          /\ worker'.added = Append(worker.added, Head(worker.todo))
          /\ log' = log /\ wiped' = wiped
      BY <1>1, <1>9 DEF AddRow, WorkerRecord
    <2>2. /\ Range(Append(worker.added, Head(worker.todo))) = Range(worker.added) \cup {Head(worker.todo)}
          /\ Range(worker.todo) = Range(Tail(worker.todo)) \cup {Head(worker.todo)}
      BY <1>1, <2>1, HeadMoved
    <2>3. Pending' = Pending
      BY <2>1, <2>2 DEF Pending
    <2>4. QED
      BY <1>4, <2>1, <2>3
  <1>10. CASE AppendItems \/ IngestFails
    <2>1. worker' = Ingested /\ wiped' = wiped /\ log' = log
      BY <1>10 DEF AppendItems, IngestFails
    <2>2. worker'.todo = <<>> /\ worker'.added = <<>>
      BY <1>1, <2>1 DEF Ingested, WorkerRecord
    <2>3. QED
      BY <1>4, <1>5, <2>1, <2>2
  <1>11. CASE \/ CompactBegins \/ CompactSkipsLeaf \/ LeafEnds \/ LeafFails \/ Launch \/ Overflow
              \/ UnderLeaf \/ UnderCondenses \/ UnderReturns \/ ClearTables
    <2>1. wiped' = wiped /\ log' = log
      BY <1>11 DEF CompactBegins, CompactSkipsLeaf, LeafEnds, LeafFails, Launch, Overflow,
           UnderLeaf, LeafBegins, UnderCondenses, UnderReturns, ClearTables
    <2>2. worker'.todo = worker.todo /\ worker'.added = worker.added
      <3>1. CASE CompactBegins \/ UnderLeaf
        BY <1>1, <3>1 DEF CompactBegins, UnderLeaf, LeafBegins, WorkerRecord
      <3>2. CASE LeafEnds \/ LeafFails
        BY <1>1, <3>2 DEF LeafEnds, LeafFails, WorkerRecord
      <3>3. CASE \/ CompactSkipsLeaf \/ Launch \/ Overflow \/ UnderCondenses \/ UnderReturns
                 \/ ClearTables
        <4>1. PICK at : worker' = [worker EXCEPT !.at = at]
          BY <3>3 DEF CompactSkipsLeaf, Launch, Overflow, UnderCondenses, UnderReturns, ClearTables
        <4>2. QED
          BY <1>1, <4>1 DEF WorkerRecord
      <3>4. QED
        BY <1>11, <3>1, <3>2, <3>3
    <2>3. QED
      BY <1>4, <1>6, <2>1, <2>2
  <1>12. CASE ClearFile
    <2>1. worker' = AtRest /\ log' = <<>>
      BY <1>12 DEF ClearFile
    <2>2. Range(log') = {}
      BY <1>2, <2>1
    <2>3. Pending' = {}
      BY <1>3, <1>5, <2>1
    <2>4. QED
      BY <2>2, <2>3 DEF Wiped
  <1>13. ASSUME NEW c \in Condensers, Condense(c) PROVE Wiped'
    <2>1. wiped' = wiped /\ log' = log
      BY <1>13 DEF Condense, Pick, GiveUp, Reread, Swap
    <2>2. (\E at : BackTo(c, at)) \/ worker' = worker
      BY <1>13 DEF Condense, Pick, GiveUp, Reread, Swap
    <2>3. worker'.todo = worker.todo /\ worker'.added = worker.added
      BY <1>1, <2>2 DEF BackTo, WorkerRecord
    <2>4. QED
      BY <1>4, <1>6, <2>1, <2>3
  <1>14. CASE SeahorseCrash
    <2>1. worker' = [AtRest EXCEPT !.at = "boot"] /\ wiped' = wiped /\ log' = log
      BY <1>14 DEF SeahorseCrash
    <2>2. worker'.todo = <<>> /\ worker'.added = <<>>
      BY <2>1 DEF AtRest
    <2>3. QED
      BY <1>4, <1>5, <2>1, <2>2
  <1>15. CASE Bootstrap
    <2> DEFINE delta == SubSeq(log, Matching + 1, Len(log))
    <2>1. /\ wiped' = wiped /\ log' = log
          /\ worker' = AtRest \/ worker' = [AtRest EXCEPT !.at = "rows", !.todo = delta]
      BY <1>15 DEF Bootstrap
    <2>2. CASE worker' = AtRest
      BY <1>3, <1>4, <1>5, <2>1, <2>2
    <2>3. CASE worker' = [AtRest EXCEPT !.at = "rows", !.todo = delta]
      <3>1. /\ Matching \in 0 .. Len(log)
            /\ delta \in Seq(MessageIds) /\ Len(delta) = Len(log) - Matching
            /\ \A i \in 1 .. Len(log) - Matching : delta[i] = log[Matching + i]
        BY <1>1, MatchingRows
      <3> HIDE DEF delta
      <3>2. Range(delta) \subseteq Range(log)
        <4> SUFFICES ASSUME NEW i \in 1 .. Len(log) - Matching PROVE delta[i] \in Range(log)
          BY <3>1 DEF Range
        <4>1. Len(log) \in Nat /\ DOMAIN log = 1 .. Len(log)
          BY <1>1
        <4>2. Matching + i \in 1 .. Len(log)
          BY <3>1, <4>1
        <4>3. QED
          BY <3>1, <4>1, <4>2 DEF Range
      <3>3. worker'.todo = delta /\ worker'.added = <<>>
        BY <2>3 DEF AtRest
      <3>4. Pending' = Range(delta)
        BY <1>2, <3>3 DEF Pending
      <3>5. QED
        BY <1>0, <2>1, <3>2, <3>4 DEF Wiped
    <2>4. QED
      BY <2>1, <2>2, <2>3
  <1>16. CASE UNCHANGED seaVars
    BY <1>4, <1>6, <1>16 DEF seaVars
  <1>17. QED
    BY <1>7, <1>8, <1>9, <1>10, <1>11, <1>12, <1>13, <1>14, <1>15, <1>16
    DEF SeahorseNext, WorkerStep
(* A step that leaves the items alone, and in which no condenser goes on     *)
(* towards a replacement.                                                    *)
LEMMA QuietStep ==
    ASSUME SeaInv, items' = items, again' = again, overlap' = overlap, clash' = clash,
           \A c \in Condensers :
              \/ condenser'[c] = condenser[c]
              \/ condenser'[c].at \in {"off", "pick"} /\ ~condenser'[c].each,
           \A n \in Pending' : n \in Pending \/ \A m \in Covered : m < n /\ m # n,
           worker'.at \in {"leaf", "clearing"} =>
              \/ /\ worker'.at = worker.at /\ worker'.span = worker.span
                 /\ worker'.over = worker.over /\ rows' = rows
              \/ worker'.at = "leaf" /\ (~clash => Leafing'),
           ~clash => /\ Covered \cap wiped' = {}
                     /\ worker'.at = "boot" => rows' = <<>> \/ Range(log') \subseteq Covered \cup missed'
                     /\ worker'.at \notin {"boot", "clearing"} =>
                           Range(log') \subseteq Covered \cup missed' \cup Pending'
    PROVE  Clean' /\ Single' /\ InOrder'
  <1>1. Ordinals' = Ordinals /\ Covered' = Covered
    BY DEF Ordinals, Covered
  <1>2. Clean'
    <2> SUFFICES ASSUME ~clash'
                 PROVE  /\ Deepest' /\ Distinct' /\ Leafing' /\ Emptied' /\ Complete'
                        /\ Covered' \cap wiped' = {}
                        /\ \A c \in Condensers : ~condenser'[c].each /\ Waiting(c)'
      BY DEF Clean
    <2>1. /\ Deepest /\ Distinct /\ Leafing /\ Emptied /\ Complete
          /\ \A c \in Condensers : ~condenser[c].each /\ Waiting(c)
      BY DEF SeaInv, Clean
    <2>2. Deepest' /\ Distinct'
      BY <1>1, <2>1 DEF Deepest, Distinct, IsSummary
    <2>3. Leafing'
      <3> SUFFICES ASSUME worker'.at = "leaf", worker'.span = worker.span,
                          worker'.over = worker.over, worker.at = "leaf"
                   PROVE  /\ {worker'.span[1], worker'.span[2]} \subseteq Ordinals
                          /\ worker'.span[1] <= worker'.span[2]
                          /\ \A o \in Ordinals : o <= worker'.span[2] =>
                                (IsSummary(o)' <=> o < worker'.span[1])
                          /\ worker'.over = UNION {items'[o].over : o \in Between(worker'.span[1], worker'.span[2])}
        BY <1>1 DEF Leafing, Between
      <3>1. worker.at = "leaf" /\ worker'.span = worker.span /\ worker'.over = worker.over
        OBVIOUS
      <3>2. \A o \in Ordinals : IsSummary(o)' <=> IsSummary(o)
        BY DEF IsSummary
      <3>3. QED
        BY <2>1, <3>1, <3>2 DEF Leafing
    <2>4. Emptied'
      <3>1. CASE worker'.at = "clearing"
        <4>1. /\ Ordinals = {} /\ rows = <<>> /\ rows' = rows
              /\ \A c \in Condensers : condenser[c].at = "swap" => condenser[c].moved
          BY <2>1, <3>1 DEF Emptied
        <4>2. \A c \in Condensers : condenser'[c].at = "swap" => condenser'[c].moved
          BY <4>1
        <4>3. QED
          BY <1>1, <4>1, <4>2 DEF Emptied
      <3>2. QED
        BY <3>1 DEF Emptied
    <2>5. Complete'
      BY <1>1 DEF Complete
    <2>6. ASSUME NEW c \in Condensers PROVE ~condenser'[c].each /\ Waiting(c)'
      <3>1. CASE condenser'[c] = condenser[c]
        <4>1. Waiting(c) /\ ~condenser[c].each
          BY <2>1
        <4>2. Waiting(c)'
          BY <1>1, <3>1, <4>1 DEF Waiting, Foremost
        <4>3. QED
          BY <3>1, <4>1, <4>2
      <3>2. CASE condenser'[c].at \in {"off", "pick"} /\ ~condenser'[c].each
        BY <3>2 DEF Waiting
      <3>3. QED
        BY <3>1, <3>2
    <2>7. QED
      BY <1>1, <2>2, <2>3, <2>4, <2>5, <2>6
  <1>3. Single'
    <2> SUFFICES ASSUME ~clash, ~overlap
                 PROVE  /\ \A c, d \in Condensers :
                              c # d /\ condenser'[c].at \in {"llm", "swap"} =>
                                 condenser'[d].at \in {"off", "pick"}
                        /\ Apart' /\ Pending' \cap Covered' \subseteq again'
                        /\ \A c \in Condensers :
                              /\ condenser'[c].at = "llm" =>
                                    \/ condenser'[c].picks \subseteq Range(items')
                                    \/ condenser'[c].picks \cap Range(items') = {}
                              /\ condenser'[c].at = "swap" /\ ~condenser'[c].moved =>
                                    condenser'[c].picks \subseteq Range(items')
      BY DEF Single
    <2>1. /\ \A c, d \in Condensers :
                c # d /\ condenser[c].at \in {"llm", "swap"} => condenser[d].at \in {"off", "pick"}
          /\ Apart /\ Pending \cap Covered \subseteq again
          /\ \A c \in Condensers :
                /\ condenser[c].at = "llm" => \/ condenser[c].picks \subseteq Range(items)
                                              \/ condenser[c].picks \cap Range(items) = {}
                /\ condenser[c].at = "swap" /\ ~condenser[c].moved =>
                      condenser[c].picks \subseteq Range(items)
      BY DEF SeaInv, Single
    <2>2. Apart'
      BY <1>1, <2>1 DEF Apart
    <2>3. Pending' \cap Covered' \subseteq again'
      BY <1>1, <2>1
    <2>4. Range(items') = Range(items)
      OBVIOUS
    <2>5. ASSUME NEW c \in Condensers, NEW d \in Condensers, c # d,
                 condenser'[c].at \in {"llm", "swap"}
          PROVE  condenser'[d].at \in {"off", "pick"}
      <3>1. condenser[c].at \in {"llm", "swap"}
        BY <2>5
      <3>2. condenser[d].at \in {"off", "pick"}
        BY <2>1, <2>5, <3>1
      <3>3. QED
        BY <3>2
    <2>6. ASSUME NEW c \in Condensers
          PROVE  /\ condenser'[c].at = "llm" => \/ condenser'[c].picks \subseteq Range(items')
                                                \/ condenser'[c].picks \cap Range(items') = {}
                 /\ condenser'[c].at = "swap" /\ ~condenser'[c].moved =>
                       condenser'[c].picks \subseteq Range(items')
      BY <2>1, <2>4
    <2>7. QED
      BY <2>2, <2>3, <2>5, <2>6
  <1>4. InOrder'
    <2> SUFFICES ASSUME ~clash, ~overlap, again = {}
                 PROVE  Sorted' /\ \A m \in Covered', n \in Pending' : m < n
      BY DEF InOrder
    <2>1. Sorted /\ \A m \in Covered, n \in Pending : m < n
      BY DEF SeaInv, InOrder
    <2>2. Sorted'
      BY <1>1, <2>1 DEF Sorted
    <2>3. QED
      BY <1>1, <2>1, <2>2
  <1>5. QED
    BY <1>2, <1>3, <1>4

(* The actions that write no context item and choose none.                   *)
LEMMA QuietActions ==
    ASSUME SeahorseAssumption, SeaInv,
           \/ TurnBegins \/ TurnEnds \/ TurnAborts \/ Say \/ AddRow \/ IngestFails
           \/ CompactSkipsLeaf \/ LeafFails \/ Launch \/ Overflow \/ UnderCondenses \/ UnderReturns
           \/ ClearFile \/ SeahorseCrash \/ UNCHANGED seaVars
    PROVE  Clean' /\ Single' /\ InOrder'
  <1> USE DEF TurnSame, RowsSame, CondenserSame, CountersSame, GhostsSame
  <1>0. SeaTypes /\ SeaPlaces /\ SeaRows /\ SeaNames
    BY DEF SeaInv
  <1>20. condenser \in [Condensers -> CondenserRecord]
    BY <1>0 DEF SeaTypes
  <1>21. /\ worker \in WorkerRecord /\ log \in Seq(MessageIds) /\ rows \in Seq(MessageIds)
         /\ said \in 0 .. MaxSaid /\ MaxSaid \in Nat
    BY <1>0 DEF SeaTypes, SeahorseAssumption
  <1>22. worker.todo \in Seq(MessageIds) /\ worker.added \in Seq(MessageIds)
    BY <1>21 DEF WorkerRecord
  <1>1. /\ worker \in WorkerRecord /\ condenser \in [Condensers -> CondenserRecord]
        /\ log \in Seq(MessageIds) /\ rows \in Seq(MessageIds)
        /\ worker.todo \in Seq(MessageIds) /\ worker.added \in Seq(MessageIds) /\ said \in Nat
    BY <1>20, <1>21, <1>22
  <1>2. Range(<<>>) = {} /\ AtRest.todo = <<>> /\ AtRest.added = <<>> /\ AtRest.at = "idle"
    BY DEF Range, AtRest
  <1>3. ~clash => /\ Covered \cap wiped = {}
                  /\ worker.at = "boot" => rows = <<>> \/ Range(log) \subseteq Covered \cup missed
                  /\ worker.at \notin {"boot", "clearing"} =>
                        Range(log) \subseteq Covered \cup missed \cup Pending
                  /\ worker.at = "clearing" => Ordinals = {} /\ rows = <<>>
    BY DEF SeaInv, Clean, Complete, Emptied
  <1>4. worker.at # "rows" => Pending = {}
    BY <1>0, <1>2 DEF SeaPlaces, Pending
  <1>5. ASSUME worker'.todo = <<>>, worker'.added = <<>> PROVE Pending' = {}
    BY <1>2, <1>5 DEF Pending
  <1>6. ASSUME worker'.todo = worker.todo, worker'.added = worker.added PROVE Pending' = Pending
    BY <1>6 DEF Pending
  (* The history loses nothing but what is in the context or missed. *)
  <1>7. ASSUME items' = items, again' = again, overlap' = overlap, clash' = clash, wiped' = wiped,
               \A c \in Condensers : \/ condenser'[c] = condenser[c]
                                     \/ condenser'[c].at \in {"off", "pick"} /\ ~condenser'[c].each,
               worker.at \notin {"boot", "clearing"}, worker'.at \notin {"boot", "clearing", "leaf"},
               Range(log') \subseteq Range(log), missed' = missed, Pending' = Pending
        PROVE  Clean' /\ Single' /\ InOrder'
    <2>1. ~clash => Range(log') \subseteq Covered \cup missed' \cup Pending' /\ Covered \cap wiped' = {}
      BY <1>3, <1>7
    <2>2. QED
      BY <1>7, <2>1, QuietStep
  <1>8. CASE TurnBegins
    <2>1. PICK n : n = Len(log)
      OBVIOUS
    <2>2. /\ worker' = [AtRest EXCEPT !.at = "on", !.mark = n] /\ worker.at = "idle"
          /\ items' = items /\ again' = again /\ overlap' = overlap /\ clash' = clash
          /\ wiped' = wiped /\ condenser' = condenser /\ log' = log /\ missed' = missed
      BY <1>8, <2>1 DEF TurnBegins
    <2>3. worker'.at = "on" /\ worker'.todo = <<>> /\ worker'.added = <<>>
      BY <2>2 DEF AtRest
    <2>4. Pending' = Pending
      BY <1>4, <1>5, <2>2, <2>3
    <2>5. QED
      BY <1>7, <2>2, <2>3, <2>4
  <1>9. CASE TurnEnds \/ TurnAborts
    <2>1. /\ worker' = AtRest /\ worker.at = "on"
          /\ items' = items /\ again' = again /\ overlap' = overlap /\ clash' = clash
          /\ wiped' = wiped /\ condenser' = condenser /\ missed' = missed
      BY <1>9 DEF TurnEnds, TurnAborts
    <2>2. Range(log') \subseteq Range(log)
      <3>1. CASE TurnEnds
        BY <3>1 DEF TurnEnds
      <3>2. CASE TurnAborts
        <4>1. worker.mark \in Nat /\ worker.mark <= Len(log) /\ Growing(log)
          BY <1>0, <1>1 DEF WorkerRecord, SeaRows
        <4>2. Range(SubSeq(log, 1, worker.mark)) \subseteq Range(log)
          BY <1>1, <4>1, GrowingStart
        <4>3. QED
          BY <3>2, <4>2 DEF TurnAborts
      <3>3. QED
        BY <1>9, <3>1, <3>2
    <2>3. Pending' = Pending
      BY <1>2, <1>4, <1>5, <2>1
    <2>4. QED
      BY <1>2, <1>7, <2>1, <2>2, <2>3
  <1>10. CASE Say
    <2>1. /\ worker.at = "on" /\ worker'.at = "rows" /\ log' = Append(log, said + 1)
          /\ worker'.todo = <<said + 1>> /\ worker'.added = worker.added
          /\ items' = items /\ again' = again /\ overlap' = overlap /\ clash' = clash
          /\ wiped' = wiped /\ condenser' = condenser /\ missed' = missed
          /\ said < MaxSaid /\ MaxSaid \in Nat
      BY <1>1, <1>10 DEF Say, WorkerRecord, SeahorseAssumption
    <2>2. PICK x \in MessageIds : x = said + 1
      BY <1>1, <2>1 DEF MessageIds
    <2>3. PICK t \in Seq(MessageIds) : t = <<x>> /\ Range(t) = {x}
      BY RangeOfOne
    <2>4. Range(log') = Range(log) \cup {x}
      <3>1. Append(log, x) = log \o t
        <4>1. log \in Seq(MessageIds) /\ x \in MessageIds /\ t = <<x>>
          BY <1>1, <2>3
        <4>2. QED
          BY <4>1
      <3>2. Range(log \o t) = Range(log) \cup Range(t)
        BY <1>1, RangeOfConcat
      <3>3. QED
        BY <2>1, <2>2, <2>3, <3>1, <3>2
    <2>5. Pending' = {x}
      <3>1. worker.added = <<>>
        BY <1>0, <2>1 DEF SeaPlaces
      <3>2. QED
        BY <1>2, <2>1, <2>2, <2>3, <3>1 DEF Pending
    <2>6. \A m \in Covered : m < x /\ m # x
      <3>1. \A o \in Ordinals : items[o].over \subseteq 1 .. said
        BY <1>0 DEF SeaNames, Known, Range, Ordinals, Fits
      <3>2. Covered \subseteq 1 .. said
        BY <3>1 DEF Covered
      <3>3. QED
        BY <1>1, <2>2, <3>2
    <2>7. ~clash => Range(log') \subseteq Covered \cup missed' \cup Pending' /\ Covered \cap wiped' = {}
      BY <1>3, <1>4, <2>1, <2>4, <2>5
    <2>8. \A n \in Pending' : n \in Pending \/ \A m \in Covered : m < n /\ m # n
      BY <2>5, <2>6
    <2>9. QED
      BY <2>1, <2>7, <2>8, QuietStep
  <1>11. CASE AddRow
    <2>1. /\ worker.at = "rows" /\ worker'.at = "rows" /\ worker.todo # <<>>
          /\ worker'.todo = Tail(worker.todo)
          /\ worker'.added = Append(worker.added, Head(worker.todo))
          /\ items' = items /\ again' = again /\ overlap' = overlap /\ clash' = clash
          /\ wiped' = wiped /\ condenser' = condenser /\ log' = log /\ missed' = missed
      BY <1>1, <1>11 DEF AddRow, WorkerRecord
    <2>2. /\ Range(Append(worker.added, Head(worker.todo))) = Range(worker.added) \cup {Head(worker.todo)}
          /\ Range(worker.todo) = Range(Tail(worker.todo)) \cup {Head(worker.todo)}
      BY <1>1, <2>1, HeadMoved
    <2>3. Pending' = Pending
      BY <2>1, <2>2 DEF Pending
    <2>4. QED
      BY <1>7, <2>1, <2>3
  <1>12. CASE IngestFails
    <2>1. /\ worker.at = "rows" /\ worker' = Ingested /\ missed' = missed \cup Pending
          /\ items' = items /\ again' = again /\ overlap' = overlap /\ clash' = clash
          /\ wiped' = wiped /\ condenser' = condenser /\ log' = log
      BY <1>12 DEF IngestFails
    <2>2. /\ worker'.at \in {"idle", "on", "launch", "under"}
          /\ worker'.todo = <<>> /\ worker'.added = <<>>
      BY <1>1, <2>1 DEF Ingested, WorkerRecord
    <2>3. Pending' = {}
      BY <1>5, <2>2
    <2>4. ~clash => Range(log') \subseteq Covered \cup missed' \cup Pending' /\ Covered \cap wiped' = {}
      BY <1>3, <2>1
    <2>5. QED
      BY <2>1, <2>2, <2>3, <2>4, QuietStep
  <1>13. CASE CompactSkipsLeaf \/ LeafFails \/ Overflow \/ UnderReturns
    <2>1. /\ worker.at \in {"on", "leaf", "under"}
          /\ items' = items /\ again' = again /\ overlap' = overlap /\ clash' = clash
          /\ wiped' = wiped /\ condenser' = condenser /\ log' = log /\ missed' = missed
      BY <1>13 DEF CompactSkipsLeaf, LeafFails, Overflow, UnderReturns
    <2>2. worker'.at \in {"on", "launch", "under"} /\ worker'.todo = worker.todo
          /\ worker'.added = worker.added
      <3>1. CASE LeafFails
        BY <1>1, <3>1 DEF LeafFails, WorkerRecord
      <3>2. CASE CompactSkipsLeaf \/ Overflow \/ UnderReturns
        <4>1. PICK at \in {"on", "launch", "under"} : worker' = [worker EXCEPT !.at = at]
          BY <3>2 DEF CompactSkipsLeaf, Overflow, UnderReturns
        <4>2. QED
          BY <1>1, <4>1 DEF WorkerRecord
      <3>3. QED
        BY <1>13, <3>1, <3>2
    <2>3. QED
      BY <1>6, <1>7, <2>1, <2>2
  <1>14. CASE Launch \/ UnderCondenses
    <2>1. /\ worker.at \in {"launch", "under"}
          /\ items' = items /\ again' = again /\ overlap' = overlap /\ clash' = clash
          /\ wiped' = wiped /\ log' = log /\ missed' = missed
      BY <1>14 DEF Launch, UnderCondenses
    <2>2. PICK at \in {"on", "condense"} : worker' = [worker EXCEPT !.at = at]
      BY <1>14 DEF Launch, UnderCondenses
    <2>3. worker'.at \in {"on", "condense"} /\ worker'.todo = worker.todo
          /\ worker'.added = worker.added
      BY <1>1, <2>2 DEF WorkerRecord
    <2>4. \A c \in Condensers : \/ condenser'[c] = condenser[c]
                                \/ condenser'[c].at \in {"off", "pick"} /\ ~condenser'[c].each
      <3>1. CASE condenser' = condenser
        BY <3>1
      <3>2. CASE condenser' # condenser
        <4>1. PICK d \in Condensers : /\ condenser[d].at = "off"
                                      /\ condenser' = [condenser EXCEPT ![d].at = "pick"]
          <5>1. CASE Launch
            BY <3>2, <5>1 DEF Launch, Condensers
          <5>2. CASE UnderCondenses
            <6>1. worker.at = "under" /\ condenser' = [condenser EXCEPT !["worker"].at = "pick"]
              BY <5>2 DEF UnderCondenses
            <6>2. condenser["worker"].at = "off"
              BY <1>0, <6>1 DEF SeaPlaces
            <6>3. QED
              BY <6>1, <6>2 DEF Condensers
          <5>3. QED
            BY <1>14, <5>1, <5>2
        <4>2. /\ condenser'[d] = [condenser[d] EXCEPT !.at = "pick"]
              /\ \A c \in Condensers \ {d} : condenser'[c] = condenser[c]
          BY <1>1, <4>1
        <4>3. condenser[d] \in CondenserRecord /\ ~condenser[d].each
          BY <1>0, <1>1, <4>1 DEF SeaPlaces
        <4>4. condenser'[d].at = "pick" /\ ~condenser'[d].each
          BY <4>2, <4>3 DEF CondenserRecord
        <4>5. QED
          BY <4>2, <4>4
      <3>3. QED
        BY <3>1, <3>2
    <2>5. Pending' = Pending
      BY <1>6, <2>3
    <2>6. worker.at \notin {"boot", "clearing"} /\ worker'.at \notin {"boot", "clearing", "leaf"}
      BY <2>1, <2>3
    <2>7. QED
      BY <1>7, <2>1, <2>4, <2>5, <2>6
  <1>15. CASE ClearFile
    <2>1. /\ worker.at = "clearing" /\ worker' = AtRest /\ log' = <<>>
          /\ items' = items /\ again' = again /\ overlap' = overlap /\ clash' = clash
          /\ condenser' = condenser /\ missed' = missed
      BY <1>15 DEF ClearFile
    <2>2. Pending' = {} /\ worker'.at = "idle" /\ Range(log') = {}
      BY <1>2, <1>5, <2>1
    <2>3. ~clash => Covered = {}
      BY <1>3, <2>1 DEF Covered
    <2>4. QED
      BY <2>1, <2>2, <2>3, QuietStep
  <1>16. CASE SeahorseCrash
    <2>1. /\ worker.at # "boot" /\ worker' = [AtRest EXCEPT !.at = "boot"]
          /\ condenser' = [c \in Condensers |-> Off] /\ missed' = missed \cup Pending
          /\ items' = items /\ again' = again /\ overlap' = overlap /\ clash' = clash
          /\ wiped' = wiped /\ log' = log /\ rows' = rows
      BY <1>16 DEF SeahorseCrash
    <2>2. worker'.at = "boot" /\ worker'.todo = <<>> /\ worker'.added = <<>>
      BY <2>1 DEF AtRest
    <2>3. \A c \in Condensers : condenser'[c].at \in {"off", "pick"} /\ ~condenser'[c].each
      BY <2>1 DEF Off
    <2>4. Pending' = {}
      BY <1>5, <2>2
    <2>5. ~clash => /\ Covered \cap wiped' = {}
                    /\ rows' = <<>> \/ Range(log') \subseteq Covered \cup missed'
      BY <1>3, <2>1
    <2>6. QED
      BY <2>1, <2>2, <2>3, <2>4, <2>5, QuietStep
  <1>17. CASE UNCHANGED seaVars
    <2>1. /\ worker' = worker /\ condenser' = condenser /\ missed' = missed
          /\ items' = items /\ again' = again /\ overlap' = overlap /\ clash' = clash
          /\ wiped' = wiped /\ log' = log /\ rows' = rows
      BY <1>17 DEF seaVars
    <2>2. Pending' = Pending
      BY <1>6, <2>1
    <2>3. ~clash => /\ Covered \cap wiped' = {}
                    /\ worker'.at = "boot" => rows' = <<>> \/ Range(log') \subseteq Covered \cup missed'
                    /\ worker'.at \notin {"boot", "clearing"} =>
                           Range(log') \subseteq Covered \cup missed' \cup Pending'
      BY <1>3, <2>1, <2>2
    <2>4. QED
      BY <2>1, <2>2, <2>3, QuietStep
  <1>18. QED
    BY <1>8, <1>9, <1>10, <1>11, <1>12, <1>13, <1>14, <1>15, <1>16, <1>17
(* What is in the context.                                                   *)
LEMMA ItemFacts ==
    ASSUME SeahorseAssumption, SeaInv, NEW o \in Ordinals
    PROVE  /\ items[o] \in Range(items) /\ items[o] \in Known /\ Fits(items[o])
           /\ items[o].depth \in Int /\ items[o].depth >= MessageDepth
           /\ (IsSummary(o) <=> Summarises(items[o])) /\ (IsSummary(o) => items[o].depth >= 0)
           /\ items[o].over \subseteq 1 .. said /\ o \in Nat
  <1>1. items[o] \in Range(items) /\ items[o] \in Known
    BY DEF Range, Ordinals, Known
  <1>2. Fits(items[o])
    BY <1>1 DEF SeaInv, SeaNames
  <1>3. items[o].depth \in MessageDepth .. MaxSummaries /\ MaxSummaries \in Nat
    BY <1>2 DEF Fits, Item, SeahorseAssumption
  <1>4. o \in Nat
    BY DEF SeaInv, SeaTypes, Stored, Ordinals
  <1>5. items[o].depth \in Int /\ items[o].depth >= MessageDepth
        /\ (items[o].depth # MessageDepth => items[o].depth >= 0)
    BY <1>3 DEF MessageDepth
  <1>6. QED
    BY <1>1, <1>2, <1>4, <1>5 DEF IsSummary, Summarises, Fits

LEMMA EvictableFirst ==
    ASSUME SeahorseAssumption, Stored(items), NEW p \in Evictable, NEW o \in Ordinals, o < p
    PROVE  o \in Evictable
  <1>1. Ordinals \subseteq Nat /\ IsFiniteSet(Ordinals) /\ FreshTailCount \in Nat
    BY DEF Stored, Ordinals, SeahorseAssumption
  <1> DEFINE after(q) == {r \in Ordinals : r > q}
  <1>2. p \in Ordinals /\ Cardinality(after(p)) >= FreshTailCount
    BY DEF Evictable
  <1>3. after(p) \subseteq after(o)
    <2>1. p \in Nat /\ o \in Nat
      BY <1>1, <1>2
    <2>2. ASSUME NEW r \in Ordinals, r > p PROVE r > o
      <3>1. r \in Nat
        BY <1>1
      <3>2. QED
        BY <2>1, <2>2, <3>1
    <2>3. QED
      BY <2>2
  <1>4. IsFiniteSet(after(o))
    <2>1. after(o) \subseteq Ordinals
      OBVIOUS
    <2> HIDE DEF after
    <2>2. QED
      BY <1>1, <2>1, FS_Subset
  <1> HIDE DEF after
  <1>5. IsFiniteSet(after(p)) /\ Cardinality(after(p)) <= Cardinality(after(o))
    BY <1>3, <1>4, FS_Subset
  <1>6. Cardinality(after(p)) \in Nat /\ Cardinality(after(o)) \in Nat
    BY <1>4, <1>5, FS_CardinalityType
  <1>7. Cardinality(after(o)) >= FreshTailCount
    BY <1>1, <1>2, <1>5, <1>6
  <1>8. QED
    BY <1>7 DEF Evictable, after

(* The first run of messages that is long enough begins with the first of    *)
(* all messages.                                                             *)
LEMMA ChunkIsFirst ==
    ASSUME SeahorseAssumption, SeaInv, ~clash, NEW region \in SUBSET Ordinals,
           \A p \in region, o \in Ordinals : o < p => o \in region,
           NEW span \in LeafChunks(region)
    PROVE  /\ span \in Nat \X Nat /\ {span[1], span[2]} \subseteq Ordinals /\ span[1] <= span[2]
           /\ \A o \in Ordinals : o <= span[2] => (IsSummary(o) <=> o < span[1])
  <1>1. Stored(items) /\ Deepest
    BY DEF SeaInv, SeaTypes, Clean
  <1>2. /\ span \in Nat \X Nat /\ span[1] \in region /\ span[2] \in region
        /\ \A o \in Between(span[1], span[2]) : ~IsSummary(o)
        /\ Cardinality(Between(span[1], span[2])) >= LeafMinFanout
        /\ \A a, b \in region :
              /\ \A o \in Between(a, b) : ~IsSummary(o)
              /\ Cardinality(Between(a, b)) >= LeafMinFanout
              => span[1] <= a
    BY <1>1, ChunkSpan
  <1>3. Ordinals \subseteq Nat /\ IsFiniteSet(Ordinals)
    BY <1>1 DEF Stored, Ordinals
  <1>4. PICK a \in Nat, b \in Nat : a = span[1] /\ b = span[2]
    BY <1>2
  <1>5. a \in region /\ b \in region /\ a \in Ordinals /\ b \in Ordinals
    BY <1>2, <1>4
  <1>6. ASSUME NEW x \in Nat
        PROVE  IsFiniteSet(Between(x, b)) /\ Cardinality(Between(x, b)) \in Nat
    <2>1. Between(x, b) \subseteq Ordinals
      BY DEF Between
    <2>2. QED
      BY <1>3, <2>1, FS_Subset, FS_CardinalityType
  <1>7. LeafMinFanout \in Nat /\ LeafMinFanout >= 1
    BY DEF SeahorseAssumption
  <1>8. Cardinality(Between(a, b)) >= LeafMinFanout
    BY <1>2, <1>4
  <1>9. a <= b
    <2>1. Between(a, b) # {}
      <3> SUFFICES ASSUME Between(a, b) = {} PROVE FALSE
        OBVIOUS
      <3>1. Cardinality(Between(a, b)) = 0
        BY FS_EmptySet
      <3>2. QED
        BY <1>7, <1>8, <3>1
    <2>2. PICK q \in Between(a, b) : TRUE
      BY <2>1
    <2>3. q \in Nat /\ a <= q /\ q <= b
      BY <1>3, <2>2 DEF Between
    <2>4. QED
      BY <1>4, <2>3
  <1>10. ASSUME NEW o \in Ordinals, o < a PROVE IsSummary(o)
    <2> SUFFICES ASSUME ~IsSummary(o) PROVE FALSE
      OBVIOUS
    <2>1. items[o].depth = MessageDepth /\ o \in Nat
      BY <1>3 DEF IsSummary
    <2>2. ASSUME NEW q \in Between(o, b) PROVE ~IsSummary(q)
      <3>1. q \in Ordinals /\ q \in Nat /\ o <= q
        BY <1>3, <2>2 DEF Between
      <3>2. CASE q = o
        BY <3>2
      <3>3. CASE o < q
        <4>1. items[o].depth >= items[q].depth
          BY <1>1, <3>1, <3>3 DEF Deepest
        <4>2. items[q].depth \in Int /\ items[q].depth >= MessageDepth
          BY <3>1, ItemFacts
        <4>3. items[q].depth = MessageDepth
          BY <2>1, <4>1, <4>2 DEF MessageDepth
        <4>4. QED
          BY <4>3 DEF IsSummary
      <3>4. QED
        BY <2>1, <3>1, <3>2, <3>3
    <2>3. Between(a, b) \subseteq Between(o, b)
      <3>1. ASSUME NEW q \in Ordinals, a <= q PROVE o <= q
        <4>1. q \in Nat /\ o \in Nat /\ a \in Nat /\ o < a
          BY <1>3, <1>4, <1>10
        <4>2. QED
          BY <3>1, <4>1
      <3>2. QED
        BY <3>1 DEF Between
    <2>4. Cardinality(Between(a, b)) <= Cardinality(Between(o, b))
      BY <1>6, <2>1, <2>3, FS_Subset
    <2>5. Cardinality(Between(o, b)) >= LeafMinFanout
      BY <1>4, <1>6, <1>7, <1>8, <2>1, <2>4
    <2>6. o \in region
      BY <1>5, <1>10
    <2>7. span[1] <= o
      BY <1>2, <1>5, <2>2, <2>5, <2>6
    <2>8. QED
      BY <1>4, <1>10, <2>1, <2>7
  <1>11. ASSUME NEW o \in Ordinals, o <= b PROVE IsSummary(o) <=> o < a
    <2>1. CASE o < a
      BY <1>10, <2>1
    <2>2. CASE ~(o < a)
      <3>1. o \in Nat /\ a <= o
        BY <1>3, <1>4, <2>2
      <3>2. o \in Between(a, b)
        BY <1>11, <3>1 DEF Between
      <3>3. QED
        BY <1>2, <1>4, <2>2, <3>2
    <2>3. QED
      BY <2>1, <2>2
  <1>12. QED
    BY <1>2, <1>4, <1>5, <1>9, <1>11

(* A leaf pass takes the oldest messages outside the fresh tail.             *)
LEMMA LeafBeginsStep ==
    ASSUME SeahorseAssumption, SeaInv, CompactBegins \/ UnderLeaf
    PROVE  Clean' /\ Single' /\ InOrder'
  <1> USE DEF TurnSame, RowsSame, CondenserSame, CountersSame, GhostsSame
  <1>0. SeaTypes /\ SeaPlaces
    BY DEF SeaInv
  <1>1. Stored(items) /\ worker \in WorkerRecord
    BY <1>0 DEF SeaTypes
  <1>2. PICK region \in SUBSET Ordinals :
           /\ \A p \in region, o \in Ordinals : o < p => o \in region
           /\ \E next \in {"launch", "under"} : LeafBegins(region, next)
    <2>1. Evictable \subseteq Ordinals
      BY DEF Evictable
    <2>2. CASE CompactBegins
      BY <1>1, <2>1, <2>2, EvictableFirst DEF CompactBegins
    <2>3. CASE UnderLeaf
      BY <2>3 DEF UnderLeaf
    <2>4. QED
      BY <2>2, <2>3
  <1>3. PICK next \in {"launch", "under"} : LeafBegins(region, next)
    BY <1>2
  <1>4. PICK span \in LeafChunks(region) :
           worker' = [worker EXCEPT !.at = "leaf", !.next = next, !.span = span,
                        !.over = UNION {items[o].over : o \in Between(span[1], span[2])}]
    BY <1>3 DEF LeafBegins
  <1>5. /\ worker'.at = "leaf" /\ worker'.span = span
        /\ worker'.over = UNION {items[o].over : o \in Between(span[1], span[2])}
        /\ worker'.todo = worker.todo /\ worker'.added = worker.added
    BY <1>1, <1>4 DEF WorkerRecord
  <1>6. /\ items' = items /\ again' = again /\ overlap' = overlap /\ clash' = clash
        /\ condenser' = condenser /\ wiped' = wiped /\ missed' = missed /\ log' = log
    BY <1>3 DEF LeafBegins
  <1>7. Pending' = Pending
    BY <1>5 DEF Pending
  <1>8. worker.at \in {"on", "under"}
    BY DEF CompactBegins, UnderLeaf
  <1>9. ~clash => Leafing'
    <2> SUFFICES ASSUME ~clash PROVE Leafing'
      OBVIOUS
    <2>1. /\ {span[1], span[2]} \subseteq Ordinals /\ span[1] <= span[2]
          /\ \A o \in Ordinals : o <= span[2] => (IsSummary(o) <=> o < span[1])
      BY <1>2, ChunkIsFirst
    <2>2. Ordinals' = Ordinals /\ \A o \in Ordinals : IsSummary(o)' <=> IsSummary(o)
      BY <1>6 DEF Ordinals, IsSummary
    <2>3. \A o \in Ordinals : o <= worker'.span[2] => (IsSummary(o)' <=> o < worker'.span[1])
      BY <1>5, <2>1, <2>2
    <2>4. worker'.over = UNION {items'[o].over : o \in {p \in Ordinals : worker'.span[1] <= p /\ p <= worker'.span[2]}}
      BY <1>5, <1>6 DEF Between
    <2>5. QED
      BY <1>5, <2>1, <2>2, <2>3, <2>4 DEF Leafing, Between
  <1>10. ~clash => /\ Covered \cap wiped' = {}
                   /\ Range(log') \subseteq Covered \cup missed' \cup Pending'
    BY <1>6, <1>7, <1>8 DEF SeaInv, Clean, Complete
  <1>11. QED
    BY <1>5, <1>6, <1>7, <1>9, <1>10, QuietStep

(* The messages of a turn come behind what there is, in their order.         *)
LEMMA AppendItemsStep ==
    ASSUME SeahorseAssumption, SeaInv, AppendItems
    PROVE  Clean' /\ Single' /\ InOrder'
  <1> USE DEF TurnSame, RowsSame, CondenserSame, CountersSame, GhostsSame
  <1>1. SeaTypes /\ SeaPlaces /\ SeaRows /\ SeaNames /\ Clean /\ Wiped /\ Single /\ InOrder
    BY DEF SeaInv
  <1>2. Stored(items) /\ worker \in WorkerRecord /\ OrdinalStep \in Nat /\ OrdinalStep >= 1
    BY <1>1 DEF SeaTypes, SeahorseAssumption
  <1>3. PICK new \in Seq(MessageIds) : new = worker.added
    BY <1>2 DEF WorkerRecord
  <1>4. /\ worker.at = "rows" /\ worker.todo = <<>> /\ worker' = Ingested
        /\ items' = WithMessages(new)
        /\ again' = again /\ overlap' = overlap /\ clash' = clash
        /\ condenser' = condenser /\ wiped' = wiped /\ missed' = missed /\ log' = log
    BY <1>3 DEF AppendItems
  <1>5. /\ worker'.at \in {"idle", "on", "launch", "under"}
        /\ worker'.todo = <<>> /\ worker'.added = <<>>
    BY <1>2, <1>4 DEF Ingested, WorkerRecord
  <1>6. Range(<<>>) = {}
    BY DEF Range
  <1>7. Pending = Range(new) /\ Pending' = {}
    BY <1>3, <1>4, <1>5, <1>6 DEF Pending
  <1>8. PICK end \in Nat :
              /\ \A o \in Ordinals : o <= end
              /\ DOMAIN WithMessages(new) =
                    Ordinals \cup {end + k * OrdinalStep : k \in 1 .. Len(new)}
              /\ \A o \in Ordinals : WithMessages(new)[o] = items[o]
              /\ \A k \in 1 .. Len(new) : /\ end + k * OrdinalStep \in Nat
                                          /\ end + k * OrdinalStep > end
                                          /\ WithMessages(new)[end + k * OrdinalStep] =
                                                MessageItem(new[k])
    BY <1>2, AddedItems
  <1>9. \A o \in Ordinals : o \in Nat /\ o <= end /\ o \in Ordinals' /\ items'[o] = items[o]
    BY <1>2, <1>4, <1>8 DEF Stored, Ordinals
  <1>10. ASSUME NEW o \in Ordinals', o \notin Ordinals
         PROVE  /\ o \in Nat /\ o > end
                /\ \E k \in 1 .. Len(new) : /\ o = end + k * OrdinalStep
                                            /\ items'[o] = MessageItem(new[k])
                                            /\ new[k] \in Range(new)
    <2>1. PICK k \in 1 .. Len(new) : o = end + k * OrdinalStep
      BY <1>4, <1>8, <1>10 DEF Ordinals
    <2>2. new[k] \in Range(new)
      BY DEF Range
    <2>3. QED
      BY <1>4, <1>8, <2>1, <2>2
  <1>11. ASSUME NEW o \in Ordinals', o \notin Ordinals
         PROVE  /\ o \in Nat /\ o > end /\ items'[o].depth = MessageDepth
                /\ \E m \in Range(new) : items'[o].over = {m}
    <2>1. PICK k \in 1 .. Len(new) : items'[o] = MessageItem(new[k]) /\ new[k] \in Range(new)
      BY <1>10, <1>11
    <2>2. o \in Nat /\ o > end
      BY <1>10, <1>11
    <2>3. QED
      BY <2>1, <2>2 DEF MessageItem
  <1>12. ASSUME NEW o \in Ordinals', NEW p \in Ordinals, o <= p PROVE o \in Ordinals
    <2> SUFFICES ASSUME o \notin Ordinals PROVE FALSE
      OBVIOUS
    <2>1. o \in Nat /\ o > end /\ p \in Nat /\ p <= end
      BY <1>9, <1>11
    <2>2. QED
      BY <1>12, <2>1
  <1>13. Covered' = Covered \cup Range(new)
    <2>1. ASSUME NEW m \in Covered PROVE m \in Covered'
      BY <1>9 DEF Covered
    <2>2. ASSUME NEW m \in Range(new) PROVE m \in Covered'
      <3>1. PICK k \in 1 .. Len(new) : m = new[k]
        BY DEF Range
      <3>2. end + k * OrdinalStep \in Ordinals' /\ items'[end + k * OrdinalStep] = MessageItem(m)
        BY <1>4, <1>8, <3>1 DEF Ordinals
      <3>3. PICK o \in Ordinals' : items'[o] = MessageItem(m)
        BY <3>2
      <3>4. m \in items'[o].over
        BY <3>3 DEF MessageItem
      <3>5. QED
        BY <3>4 DEF Covered
    <2>3. ASSUME NEW m \in Covered' PROVE m \in Covered \/ m \in Range(new)
      <3>1. PICK o \in Ordinals' : m \in items'[o].over
        BY DEF Covered
      <3>2. CASE o \in Ordinals
        BY <1>9, <3>1, <3>2 DEF Covered
      <3>3. CASE o \notin Ordinals
        BY <1>11, <3>1, <3>3
      <3>4. QED
        BY <3>2, <3>3
    <2>4. QED
      BY <2>1, <2>2, <2>3
  <1>14. ASSUME NEW c \in Condensers, NEW o \in Ordinals', items'[o] \in condenser[c].picks
         PROVE  o \in Ordinals
    <2> SUFFICES ASSUME o \notin Ordinals PROVE FALSE
      OBVIOUS
    <2>1. items'[o].depth = MessageDepth
      BY <1>11
    <2>2. QED
      BY <1>1, <1>14, <2>1 DEF SeaPlaces, Summarises
  <1>15. Clean'
    <2> SUFFICES ASSUME ~clash
                 PROVE  /\ Deepest' /\ Distinct' /\ Leafing' /\ Emptied' /\ Complete'
                        /\ Covered' \cap wiped' = {}
                        /\ \A c \in Condensers : ~condenser'[c].each /\ Waiting(c)'
      BY <1>4 DEF Clean
    <2>1. /\ Deepest /\ Distinct /\ Complete /\ Covered \cap wiped = {}
          /\ \A c \in Condensers : ~condenser[c].each /\ Waiting(c)
      BY <1>1 DEF Clean
    <2>2. ASSUME NEW o \in Ordinals', NEW p \in Ordinals', o < p
          PROVE  items'[o].depth >= items'[p].depth
      <3>1. CASE p \in Ordinals
        <4>1. o \in Ordinals
          <5>1. o <= p
            <6>1. p \in Nat
              BY <1>9, <3>1
            <6>2. o \in Nat
              BY <1>9, <1>11
            <6>3. QED
              BY <2>2, <6>1, <6>2
          <5>2. QED
            BY <1>12, <3>1, <5>1
        <4>2. QED
          BY <1>9, <2>1, <2>2, <3>1, <4>1 DEF Deepest
      <3>2. CASE p \notin Ordinals
        <4>1. items'[p].depth = MessageDepth
          BY <1>11, <3>2
        <4>2. items'[o].depth \in Int /\ items'[o].depth >= MessageDepth
          <5>1. CASE o \in Ordinals
            <6>1. items[o].depth \in Int /\ items[o].depth >= MessageDepth
              BY <5>1, ItemFacts
            <6>2. QED
              BY <1>9, <5>1, <6>1
          <5>2. CASE o \notin Ordinals
            <6>1. items'[o].depth = MessageDepth
              BY <1>11, <5>2
            <6>2. QED
              BY <6>1 DEF MessageDepth
          <5>3. QED
            BY <5>1, <5>2
        <4>3. QED
          BY <4>1, <4>2
      <3>3. QED
        BY <3>1, <3>2
    <2>3. Distinct'
      <3> SUFFICES ASSUME NEW o \in Ordinals', NEW p \in Ordinals', items'[o] = items'[p],
                          items'[o].depth # MessageDepth
                   PROVE  o = p
        BY DEF Distinct, IsSummary
      <3>1. o \in Ordinals /\ p \in Ordinals
        BY <1>11
      <3>2. items[o] = items[p] /\ items[o].depth # MessageDepth
        BY <1>9, <3>1
      <3>3. QED
        BY <2>1, <3>1, <3>2 DEF Distinct, IsSummary
    <2>4. Leafing' /\ Emptied'
      BY <1>5 DEF Leafing, Emptied
    <2>5. Complete'
      <3>1. Range(log) \subseteq Covered \cup missed \cup Pending
        BY <1>4, <2>1 DEF Complete
      <3>2. QED
        BY <1>4, <1>5, <1>7, <1>13, <3>1 DEF Complete
    <2>6. Covered' \cap wiped' = {}
      BY <1>1, <1>4, <1>7, <1>13, <2>1 DEF Wiped
    <2>7. ASSUME NEW c \in Condensers PROVE Waiting(c)'
      <3>1. Waiting(c)
        BY <2>1
      <3>2. ASSUME Foremost(condenser[c].picks) PROVE Foremost(condenser[c].picks)'
        <4>1. ASSUME NEW o \in Ordinals', NEW p \in Ordinals', o < p,
                     items'[o].depth = items'[p].depth, items'[p] \in condenser[c].picks
              PROVE  items'[o] \in condenser[c].picks
          <5>1. p \in Ordinals
            BY <1>14, <4>1
          <5>2. o \in Ordinals
            <6>1. p \in Nat
              BY <1>9, <5>1
            <6>2. o \in Nat
              BY <1>9, <1>11
            <6>3. o <= p
              BY <4>1, <6>1, <6>2
            <6>4. QED
              BY <1>12, <5>1, <6>3
          <5>3. items[o].depth = items[p].depth /\ items[p] \in condenser[c].picks
            BY <1>9, <4>1, <5>1, <5>2
          <5>4. items[o] \in condenser[c].picks
            BY <3>2, <4>1, <5>1, <5>2, <5>3 DEF Foremost
          <5>5. QED
            BY <1>9, <5>2, <5>4
        <4>2. QED
          BY <1>4, <3>2, <4>1 DEF Foremost
      <3>3. condenser[c].at \in {"llm", "swap"} => Foremost(condenser[c].picks)'
        BY <3>1, <3>2 DEF Waiting
      <3>4. ASSUME condenser[c].at = "llm", NEW o \in Ordinals', items'[o] \in condenser[c].picks
            PROVE  OverOf(condenser[c].picks) \subseteq Covered'
        <4>1. o \in Ordinals /\ items[o] \in condenser[c].picks
          BY <1>9, <1>14, <3>4
        <4>2. OverOf(condenser[c].picks) \subseteq Covered
          BY <3>1, <3>4, <4>1 DEF Waiting
        <4>3. QED
          BY <1>13, <4>2
      <3>5. ASSUME condenser[c].at = "swap", ~condenser[c].moved
            PROVE  /\ OverOf(condenser[c].picks) \subseteq Covered'
                   /\ {condenser[c].span[1], condenser[c].span[2]} \subseteq Ordinals'
                   /\ condenser[c].span[1] <= condenser[c].span[2]
                   /\ \A o \in Ordinals' :
                         condenser[c].span[1] <= o /\ o <= condenser[c].span[2]
                            <=> items'[o] \in condenser[c].picks
        <4>1. /\ OverOf(condenser[c].picks) \subseteq Covered
              /\ {condenser[c].span[1], condenser[c].span[2]} \subseteq Ordinals
              /\ condenser[c].span[1] <= condenser[c].span[2]
              /\ \A o \in Ordinals : condenser[c].span[1] <= o /\ o <= condenser[c].span[2]
                                        <=> items[o] \in condenser[c].picks
          BY <3>1, <3>5 DEF Waiting
        <4>2. ASSUME NEW o \in Ordinals'
              PROVE  condenser[c].span[1] <= o /\ o <= condenser[c].span[2]
                        <=> items'[o] \in condenser[c].picks
          <5>1. CASE o \in Ordinals
            BY <1>9, <4>1, <5>1
          <5>2. CASE o \notin Ordinals
            BY <1>12, <1>14, <4>1, <5>2
          <5>3. QED
            BY <5>1, <5>2
        <4>3. QED
          BY <1>9, <1>13, <4>1, <4>2
      <3>6. QED
        BY <1>4, <3>3, <3>4, <3>5 DEF Waiting
    <2>8. Deepest'
      BY <2>2 DEF Deepest
    <2>9. QED
      BY <1>4, <2>1, <2>3, <2>4, <2>5, <2>6, <2>7, <2>8
  <1>16. Growing(new)
    BY <1>1, <1>3, <1>4 DEF SeaRows
  <1>17. ASSUME NEW k \in 1 .. Len(new), NEW l \in 1 .. Len(new),
                end + k * OrdinalStep < end + l * OrdinalStep
         PROVE  new[k] < new[l]
    <2>1. k \in Nat /\ l \in Nat
      OBVIOUS
    <2>2. k < l
      <3> SUFFICES ASSUME l <= k PROVE FALSE
        BY <2>1
      <3>1. l * OrdinalStep <= k * OrdinalStep
        BY <1>2, <2>1
      <3>2. l * OrdinalStep \in Nat /\ k * OrdinalStep \in Nat
        BY <1>2, <2>1
      <3>3. QED
        BY <1>17, <3>1, <3>2
    <2>3. QED
      BY <1>16, <2>2 DEF Growing
  <1>18. \A m \in Range(new) : m \in Nat
    <2>1. MessageIds \subseteq Nat
      BY DEF MessageIds
    <2>2. QED
      BY <2>1, RangeOfConcat
  <1>19. ASSUME NEW o \in Ordinals', NEW p \in Ordinals', o \notin Ordinals, p \notin Ordinals, o < p
         PROVE  \A m \in items'[o].over, n \in items'[p].over : m < n
    <2>1. PICK k \in 1 .. Len(new) : o = end + k * OrdinalStep /\ items'[o] = MessageItem(new[k])
      BY <1>10, <1>19
    <2>2. PICK l \in 1 .. Len(new) : p = end + l * OrdinalStep /\ items'[p] = MessageItem(new[l])
      BY <1>10, <1>19
    <2>3. new[k] < new[l]
      BY <1>17, <1>19, <2>1, <2>2
    <2>4. QED
      BY <2>1, <2>2, <2>3 DEF MessageItem
  <1>20. Single'
    <2> SUFFICES ASSUME ~clash, ~overlap
                 PROVE  /\ \A c, d \in Condensers :
                              c # d /\ condenser'[c].at \in {"llm", "swap"} =>
                                 condenser'[d].at \in {"off", "pick"}
                        /\ Apart' /\ Pending' \cap Covered' \subseteq again'
                        /\ \A c \in Condensers :
                              /\ condenser'[c].at = "llm" =>
                                    \/ condenser'[c].picks \subseteq Range(items')
                                    \/ condenser'[c].picks \cap Range(items') = {}
                              /\ condenser'[c].at = "swap" /\ ~condenser'[c].moved =>
                                    condenser'[c].picks \subseteq Range(items')
      BY <1>4 DEF Single
    <2>1. /\ \A c, d \in Condensers :
                c # d /\ condenser[c].at \in {"llm", "swap"} => condenser[d].at \in {"off", "pick"}
          /\ Apart /\ Pending \cap Covered \subseteq again
          /\ \A c \in Condensers :
                /\ condenser[c].at = "llm" => \/ condenser[c].picks \subseteq Range(items)
                                              \/ condenser[c].picks \cap Range(items) = {}
                /\ condenser[c].at = "swap" /\ ~condenser[c].moved =>
                      condenser[c].picks \subseteq Range(items)
      BY <1>1 DEF Single
    <2>2. ASSUME NEW o \in Ordinals', NEW p \in Ordinals, o \notin Ordinals
          PROVE  items'[o].over \cap items'[p].over \subseteq again
      <3>1. items'[o].over \subseteq Pending
        BY <1>7, <1>11, <2>2
      <3>2. items'[p].over \subseteq Covered
        BY <1>9 DEF Covered
      <3>3. QED
        BY <2>1, <3>1, <3>2
    <2>3. Apart'
      <3> SUFFICES ASSUME NEW o \in Ordinals', NEW p \in Ordinals', o # p
                   PROVE  items'[o].over \cap items'[p].over \subseteq again
        BY <1>4 DEF Apart
      <3>1. CASE o \in Ordinals /\ p \in Ordinals
        BY <1>9, <2>1, <3>1 DEF Apart
      <3>2. CASE o \notin Ordinals /\ p \in Ordinals
        BY <2>2, <3>2
      <3>3. CASE o \in Ordinals /\ p \notin Ordinals
        <4>1. items'[p].over \cap items'[o].over \subseteq again
          BY <2>2, <3>3
        <4>2. QED
          BY <4>1
      <3>4. CASE o \notin Ordinals /\ p \notin Ordinals
        <4>1. o \in Nat /\ p \in Nat
          BY <1>11, <3>4
        <4>2. PICK m \in Range(new) : items'[o].over = {m}
          BY <1>11, <3>4
        <4>3. PICK n \in Range(new) : items'[p].over = {n}
          BY <1>11, <3>4
        <4>4. o < p \/ p < o
          BY <4>1
        <4>5. m < n \/ n < m
          BY <1>19, <3>4, <4>2, <4>3, <4>4
        <4>6. m # n
          BY <1>18, <4>5
        <4>7. QED
          BY <4>2, <4>3, <4>6
      <3>5. QED
        BY <3>1, <3>2, <3>3, <3>4
    <2>4. Range(items) \subseteq Range(items')
      <3> SUFFICES ASSUME NEW i \in Range(items) PROVE i \in Range(items')
        OBVIOUS
      <3>1. PICK o \in Ordinals : items[o] = i
        BY RangeOf DEF Ordinals
      <3>2. o \in Ordinals' /\ items'[o] = i
        BY <1>9, <3>1
      <3>3. QED
        BY <3>2, RangeOf DEF Ordinals
    <2>5. ASSUME NEW c \in Condensers, condenser[c].picks \cap Range(items) = {}
          PROVE  condenser[c].picks \cap Range(items') = {}
      <3> SUFFICES ASSUME NEW i \in condenser[c].picks, i \in Range(items') PROVE FALSE
        OBVIOUS
      <3>1. PICK o \in Ordinals' : items'[o] = i
        BY RangeOf DEF Ordinals
      <3>2. o \in Ordinals /\ items[o] = i
        BY <1>9, <1>14, <3>1
      <3>3. i \in Range(items)
        BY <3>2, RangeOf DEF Ordinals
      <3>4. QED
        BY <2>5, <3>3
    <2>6. Pending' \cap Covered' \subseteq again'
      BY <1>7
    <2>7. QED
      BY <1>4, <2>1, <2>3, <2>4, <2>5, <2>6
  <1>21. InOrder'
    <2> SUFFICES ASSUME ~clash, ~overlap, again = {}
                 PROVE  Sorted' /\ \A m \in Covered', n \in Pending' : m < n
      BY <1>4 DEF InOrder
    <2>1. Sorted /\ \A m \in Covered, n \in Pending : m < n
      BY <1>1 DEF InOrder
    <2>2. Sorted'
      <3> SUFFICES ASSUME NEW o \in Ordinals', NEW p \in Ordinals', o < p
                   PROVE  \A m \in items'[o].over, n \in items'[p].over : m < n
        BY DEF Sorted
      <3>1. CASE p \in Ordinals
        <4>1. p \in Nat /\ o \in Nat
          BY <1>9, <1>11, <3>1
        <4>2. o <= p
          BY <4>1
        <4>3. o \in Ordinals
          BY <1>12, <3>1, <4>2
        <4>4. QED
          BY <1>9, <2>1, <3>1, <4>3 DEF Sorted
      <3>2. CASE p \notin Ordinals /\ o \in Ordinals
        <4>1. items'[o].over \subseteq Covered
          BY <1>9, <3>2 DEF Covered
        <4>2. items'[p].over \subseteq Pending
          BY <1>7, <1>11, <3>2
        <4>3. QED
          BY <2>1, <4>1, <4>2
      <3>3. CASE p \notin Ordinals /\ o \notin Ordinals
        BY <1>19, <3>3
      <3>4. QED
        BY <3>1, <3>2, <3>3
    <2>3. QED
      BY <1>7, <2>2
  <1>22. QED
    BY <1>15, <1>20, <1>21

(* While a leaf summary is written its messages stay behind all summaries.   *)
LEMMA SummariesFirst ==
    ASSUME SeahorseAssumption, SeaInv, ~clash, worker.at = "leaf",
           NEW o \in Ordinals, IsSummary(o)
    PROVE  o < worker.span[1]
  <1>1. Deepest /\ Leafing /\ worker \in WorkerRecord
    BY DEF SeaInv, SeaTypes, Clean
  <1>2. PICK a \in Nat, b \in Nat : a = worker.span[1] /\ b = worker.span[2]
    BY <1>1 DEF WorkerRecord
  <1>3. /\ a \in Ordinals /\ b \in Ordinals /\ a <= b
        /\ \A p \in Ordinals : p <= b => (IsSummary(p) <=> p < a)
    BY <1>1, <1>2 DEF Leafing
  <1>4. items[b].depth = MessageDepth
    BY <1>2, <1>3 DEF IsSummary
  <1>5. o \in Nat /\ items[o].depth \in Int /\ items[o].depth >= 0
    BY ItemFacts
  <1>6. CASE o <= b
    BY <1>2, <1>3, <1>6
  <1>7. CASE b < o
    <2>1. items[b].depth >= items[o].depth
      BY <1>1, <1>3, <1>7 DEF Deepest
    <2>2. QED
      BY <1>4, <1>5, <2>1 DEF MessageDepth
  <1>8. QED
    BY <1>2, <1>5, <1>6, <1>7

(* Its summary takes their place.                                            *)
LEMMA LeafEndsStep ==
    ASSUME SeahorseAssumption, SeaInv, LeafEnds
    PROVE  Clean' /\ Single' /\ InOrder'
  <1> USE DEF TurnSame, RowsSame, CondenserSame, CountersSame, GhostsSame
  <1> SUFFICES ASSUME ~clash PROVE Clean' /\ Single' /\ InOrder'
    BY DEF LeafEnds, Clean, Single, InOrder
  <1>1. SeaTypes /\ SeaPlaces /\ SeaNames /\ Single /\ InOrder
    BY DEF SeaInv
  <1>2. /\ Deepest /\ Distinct /\ Leafing /\ Complete /\ Covered \cap wiped = {}
        /\ \A c \in Condensers : ~condenser[c].each /\ Waiting(c)
    BY DEF SeaInv, Clean
  <1>3. Stored(items) /\ worker \in WorkerRecord /\ made \in Nat
    BY <1>1 DEF SeaTypes, SeahorseAssumption
  <1>4. PICK s : s = [id |-> made + 1, depth |-> 0, over |-> worker.over]
    OBVIOUS
  <1>5. s.id = made + 1 /\ s.depth = 0 /\ s.over = worker.over
    BY <1>4
  <1>6. /\ worker.at = "leaf" /\ items' = RangeReplaced(worker.span, s)
        /\ worker' = [worker EXCEPT !.at = worker.next, !.span = <<0, 0>>, !.over = {}]
        /\ again' = again /\ overlap' = overlap /\ clash' = clash /\ rows' = rows
        /\ condenser' = condenser /\ wiped' = wiped /\ missed' = missed /\ log' = log
    BY <1>4 DEF LeafEnds
  <1>7. /\ worker'.at \in {"idle", "on", "launch", "under"}
        /\ worker'.todo = worker.todo /\ worker'.added = worker.added
    BY <1>3, <1>6 DEF WorkerRecord
  <1>8. Pending' = Pending
    BY <1>7 DEF Pending
  <1>9. PICK a \in Nat, b \in Nat : a = worker.span[1] /\ b = worker.span[2]
    BY <1>3 DEF WorkerRecord
  <1>10. /\ a \in Ordinals /\ b \in Ordinals /\ a <= b
         /\ \A p \in Ordinals : p <= b => (IsSummary(p) <=> p < a)
         /\ s.over = UNION {items[o].over : o \in Between(a, b)}
    BY <1>2, <1>5, <1>6, <1>9 DEF Leafing
  <1>11. PICK m \in Nat :
             /\ a <= m /\ m <= b
             /\ items' = Replaced(a, b, m, s)
    <2>1. worker.span \in Nat \X Nat /\ worker.span[1] <= worker.span[2]
      BY <1>3, <1>9, <1>10 DEF WorkerRecord
    <2>2. \E mid \in Nat :
             /\ worker.span[1] <= mid /\ mid <= worker.span[2]
             /\ RangeReplaced(worker.span, s) =
                   Replaced(worker.span[1], worker.span[2], mid, s)
      <3>1. Stored(items)
        BY <1>3
      <3>2. QED
        BY <2>1, <3>1, Replacing
    <2>3. QED
      BY <1>6, <1>9, <2>2
  <1>12. \A i \in Known : i # s
    <2> SUFFICES ASSUME NEW i \in Known PROVE i # s
      OBVIOUS
    <2>1. i \in Item /\ i.id <= made
      BY <1>1 DEF SeaNames, Fits
    <2>2. i.id \in Nat
      BY <2>1 DEF Item
    <2>3. QED
      BY <1>3, <1>5, <2>1, <2>2
  <1>13. Depths
    BY ItemFacts DEF Depths
  <1>14. \A o \in Ordinals : items[o] # s
    BY <1>12, ItemFacts
  <1>15. \A o \in Ordinals : o < a => items[o].depth >= s.depth
    <2> SUFFICES ASSUME NEW o \in Ordinals, o < a PROVE items[o].depth >= 0
      BY <1>5
    <2>1. o \in Nat /\ (IsSummary(o) => items[o].depth >= 0)
      BY ItemFacts
    <2>2. o <= b
      BY <1>10, <2>1
    <2>3. QED
      BY <1>10, <2>1, <2>2
  <1>16. \A o \in Ordinals : b <= o => items[o].depth < s.depth
    <2> SUFFICES ASSUME NEW o \in Ordinals, b <= o PROVE items[o].depth < 0
      BY <1>5
    <2>1. items[b].depth = MessageDepth
      BY <1>10 DEF IsSummary
    <2>2. o \in Nat /\ items[o].depth \in Int
      BY ItemFacts
    <2>3. items[b].depth >= items[o].depth
      <3>1. CASE o = b
        BY <2>1, <3>1 DEF MessageDepth
      <3>2. CASE o # b
        BY <1>2, <1>10, <2>2, <3>2 DEF Deepest
      <3>3. QED
        BY <3>1, <3>2
    <2>4. QED
      BY <2>1, <2>2, <2>3 DEF MessageDepth
  <1>17. s.over \subseteq Covered
    BY <1>10 DEF Between, Covered
  <1>18. /\ Deepest' /\ Distinct' /\ Covered' = Covered
         /\ \A picks : Foremost(picks) /\ s \notin picks => Foremost(picks)'
         /\ m \in Ordinals' /\ items'[m] = s
         /\ \A o \in Ordinals' : o \in Nat /\ (o # m => o \in Ordinals /\ (o < a \/ b < o))
         /\ \A o \in Ordinals : o < a \/ b < o => o \in Ordinals' /\ items'[o] = items[o]
    <2>1. s.depth \in Int /\ UNION {items[o].over : o \in Between(a, b)} \subseteq s.over
      BY <1>5, <1>10
    <2>2. /\ Stored(items) /\ a \in Ordinals /\ b \in Ordinals /\ a <= b
          /\ m \in Nat /\ a <= m /\ m <= b /\ Deepest /\ Distinct
          /\ items' = Replaced(a, b, m, s)
      BY <1>2, <1>3, <1>10, <1>11
    <2>3. QED
      BY <1>13, <1>14, <1>15, <1>16, <1>17, <2>1, <2>2, SpanReplaced
  <1>19. (Apart => Apart') /\ (Sorted => Sorted')
    <2>1. Ordinals \subseteq Nat
      BY <1>3 DEF Stored, Ordinals
    <2>2. /\ a \in Ordinals /\ b \in Ordinals /\ a <= b /\ m \in Nat /\ a <= m /\ m <= b
          /\ s.over = UNION {items[o].over : o \in Between(a, b)} /\ again' = again
      BY <1>6, <1>10, <1>11
    <2>3. /\ m \in Ordinals' /\ items'[m] = s
          /\ \A o \in Ordinals' : o \in Nat /\ (o # m => o \in Ordinals /\ (o < a \/ b < o))
          /\ \A o \in Ordinals : o < a \/ b < o => o \in Ordinals' /\ items'[o] = items[o]
      BY <1>18
    <2>4. QED
      BY <2>1, <2>2, <2>3, SpanKeepsApart
  <1>20. \A o \in Ordinals : IsSummary(o) => o < a
    BY <1>6, <1>9, SummariesFirst
  <1>21. ASSUME NEW c \in Condensers PROVE s \notin condenser[c].picks
    <2>1. condenser[c].picks \subseteq Known
      BY DEF Known, Picked
    <2>2. QED
      BY <1>12, <2>1
  <1>22. ASSUME NEW c \in Condensers, NEW o \in Ordinals, items[o] \in condenser[c].picks
         PROVE  o < a /\ o \in Ordinals' /\ items'[o] = items[o]
    <2>1. Summarises(items[o])
      BY <1>1, <1>22 DEF SeaPlaces
    <2>2. o < a
      BY <1>20, <2>1 DEF IsSummary, Summarises
    <2>3. QED
      BY <1>18, <2>2
  <1>23. ASSUME NEW c \in Condensers, NEW o \in Ordinals', items'[o] \in condenser[c].picks
         PROVE  o \in Ordinals /\ items[o] = items'[o] /\ o # m
    <2>1. o # m
      BY <1>18, <1>21, <1>23
    <2>2. QED
      BY <1>18, <2>1
  <1>24. ASSUME NEW c \in Condensers PROVE Waiting(c)'
    <2>1. Waiting(c)
      BY <1>2
    <2>2. condenser'[c].at \in {"llm", "swap"} => Foremost(condenser[c].picks)'
      <3>1. PICK picks : picks = condenser[c].picks
        OBVIOUS
      <3>2. condenser'[c].picks = picks /\ condenser'[c].at = condenser[c].at
        BY <1>6, <3>1
      <3>3. condenser[c].at \in {"llm", "swap"} => Foremost(picks)
        BY <2>1, <3>1 DEF Waiting
      <3>4. Foremost(picks) => Foremost(picks)'
        BY <1>18, <1>21, <3>1
      <3>5. QED
        BY <3>2, <3>3, <3>4
    <2>3. ASSUME condenser[c].at = "llm", NEW o \in Ordinals', items'[o] \in condenser[c].picks
          PROVE  OverOf(condenser[c].picks) \subseteq Covered'
      <3>1. o \in Ordinals /\ items[o] \in condenser[c].picks
        BY <1>23, <2>3
      <3>2. OverOf(condenser[c].picks) \subseteq Covered
        BY <2>1, <2>3, <3>1 DEF Waiting
      <3>3. QED
        BY <1>18, <3>2
    <2>4. ASSUME condenser[c].at = "swap", ~condenser[c].moved
          PROVE  /\ OverOf(condenser[c].picks) \subseteq Covered'
                 /\ {condenser[c].span[1], condenser[c].span[2]} \subseteq Ordinals'
                 /\ condenser[c].span[1] <= condenser[c].span[2]
                 /\ \A o \in Ordinals' :
                       condenser[c].span[1] <= o /\ o <= condenser[c].span[2]
                          <=> items'[o] \in condenser[c].picks
      <3>1. /\ OverOf(condenser[c].picks) \subseteq Covered
            /\ {condenser[c].span[1], condenser[c].span[2]} \subseteq Ordinals
            /\ condenser[c].span[1] <= condenser[c].span[2]
            /\ \A o \in Ordinals : condenser[c].span[1] <= o /\ o <= condenser[c].span[2]
                                      <=> items[o] \in condenser[c].picks
        BY <2>1, <2>4 DEF Waiting
      <3>2. PICK x \in Ordinals, y \in Ordinals :
               x = condenser[c].span[1] /\ y = condenser[c].span[2]
        BY <3>1
      <3>3. x \in Nat /\ y \in Nat
        BY <1>3 DEF Stored, Ordinals
      <3>4. items[x] \in condenser[c].picks /\ items[y] \in condenser[c].picks
        BY <3>1, <3>2, <3>3
      <3>5. x \in Ordinals' /\ y \in Ordinals' /\ y < a
        BY <1>22, <3>4
      <3>6. ASSUME NEW o \in Ordinals' PROVE x <= o /\ o <= y <=> items'[o] \in condenser[c].picks
        <4>1. CASE o = m
          <5>1. ~(o <= y)
            BY <1>11, <3>3, <3>5, <4>1
          <5>2. QED
            BY <1>23, <4>1, <5>1
        <4>2. CASE o # m
          <5>1. o \in Ordinals /\ items'[o] = items[o]
            BY <1>18, <4>2
          <5>2. QED
            BY <3>1, <3>2, <5>1
        <4>3. QED
          BY <4>1, <4>2
      <3>7. QED
        BY <1>18, <3>1, <3>2, <3>5, <3>6
    <2>5. QED
      BY <1>6, <2>2, <2>3, <2>4 DEF Waiting
  <1>25. Clean'
    <2>1. Leafing' /\ Emptied'
      BY <1>7 DEF Leafing, Emptied
    <2>2. Complete'
      <3>1. Range(log) \subseteq Covered \cup missed \cup Pending
        BY <1>2, <1>6 DEF Complete
      <3>2. QED
        BY <1>6, <1>7, <1>8, <1>18, <3>1 DEF Complete
    <2>3. Covered' \cap wiped' = {}
      BY <1>2, <1>6, <1>18
    <2>4. QED
      BY <1>2, <1>6, <1>18, <1>24, <2>1, <2>2, <2>3 DEF Clean
  <1>26. Single'
    <2> SUFFICES ASSUME ~overlap
                 PROVE  /\ \A c, d \in Condensers :
                              c # d /\ condenser'[c].at \in {"llm", "swap"} =>
                                 condenser'[d].at \in {"off", "pick"}
                        /\ Apart' /\ Pending' \cap Covered' \subseteq again'
                        /\ \A c \in Condensers :
                              /\ condenser'[c].at = "llm" =>
                                    \/ condenser'[c].picks \subseteq Range(items')
                                    \/ condenser'[c].picks \cap Range(items') = {}
                              /\ condenser'[c].at = "swap" /\ ~condenser'[c].moved =>
                                    condenser'[c].picks \subseteq Range(items')
      BY <1>6 DEF Single
    <2>1. /\ \A c, d \in Condensers :
                c # d /\ condenser[c].at \in {"llm", "swap"} => condenser[d].at \in {"off", "pick"}
          /\ Apart /\ Pending \cap Covered \subseteq again
          /\ \A c \in Condensers :
                /\ condenser[c].at = "llm" => \/ condenser[c].picks \subseteq Range(items)
                                              \/ condenser[c].picks \cap Range(items) = {}
                /\ condenser[c].at = "swap" /\ ~condenser[c].moved =>
                      condenser[c].picks \subseteq Range(items)
      BY <1>1 DEF Single
    <2>2. ASSUME NEW c \in Condensers, condenser[c].picks \subseteq Range(items)
          PROVE  condenser[c].picks \subseteq Range(items')
      <3> SUFFICES ASSUME NEW i \in condenser[c].picks PROVE i \in Range(items')
        OBVIOUS
      <3>1. PICK o \in Ordinals : items[o] = i
        BY <2>2, RangeOf DEF Ordinals
      <3>2. o \in Ordinals' /\ items'[o] = i
        BY <1>22, <3>1
      <3>3. QED
        BY <3>2, RangeOf DEF Ordinals
    <2>3. ASSUME NEW c \in Condensers, condenser[c].picks \cap Range(items) = {}
          PROVE  condenser[c].picks \cap Range(items') = {}
      <3> SUFFICES ASSUME NEW i \in condenser[c].picks, i \in Range(items') PROVE FALSE
        OBVIOUS
      <3>1. PICK o \in Ordinals' : items'[o] = i
        BY RangeOf DEF Ordinals
      <3>2. o \in Ordinals /\ items[o] = i
        BY <1>23, <3>1
      <3>3. i \in Range(items)
        BY <3>2, RangeOf DEF Ordinals
      <3>4. QED
        BY <2>3, <3>3
    <2>4. Pending' \cap Covered' \subseteq again'
      BY <1>6, <1>8, <1>18, <2>1
    <2>5. QED
      BY <1>6, <1>19, <2>1, <2>2, <2>3, <2>4
  <1>27. InOrder'
    BY <1>1, <1>6, <1>8, <1>18, <1>19 DEF InOrder
  <1>28. QED
    BY <1>25, <1>26, <1>27

(* A condensed summary takes the place of its picks, which are neighbours.   *)
LEMMA SwapStep ==
    ASSUME SeahorseAssumption, SeaInv, NEW c \in Condensers, Swap(c)
    PROVE  Clean' /\ Single' /\ InOrder'
  <1> USE DEF TurnSame, RowsSame, CondenserSame, CountersSame, GhostsSame
  <1>0. /\ condenser[c].at = "swap"
        /\ clash' = (clash \/ (condenser[c].moved /\ ~condenser[c].each))
    BY DEF Swap
  <1> SUFFICES ASSUME ~clash' PROVE Clean' /\ Single' /\ InOrder'
    BY DEF Clean, Single, InOrder
  <1>1. SeaTypes /\ SeaPlaces /\ SeaNames /\ Single /\ InOrder
    BY DEF SeaInv
  <1>2. ~clash
    BY <1>0
  <1>3. /\ Deepest /\ Distinct /\ Leafing /\ Emptied /\ Complete /\ Covered \cap wiped = {}
        /\ \A d \in Condensers : ~condenser[d].each /\ Waiting(d)
    BY <1>2 DEF SeaInv, Clean
  <1>4. ~condenser[c].moved /\ ~condenser[c].each
    BY <1>0, <1>3
  <1>5. /\ Stored(items) /\ worker \in WorkerRecord /\ made \in Nat
        /\ condenser \in [Condensers -> CondenserRecord]
    BY <1>1 DEF SeaTypes, SeahorseAssumption
  <1>6. PICK picks : picks = condenser[c].picks
    OBVIOUS
  <1>7. PICK s : s = [id |-> condenser[c].id, depth |-> Max({i.depth : i \in picks}) + 1,
                      over |-> OverOf(picks)]
    OBVIOUS
  <1>8. /\ s.id = condenser[c].id /\ s.over = OverOf(picks) /\ s.depth \in Nat \ {0}
        /\ \E i \in picks : s.depth = i.depth + 1
    <2>1. s = [id |-> condenser[c].id, depth |-> Max({i.depth : i \in condenser[c].picks}) + 1,
               over |-> OverOf(condenser[c].picks)]
      BY <1>6, <1>7
    <2>2. s.depth \in Nat \ {0} /\ \E i \in condenser[c].picks : s.depth = i.depth + 1
      BY <1>0, <2>1, CondensedFits
    <2>3. QED
      BY <1>6, <1>7, <2>2
  <1>9. /\ items' = RangeReplaced(condenser[c].span, s)
        /\ condenser' = Moved([condenser EXCEPT ![c] =
              IF c = "worker" THEN Off ELSE [Off EXCEPT !.at = "pick"]])
        /\ worker' = IF c = "worker" THEN [worker EXCEPT !.at = "under"] ELSE worker
        /\ again' = again /\ overlap' = overlap /\ rows' = rows
        /\ wiped' = wiped /\ missed' = missed /\ log' = log
    BY <1>4, <1>6, <1>7 DEF Swap, BackTo, OverOf
  <1>10. /\ condenser'[c].at \in {"off", "pick"} /\ ~condenser'[c].each
         /\ \A d \in Condensers \ {c} :
               /\ condenser'[d].at = condenser[d].at /\ condenser'[d].picks = condenser[d].picks
               /\ condenser'[d].each = condenser[d].each
               /\ condenser'[d].at = "swap" => condenser'[d].moved
    <2>1. \A d \in Condensers \ {c} : condenser'[d] = [condenser[d] EXCEPT !.moved = (condenser[d].at = "swap")]
      BY <1>5, <1>9 DEF Moved
    <2>2. condenser'[c].at \in {"off", "pick"} /\ ~condenser'[c].each
      <3>1. CASE c = "worker"
        <4>1. condenser'[c] = [Off EXCEPT !.moved = (Off.at = "swap")]
          BY <1>5, <1>9, <3>1 DEF Moved
        <4>2. QED
          BY <4>1 DEF Off
      <3>2. CASE c # "worker"
        <4>1. PICK p : p = [Off EXCEPT !.at = "pick"]
          OBVIOUS
        <4>2. condenser'[c] = [p EXCEPT !.moved = (p.at = "swap")]
          BY <1>5, <1>9, <3>2, <4>1 DEF Moved
        <4>3. QED
          BY <4>1, <4>2 DEF Off
      <3>3. QED
        BY <3>1, <3>2
    <2>3. ASSUME NEW d \in Condensers \ {c}
          PROVE  /\ condenser'[d].at = condenser[d].at /\ condenser'[d].picks = condenser[d].picks
                 /\ condenser'[d].each = condenser[d].each
                 /\ condenser'[d].at = "swap" => condenser'[d].moved
      <3>1. PICK q \in CondenserRecord : q = condenser[d]
        BY <1>5
      <3>2. condenser'[d] = [q EXCEPT !.moved = (q.at = "swap")]
        BY <2>1, <3>1
      <3>3. QED
        BY <3>1, <3>2 DEF CondenserRecord
    <2>4. QED
      BY <2>2, <2>3
  <1>11. PICK a \in Nat, b \in Nat : a = condenser[c].span[1] /\ b = condenser[c].span[2]
    BY <1>5 DEF CondenserRecord
  <1>12. /\ OverOf(picks) \subseteq Covered
         /\ a \in Ordinals /\ b \in Ordinals /\ a <= b
         /\ \A o \in Ordinals : a <= o /\ o <= b <=> items[o] \in picks
         /\ Foremost(picks)
    BY <1>0, <1>3, <1>4, <1>6, <1>11 DEF Waiting
  <1>13. PICK m \in Nat : a <= m /\ m <= b /\ items' = Replaced(a, b, m, s)
    <2>1. condenser[c].span \in Nat \X Nat /\ condenser[c].span[1] <= condenser[c].span[2]
      BY <1>5, <1>11, <1>12 DEF CondenserRecord
    <2>2. \E mid \in Nat :
             /\ condenser[c].span[1] <= mid /\ mid <= condenser[c].span[2]
             /\ RangeReplaced(condenser[c].span, s) =
                   Replaced(condenser[c].span[1], condenser[c].span[2], mid, s)
      <3>1. Stored(items)
        BY <1>5
      <3>2. QED
        BY <2>1, <3>1, Replacing
    <2>3. QED
      BY <1>9, <1>11, <2>2
  <1>14. \A i \in Known : i # s
    BY <1>0, <1>1, <1>8 DEF SeaNames
  <1>15. Depths
    BY ItemFacts DEF Depths
  <1>16. \A o \in Ordinals : items[o] # s
    BY <1>14, ItemFacts
  <1>17. items[a] \in picks /\ items[b] \in picks
    BY <1>12
  <1>18. items[a].depth \in Int /\ items[a].depth = items[b].depth /\ s.depth = items[a].depth + 1
    <2>1. PICK i \in picks : s.depth = i.depth + 1
      BY <1>8
    <2>2. i.depth = items[a].depth /\ i.depth = items[b].depth
      BY <1>12, <1>17, <2>1 DEF Foremost
    <2>3. QED
      BY <1>12, <1>15, <2>1, <2>2 DEF Depths
  <1>19. \A o \in Ordinals : o < a => items[o].depth >= s.depth
    <2> SUFFICES ASSUME NEW o \in Ordinals, o < a PROVE items[o].depth >= s.depth
      OBVIOUS
    <2>1. items[o].depth \in Int /\ items[o].depth >= items[a].depth /\ o \in Nat
      BY <1>3, <1>12, ItemFacts DEF Deepest
    <2>2. items[o].depth # items[a].depth
      <3> SUFFICES ASSUME items[o].depth = items[a].depth PROVE FALSE
        OBVIOUS
      <3>1. items[o] \in picks
        BY <1>12, <1>17 DEF Foremost
      <3>2. a <= o
        BY <1>12, <3>1
      <3>3. QED
        BY <2>1, <3>2
    <2>3. QED
      BY <1>18, <2>1, <2>2
  <1>20. \A o \in Ordinals : b <= o => items[o].depth < s.depth
    <2> SUFFICES ASSUME NEW o \in Ordinals, b <= o PROVE items[o].depth < s.depth
      OBVIOUS
    <2>1. items[o].depth \in Int /\ o \in Nat
      BY ItemFacts
    <2>2. items[b].depth >= items[o].depth
      <3>1. CASE o = b
        BY <2>1, <3>1
      <3>2. CASE o # b
        BY <1>3, <1>12, <2>1, <3>2 DEF Deepest
      <3>3. QED
        BY <3>1, <3>2
    <2>3. QED
      BY <1>18, <2>1, <2>2
  <1>21. UNION {items[o].over : o \in Between(a, b)} \subseteq s.over
    <2>1. \A o \in Between(a, b) : items[o] \in picks
      BY <1>12 DEF Between
    <2>2. QED
      BY <1>8, <2>1 DEF OverOf
  <1>22. /\ Deepest' /\ Distinct' /\ Covered' = Covered
         /\ \A other : Foremost(other) /\ s \notin other => Foremost(other)'
         /\ m \in Ordinals' /\ items'[m] = s
         /\ \A o \in Ordinals' : o \in Nat /\ (o # m => o \in Ordinals /\ (o < a \/ b < o))
         /\ \A o \in Ordinals : o < a \/ b < o => o \in Ordinals' /\ items'[o] = items[o]
    <2>1. s.depth \in Int /\ s.over \subseteq Covered
      BY <1>8, <1>12
    <2>2. /\ Stored(items) /\ a \in Ordinals /\ b \in Ordinals /\ a <= b
          /\ m \in Nat /\ a <= m /\ m <= b /\ Deepest /\ Distinct
          /\ items' = Replaced(a, b, m, s)
      BY <1>3, <1>5, <1>12, <1>13
    <2>3. QED
      BY <1>15, <1>16, <1>19, <1>20, <1>21, <2>1, <2>2, SpanReplaced
  <1>23. ASSUME ~overlap PROVE (Apart => Apart') /\ (Sorted => Sorted')
    <2>1. Ordinals \subseteq Nat
      BY <1>5 DEF Stored, Ordinals
    <2>2. s.over = UNION {items[o].over : o \in Between(a, b)}
      <3>1. picks \subseteq Range(items)
        BY <1>0, <1>1, <1>2, <1>4, <1>6, <1>23 DEF Single
      <3>2. ASSUME NEW i \in picks PROVE \E o \in Between(a, b) : items[o] = i
        <4>1. PICK o \in Ordinals : items[o] = i
          BY <3>1, <3>2, RangeOf DEF Ordinals
        <4>2. a <= o /\ o <= b
          BY <1>12, <3>2, <4>1
        <4>3. QED
          BY <4>1, <4>2 DEF Between
      <3>3. s.over \subseteq UNION {items[o].over : o \in Between(a, b)}
        BY <1>8, <3>2 DEF OverOf
      <3>4. QED
        BY <1>21, <3>3
    <2>3. /\ a \in Ordinals /\ b \in Ordinals /\ a <= b /\ m \in Nat /\ a <= m /\ m <= b
          /\ again' = again
      BY <1>9, <1>12, <1>13
    <2>4. /\ m \in Ordinals' /\ items'[m] = s
          /\ \A o \in Ordinals' : o \in Nat /\ (o # m => o \in Ordinals /\ (o < a \/ b < o))
          /\ \A o \in Ordinals : o < a \/ b < o => o \in Ordinals' /\ items'[o] = items[o]
      BY <1>22
    <2>5. QED
      BY <2>1, <2>2, <2>3, <2>4, SpanKeepsApart
  <1>24. ASSUME NEW d \in Condensers PROVE s \notin condenser[d].picks
    <2>1. condenser[d].picks \subseteq Known
      BY DEF Known, Picked
    <2>2. QED
      BY <1>14, <2>1
  <1>25. ASSUME NEW d \in Condensers PROVE ~condenser'[d].each /\ Waiting(d)'
    <2>1. CASE d = c
      BY <1>10, <2>1 DEF Waiting
    <2>2. CASE d # c
      <3>1. Waiting(d) /\ ~condenser[d].each
        BY <1>3
      <3>2. /\ condenser'[d].at = condenser[d].at /\ condenser'[d].picks = condenser[d].picks
            /\ condenser'[d].each = condenser[d].each
            /\ condenser'[d].at = "swap" => condenser'[d].moved
        BY <1>10, <2>2
      <3>3. PICK other : other = condenser[d].picks
        OBVIOUS
      <3>4. condenser'[d].at \in {"llm", "swap"} => Foremost(other)'
        <4>1. condenser[d].at \in {"llm", "swap"} => Foremost(other)
          BY <3>1, <3>3 DEF Waiting
        <4>2. Foremost(other) => Foremost(other)'
          BY <1>22, <1>24, <3>3
        <4>3. QED
          BY <3>2, <4>1, <4>2
      <3>5. ASSUME condenser[d].at = "llm", NEW o \in Ordinals', items'[o] \in other
            PROVE  OverOf(other) \subseteq Covered'
        <4>1. o # m
          BY <1>22, <1>24, <3>3, <3>5
        <4>2. o \in Ordinals /\ items[o] \in other
          BY <1>22, <3>5, <4>1
        <4>3. OverOf(other) \subseteq Covered
          BY <3>1, <3>3, <3>5, <4>2 DEF Waiting
        <4>4. QED
          BY <1>22, <4>3
      <3>6. QED
        BY <3>1, <3>2, <3>3, <3>4, <3>5 DEF Waiting
    <2>3. QED
      BY <2>1, <2>2
  <1>26. /\ worker'.todo = worker.todo /\ worker'.added = worker.added
         /\ worker'.span = worker.span /\ worker'.over = worker.over
         /\ worker'.at # worker.at => worker'.at = "under" /\ c = "worker"
    BY <1>5, <1>9 DEF WorkerRecord
  <1>27. Pending' = Pending
    BY <1>26 DEF Pending
  <1>28. Leafing'
    <2> SUFFICES ASSUME worker'.at = "leaf" PROVE Leafing'
      BY DEF Leafing
    <2>1. worker.at = "leaf"
      BY <1>26
    <2>2. PICK x \in Nat, y \in Nat : x = worker.span[1] /\ y = worker.span[2]
      BY <1>5 DEF WorkerRecord
    <2>3. /\ x \in Ordinals /\ y \in Ordinals /\ x <= y
          /\ \A o \in Ordinals : o <= y => (IsSummary(o) <=> o < x)
          /\ worker.over = UNION {items[o].over : o \in Between(x, y)}
      BY <1>3, <2>1, <2>2 DEF Leafing
    <2>4. b < x
      <3>1. Summarises(items[b])
        BY <1>1, <1>6, <1>17 DEF SeaPlaces
      <3>2. IsSummary(b)
        BY <3>1 DEF IsSummary, Summarises
      <3>3. QED
        BY <1>2, <1>12, <2>1, <2>2, <3>2, SummariesFirst
    <2>5. x \in Ordinals' /\ y \in Ordinals'
      BY <1>22, <2>3, <2>4
    <2>6. ASSUME NEW o \in Ordinals', o <= y PROVE IsSummary(o)' <=> o < x
      <3>1. CASE o = m
        <4>1. m < x
          BY <1>13, <2>4
        <4>2. items'[o].depth # MessageDepth
          BY <1>8, <1>22, <3>1 DEF MessageDepth
        <4>3. QED
          BY <3>1, <4>1, <4>2 DEF IsSummary
      <3>2. CASE o # m
        <4>1. o \in Ordinals /\ items'[o] = items[o]
          BY <1>22, <3>2
        <4>2. QED
          BY <2>3, <2>6, <4>1 DEF IsSummary
      <3>3. QED
        BY <3>1, <3>2
    <2>7. Between(x, y)' = Between(x, y)
      <3>1. ASSUME NEW o \in Ordinals', x <= o PROVE o \in Ordinals
        <4>1. o # m
          BY <1>13, <2>4, <3>1
        <4>2. QED
          BY <1>22, <4>1
      <3>2. ASSUME NEW o \in Ordinals, x <= o PROVE o \in Ordinals' /\ items'[o] = items[o]
        <4>1. o \in Nat
          BY ItemFacts
        <4>2. b < o
          BY <2>4, <3>2, <4>1
        <4>3. QED
          BY <1>22, <4>2
      <3>3. QED
        BY <3>1, <3>2 DEF Between
    <2>8. \A o \in Between(x, y) : items'[o] = items[o]
      <3> SUFFICES ASSUME NEW o \in Ordinals, x <= o PROVE items'[o] = items[o]
        BY DEF Between
      <3>1. o \in Nat
        BY ItemFacts
      <3>2. b < o
        BY <2>4, <3>1
      <3>3. QED
        BY <1>22, <3>2
    <2>9. worker'.over = UNION {items'[o].over : o \in Between(x, y)'}
      BY <1>26, <2>3, <2>7, <2>8
    <2>10. worker'.span[1] = x /\ worker'.span[2] = y
      BY <1>26, <2>2
    <2>11. QED
      BY <2>3, <2>5, <2>6, <2>9, <2>10 DEF Leafing
  <1>29. Emptied'
    <2> SUFFICES ASSUME worker'.at = "clearing" PROVE FALSE
      BY DEF Emptied
    <2>1. Ordinals = {}
      BY <1>3, <1>26 DEF Emptied
    <2>2. QED
      BY <1>12, <2>1
  <1>30. Complete'
    <2>1. worker.at # "boot"
      BY <1>0, <1>1 DEF SeaPlaces
    <2>2. worker'.at # "boot" /\ (worker'.at # "clearing" => worker.at \notin {"boot", "clearing"})
      <3>1. CASE worker'.at = worker.at
        BY <2>1, <3>1
      <3>2. CASE worker'.at # worker.at
        <4>1. worker'.at = "under" /\ c = "worker"
          BY <1>26, <3>2
        <4>2. worker.at = "condense"
          BY <1>0, <1>1, <4>1 DEF SeaPlaces
        <4>3. QED
          BY <4>1, <4>2
      <3>3. QED
        BY <3>1, <3>2
    <2>3. QED
      BY <1>3, <1>9, <1>22, <1>27, <2>2 DEF Complete
  <1>31. Clean'
    <2>1. Covered' \cap wiped' = {}
      BY <1>3, <1>9, <1>22
    <2>2. QED
      BY <1>22, <1>25, <1>28, <1>29, <1>30, <2>1 DEF Clean
  <1>32. Single'
    <2> SUFFICES ASSUME ~overlap PROVE Single'
      BY <1>9 DEF Single
    <2>1. /\ \A d \in Condensers : d # c => condenser[d].at \in {"off", "pick"}
          /\ Apart /\ Pending \cap Covered \subseteq again
      BY <1>0, <1>1, <1>2 DEF Single
    <2>2. \A d \in Condensers : condenser'[d].at \in {"off", "pick"}
      BY <1>10, <2>1
    <2>3. Pending' \cap Covered' \subseteq again'
      BY <1>9, <1>22, <1>27, <2>1
    <2>4. Apart'
      BY <1>23, <2>1
    <2>5. QED
      BY <2>2, <2>3, <2>4 DEF Single
  <1>33. InOrder'
    BY <1>1, <1>2, <1>9, <1>22, <1>23, <1>27 DEF InOrder
  <1>34. QED
    BY <1>31, <1>32, <1>33

(* What is chosen is of one depth, and the first that is of that depth.      *)
LEMMA ChosenFirst ==
    ASSUME SeahorseAssumption, SeaInv, ~clash, NEW picks \in CondensedPicks
    PROVE  Foremost(picks) /\ picks \subseteq Range(items)
  <1>1. Stored(items) /\ Distinct
    BY DEF SeaInv, SeaTypes, Clean
  <1>2. Ordinals \in SUBSET Nat /\ IsFiniteSet(Ordinals)
    BY <1>1 DEF Stored, Ordinals
  <1>3. \A i \in picks : \E o \in Ordinals : i = items[o] /\ IsSummary(o)
    BY <1>1, ChosenItems
  <1>4. picks \subseteq Range(items)
    BY <1>3, RangeOf DEF Ordinals
  <1>5. CASE picks \in FrontChunks
    <2>1. PICK e \in Evictable :
             /\ picks = {items[p] : p \in Between(Min(Ordinals), e)}
             /\ \A p \in Between(Min(Ordinals), e) :
                   IsSummary(p) /\ items[p].depth = items[Min(Ordinals)].depth
      BY <1>5 DEF FrontChunks
    <2>2. e \in Ordinals /\ e \in Nat
      BY <1>2 DEF Evictable
    <2>3. \A o \in Ordinals : Min(Ordinals) <= o
      BY <1>2, <2>2, MinIsLeast
    <2>4. \A i, j \in picks : i.depth = j.depth
      BY <2>1
    <2>5. ASSUME NEW o \in Ordinals, NEW p \in Ordinals, o < p, items[p] \in picks
          PROVE  items[o] \in picks
      <3>1. PICK q \in Between(Min(Ordinals), e) : items[p] = items[q]
        BY <2>1, <2>5
      <3>2. q \in Ordinals /\ q <= e /\ IsSummary(q)
        BY <2>1 DEF Between
      <3>3. p = q
        BY <1>1, <3>1, <3>2 DEF Distinct, IsSummary
      <3>4. o \in Nat /\ p \in Nat
        BY <1>2
      <3>5. o <= e
        BY <2>2, <2>5, <3>2, <3>3, <3>4
      <3>6. o \in Between(Min(Ordinals), e)
        BY <2>3, <3>5 DEF Between
      <3>7. QED
        BY <2>1, <3>6
    <2>6. QED
      BY <1>4, <2>4, <2>5 DEF Foremost
  <1>6. CASE picks = ShallowestGroup /\ picks # {}
    <2> DEFINE OfDepth(d) == {o \in Evictable : IsSummary(o) /\ items[o].depth = d}
               enough == {d \in 0 .. MaxSummaries : Cardinality(OfDepth(d)) >= CondensedMinFanout}
    <2>1. PICK d : d = Min(enough)
      OBVIOUS
    <2>2. PICK group : group = OfDepth(d)
      OBVIOUS
    <2>3. picks = {items[o] : o \in {p \in group :
                      Cardinality({q \in group : q <= p}) <= CondensedMinFanout}}
      BY <1>6, <2>1, <2>2 DEF ShallowestGroup
    <2>4. \A o : o \in group <=> o \in Evictable /\ IsSummary(o) /\ items[o].depth = d
      BY <2>2
    <2> HIDE DEF enough, OfDepth
    <2>5. group \subseteq Ordinals
      BY <2>4 DEF Evictable
    <2>6. \A i, j \in picks : i.depth = j.depth
      BY <2>3, <2>4
    <2>7. ASSUME NEW o \in Ordinals, NEW p \in Ordinals, o < p,
                 items[o].depth = items[p].depth, items[p] \in picks
          PROVE  items[o] \in picks
      <3>1. PICK q \in group : /\ items[p] = items[q]
                               /\ Cardinality({r \in group : r <= q}) <= CondensedMinFanout
        BY <2>3, <2>7
      <3>2. p = q
        BY <1>1, <2>4, <2>5, <3>1 DEF Distinct
      <3>3. o \in Evictable
        BY <1>1, <2>4, <2>7, <3>2, EvictableFirst
      <3>4. o \in group
        BY <2>4, <2>7, <3>2, <3>3 DEF IsSummary
      <3>5. o \in Nat /\ p \in Nat
        BY <1>2
      <3>6. PICK upto : upto = {r \in group : r <= p}
        OBVIOUS
      <3>7. PICK less : less = {r \in group : r <= o}
        OBVIOUS
      <3>8. less \subseteq upto
        <4>1. ASSUME NEW r \in group, r <= o PROVE r <= p
          <5>1. r \in Nat
            BY <1>2, <2>5
          <5>2. QED
            BY <2>7, <3>5, <4>1, <5>1
        <4>2. QED
          BY <3>6, <3>7, <4>1
      <3>9. IsFiniteSet(upto)
        <4>1. upto \subseteq Ordinals
          BY <2>5, <3>6
        <4>2. QED
          BY <1>2, <4>1, FS_Subset
      <3>10. IsFiniteSet(less) /\ Cardinality(less) <= Cardinality(upto)
        BY <3>8, <3>9, FS_Subset
      <3>11. Cardinality(less) \in Nat /\ Cardinality(upto) \in Nat
        BY <3>9, <3>10, FS_CardinalityType
      <3>12. Cardinality(upto) <= CondensedMinFanout /\ CondensedMinFanout \in Nat
        BY <3>1, <3>2, <3>6 DEF SeahorseAssumption
      <3>13. Cardinality({r \in group : r <= o}) <= CondensedMinFanout
        BY <3>7, <3>10, <3>11, <3>12
      <3>14. QED
        BY <2>3, <3>4, <3>13
    <2>8. QED
      BY <1>4, <2>6, <2>7 DEF Foremost
  <1>7. QED
    BY <1>5, <1>6 DEF CondensedPicks

(* A condenser chooses neighbours of one depth.                              *)
LEMMA PickStep ==
    ASSUME SeahorseAssumption, SeaInv, NEW c \in Condensers, Pick(c)
    PROVE  Clean' /\ Single' /\ InOrder'
  <1> USE DEF TurnSame, RowsSame, CondenserSame, CountersSame, GhostsSame
  <1>1. /\ worker' = worker /\ items' = items /\ rows' = rows /\ log' = log
        /\ again' = again /\ clash' = clash /\ wiped' = wiped /\ missed' = missed
        /\ overlap' = (overlap \/ \E d \in Condensers \ {c} : condenser[d].at \in {"llm", "swap"})
    BY DEF Pick
  <1>2. PICK picks \in CondensedPicks :
           condenser' = [condenser EXCEPT ![c] = [Off EXCEPT !.at = "llm", !.picks = picks]]
    BY DEF Pick
  <1>3. condenser \in [Condensers -> CondenserRecord]
    BY DEF SeaInv, SeaTypes
  <1>4. /\ condenser'[c].at = "llm" /\ condenser'[c].picks = picks /\ ~condenser'[c].each
        /\ \A d \in Condensers \ {c} : condenser'[d] = condenser[d]
    <2>1. condenser'[c] = [Off EXCEPT !.at = "llm", !.picks = picks]
      BY <1>2, <1>3
    <2>2. condenser'[c].at = "llm" /\ condenser'[c].picks = picks /\ ~condenser'[c].each
      BY <2>1 DEF Off
    <2>3. QED
      BY <1>2, <1>3, <2>2
  <1>5. Ordinals' = Ordinals /\ Covered' = Covered /\ Pending' = Pending
    BY <1>1 DEF Ordinals, Covered, Pending
  <1>6. ~clash => Foremost(picks) /\ picks \subseteq Range(items)
    BY ChosenFirst
  <1>7. Clean'
    <2> SUFFICES ASSUME ~clash PROVE Clean'
      BY <1>1 DEF Clean
    <2>1. /\ Deepest /\ Distinct /\ Leafing /\ Emptied /\ Complete /\ Covered \cap wiped = {}
          /\ \A d \in Condensers : ~condenser[d].each /\ Waiting(d)
      BY DEF SeaInv, Clean
    <2>2. Deepest' /\ Distinct' /\ Covered' \cap wiped' = {}
      BY <1>1, <1>5, <2>1 DEF Deepest, Distinct, IsSummary
    <2>3. Leafing'
      BY <1>1, <1>5, <2>1 DEF Leafing, IsSummary, Between
    <2>4. Emptied'
      <3>1. ASSUME NEW d \in Condensers, condenser'[d].at = "swap"
            PROVE  condenser[d].at = "swap" /\ condenser'[d].moved = condenser[d].moved
        BY <1>4, <3>1
      <3>2. QED
        BY <1>1, <1>5, <2>1, <3>1 DEF Emptied
    <2>5. Complete'
      BY <1>1, <1>5, <2>1 DEF Complete
    <2>6. ASSUME NEW d \in Condensers PROVE ~condenser'[d].each /\ Waiting(d)'
      <3>1. CASE d = c
        <4>1. OverOf(picks) \subseteq Covered
          <5>1. \A i \in picks : \E o \in Ordinals : items[o] = i
            BY <1>6, RangeOf DEF Ordinals
          <5>2. QED
            BY <5>1 DEF OverOf, Covered
        <4>2. Foremost(picks)'
          BY <1>1, <1>5, <1>6 DEF Foremost
        <4>3. QED
          BY <1>4, <1>5, <3>1, <4>1, <4>2 DEF Waiting
      <3>2. CASE d # c
        <4>1. condenser'[d] = condenser[d] /\ Waiting(d) /\ ~condenser[d].each
          BY <1>4, <2>1, <3>2
        <4>2. QED
          BY <1>1, <1>5, <4>1 DEF Waiting, Foremost
      <3>3. QED
        BY <3>1, <3>2
    <2>7. QED
      BY <2>2, <2>3, <2>4, <2>5, <2>6 DEF Clean
  <1>8. Single'
    <2> SUFFICES ASSUME ~clash, ~overlap' PROVE Single'
      BY <1>1 DEF Single
    <2>1. ~overlap /\ \A d \in Condensers \ {c} : condenser[d].at \in {"off", "pick"}
      <3>1. \A d \in Condensers : condenser[d].at \in {"off", "pick", "llm", "swap"}
        BY <1>3 DEF CondenserRecord
      <3>2. QED
        BY <1>1, <3>1
    <2>2. Apart /\ Pending \cap Covered \subseteq again
      BY <2>1 DEF SeaInv, Single
    <2>3. Apart' /\ Pending' \cap Covered' \subseteq again'
      BY <1>1, <1>5, <2>2 DEF Apart
    <2>4. \A d \in Condensers \ {c} : condenser'[d].at \in {"off", "pick"}
      BY <1>4, <2>1
    <2>5. condenser'[c].at = "llm" /\ condenser'[c].picks \subseteq Range(items')
      BY <1>1, <1>4, <1>6
    <2>6. QED
      BY <2>3, <2>4, <2>5 DEF Single
  <1>9. InOrder'
    BY <1>1, <1>5 DEF SeaInv, InOrder, Sorted
  <1>10. QED
    BY <1>7, <1>8, <1>9

(* A condenser gives up, or what it picked is gone.                          *)
LEMMA BacksOff ==
    ASSUME SeahorseAssumption, SeaInv, NEW c \in Condensers, condenser[c].at # "off",
           condenser' = [condenser EXCEPT ![c] = Off], BackTo(c, "on"),
           items' = items, rows' = rows, log' = log, again' = again, clash' = clash,
           wiped' = wiped, missed' = missed, overlap' = overlap
    PROVE  Clean' /\ Single' /\ InOrder'
  <1>1. condenser \in [Condensers -> CondenserRecord] /\ worker \in WorkerRecord /\ SeaPlaces
    BY DEF SeaInv, SeaTypes
  <1>2. \A d \in Condensers : \/ condenser'[d] = condenser[d]
                              \/ condenser'[d].at \in {"off", "pick"} /\ ~condenser'[d].each
    BY <1>1 DEF Off
  <1>3. worker.at # "boot"
    BY <1>1 DEF SeaPlaces
  <1>4. /\ worker'.todo = worker.todo /\ worker'.added = worker.added
        /\ worker' = worker \/ (worker'.at = "on" /\ worker.at = "condense")
    <2>1. CASE c = "worker"
      <3>1. worker.at = "condense" /\ worker' = [worker EXCEPT !.at = "on"]
        BY <1>1, <2>1 DEF SeaPlaces, BackTo
      <3>2. QED
        BY <1>1, <3>1 DEF WorkerRecord
    <2>2. CASE c # "worker"
      BY <2>2 DEF BackTo
    <2>3. QED
      BY <2>1, <2>2
  <1>5. Pending' = Pending
    BY <1>4 DEF Pending
  <1>6. ~clash => /\ Covered \cap wiped' = {}
                  /\ worker'.at # "boot"
                  /\ worker'.at \notin {"boot", "clearing"} =>
                        Range(log') \subseteq Covered \cup missed' \cup Pending'
    <2> SUFFICES ASSUME ~clash
                 PROVE  /\ Covered \cap wiped = {} /\ worker'.at # "boot"
                        /\ worker'.at \notin {"boot", "clearing"} =>
                              Range(log) \subseteq Covered \cup missed \cup Pending
      BY <1>5
    <2>1. Complete /\ Covered \cap wiped = {}
      BY DEF SeaInv, Clean
    <2>2. worker'.at # "clearing" => worker.at # "clearing"
      BY <1>4
    <2>3. QED
      BY <1>3, <1>4, <2>1, <2>2 DEF Complete
  <1>7. worker'.at \in {"leaf", "clearing"} =>
           worker'.at = worker.at /\ worker'.span = worker.span /\ worker'.over = worker.over
    BY <1>4
  <1>8. QED
    BY <1>2, <1>5, <1>6, <1>7, QuietStep

(* Once its summary is written it reads the items again: the candidates that *)
(* are left are still neighbours, or others have replaced one meanwhile.     *)
LEMMA RereadStep ==
    ASSUME SeahorseAssumption, SeaInv, NEW c \in Condensers, Reread(c)
    PROVE  Clean' /\ Single' /\ InOrder'
  <1> USE DEF TurnSame, RowsSame, CondenserSame, CountersSame, GhostsSame
  <1> DEFINE ids == IdsIn(condenser[c].picks)
  <1>1. /\ condenser[c].at = "llm" /\ items' = items /\ rows' = rows /\ log' = log
        /\ again' = again /\ clash' = clash /\ wiped' = wiped /\ missed' = missed
        /\ overlap' = overlap
    BY DEF Reread
  <1>2. PICK present : present = {o \in Ordinals : IsSummary(o) /\ items[o].id \in ids}
    OBVIOUS
  <1>3. PICK joined : joined = {o \in present : Between(Min(present), o) \subseteq present}
    OBVIOUS
  <1>4. IF present = {}
        THEN condenser' = [condenser EXCEPT ![c] = Off] /\ BackTo(c, "on")
        ELSE /\ condenser' = [condenser EXCEPT ![c] =
                    [@ EXCEPT !.at = "swap", !.id = made + 1,
                              !.span = <<Min(present), Max(joined)>>,
                              !.each = (present # joined)]]
             /\ worker' = worker
    BY <1>2, <1>3 DEF Reread
  <1>5. CASE present = {}
    BY <1>1, <1>4, <1>5, BacksOff
  <1>6. CASE present # {}
    <2>1. condenser \in [Condensers -> CondenserRecord] /\ Stored(items) /\ SeaPlaces /\ SeaNames
      BY DEF SeaInv, SeaTypes
    <2>2. PICK picks : picks = condenser[c].picks
      OBVIOUS
    <2>3. PICK n : n = made + 1
      OBVIOUS
    <2>4. PICK x : x = Min(present)
      OBVIOUS
    <2>5. PICK y : y = Max(joined)
      OBVIOUS
    <2>6. PICK each \in BOOLEAN : each = (present # joined)
      OBVIOUS
    <2>7. PICK me \in CondenserRecord : me = condenser[c]
      BY <2>1
    <2>8. condenser' = [condenser EXCEPT ![c] =
                           [@ EXCEPT !.at = "swap", !.id = n, !.span = <<x, y>>, !.each = each]]
      BY <1>4, <1>6, <2>3, <2>4, <2>5, <2>6
    <2>9. condenser'[c] = [me EXCEPT !.at = "swap", !.id = n, !.span = <<x, y>>, !.each = each]
      BY <2>1, <2>7, <2>8
    <2>10. /\ condenser'[c].at = "swap" /\ condenser'[c].picks = picks
           /\ condenser'[c].each = each /\ condenser'[c].span[1] = x /\ condenser'[c].span[2] = y
      BY <2>2, <2>7, <2>9 DEF CondenserRecord
    <2>11. \A d \in Condensers \ {c} : condenser'[d] = condenser[d]
      BY <2>1, <2>8
    <2>12. worker' = worker
      BY <1>4, <1>6
    <2>13. Ordinals' = Ordinals /\ Covered' = Covered /\ Pending' = Pending
      BY <1>1, <2>12 DEF Ordinals, Covered, Pending
    <2>14. \A i \in picks : i \in Known /\ Summarises(i)
      BY <2>1, <2>2 DEF Known, Picked, SeaPlaces
    <2>15. \A o \in Ordinals : o \in present <=> items[o] \in picks
      <3>1. ASSUME NEW o \in Ordinals, o \in present PROVE items[o] \in picks
        <4>1. IsSummary(o) /\ items[o].id \in ids
          BY <1>2, <3>1
        <4>2. PICK i \in picks : i.id = items[o].id
          BY <2>2, <4>1 DEF IdsIn
        <4>3. items[o] \in Known
          BY ItemFacts
        <4>4. QED
          BY <2>1, <2>14, <4>2, <4>3 DEF SeaNames
      <3>2. ASSUME NEW o \in Ordinals, items[o] \in picks PROVE o \in present
        <4>1. IsSummary(o)
          BY <2>14, <3>2 DEF IsSummary, Summarises
        <4>2. QED
          BY <1>2, <2>2, <3>2, <4>1 DEF IdsIn
      <3>3. QED
        BY <3>1, <3>2
    <2>16. present \subseteq Ordinals
      BY <1>2
    <2>17. /\ x \in present /\ \A o \in present : x <= o
           /\ y \in joined /\ \A o \in joined : o <= y
      BY <1>3, <1>6, <2>1, <2>4, <2>5, <2>16, RereadSpan
    <2>18. Clean'
      <3> SUFFICES ASSUME ~clash PROVE Clean'
        BY <1>1 DEF Clean
      <3>1. /\ Deepest /\ Distinct /\ Leafing /\ Emptied /\ Complete /\ Covered \cap wiped = {}
            /\ \A d \in Condensers : ~condenser[d].each /\ Waiting(d)
        BY DEF SeaInv, Clean
      <3>2. /\ Foremost(picks) /\ OverOf(picks) \subseteq Covered
        BY <1>1, <2>2, <2>15, <2>16, <2>17, <3>1 DEF Waiting
      <3>3. ASSUME NEW o \in present, NEW q \in Ordinals, x <= q, q <= o PROVE q \in present
        <4>1. x \in Ordinals /\ o \in Ordinals
          BY <2>16, <2>17
        <4>2. /\ items[x].depth \in Int /\ items[q].depth \in Int /\ items[o].depth \in Int
              /\ x \in Nat /\ q \in Nat /\ o \in Nat
          BY <4>1, ItemFacts
        <4>3. items[x].depth = items[o].depth
          BY <2>15, <2>17, <3>2, <4>1 DEF Foremost
        <4>4. CASE q = o
          BY <4>4
        <4>5. CASE q # o
          <5>1. items[q].depth >= items[o].depth
            BY <3>1, <3>3, <4>1, <4>2, <4>5 DEF Deepest
          <5>2. items[x].depth >= items[q].depth
            <6>1. CASE q = x
              BY <4>2, <6>1
            <6>2. CASE q # x
              BY <3>1, <3>3, <4>1, <4>2, <6>2 DEF Deepest
            <6>3. QED
              BY <6>1, <6>2
          <5>3. items[q].depth = items[o].depth
            BY <4>2, <4>3, <5>1, <5>2
          <5>4. items[q] \in picks
            BY <2>15, <3>2, <3>3, <4>1, <4>2, <4>5, <5>3 DEF Foremost
          <5>5. QED
            BY <2>15, <5>4
        <4>6. QED
          BY <4>4, <4>5
      <3>4. joined = present
        BY <1>3, <2>4, <3>3 DEF Between
      <3>5. ~each
        BY <2>6, <3>4
      <3>6. /\ x \in Ordinals /\ y \in Ordinals /\ x <= y
            /\ \A o \in Ordinals : x <= o /\ o <= y <=> items[o] \in picks
        BY <2>15, <2>16, <2>17, <3>3, <3>4
      <3>7. Foremost(picks)'
        BY <1>1, <2>13, <3>2 DEF Foremost
      <3>8. Deepest' /\ Distinct' /\ Covered' \cap wiped' = {}
        BY <1>1, <2>13, <3>1 DEF Deepest, Distinct, IsSummary
      <3>9. Leafing'
        BY <1>1, <2>12, <2>13, <3>1 DEF Leafing, IsSummary, Between
      <3>10. Emptied'
        BY <2>12, <3>1, <3>6 DEF Emptied
      <3>11. Complete'
        BY <1>1, <2>12, <2>13, <3>1 DEF Complete
      <3>12. ASSUME NEW d \in Condensers PROVE ~condenser'[d].each /\ Waiting(d)'
        <4>1. CASE d = c
          BY <1>1, <2>10, <2>13, <3>2, <3>5, <3>6, <3>7, <4>1 DEF Waiting
        <4>2. CASE d # c
          <5>1. condenser'[d] = condenser[d] /\ Waiting(d) /\ ~condenser[d].each
            BY <2>11, <3>1, <4>2
          <5>2. QED
            BY <1>1, <2>13, <5>1 DEF Waiting, Foremost
        <4>3. QED
          BY <4>1, <4>2
      <3>13. QED
        BY <3>8, <3>9, <3>10, <3>11, <3>12 DEF Clean
    <2>19. Single'
      <3> SUFFICES ASSUME ~clash, ~overlap PROVE Single'
        BY <1>1 DEF Single
      <3>1. /\ \A d \in Condensers : d # c => condenser[d].at \in {"off", "pick"}
            /\ Apart /\ Pending \cap Covered \subseteq again
            /\ picks \subseteq Range(items) \/ picks \cap Range(items) = {}
        BY <1>1, <2>2 DEF SeaInv, Single
      <3>2. \A d \in Condensers \ {c} : condenser'[d].at \in {"off", "pick"}
        BY <2>11, <3>1
      <3>3. Apart' /\ Pending' \cap Covered' \subseteq again'
        BY <1>1, <2>13, <3>1 DEF Apart
      <3>4. picks \subseteq Range(items')
        <4>1. items[x] \in picks /\ items[x] \in Range(items)
          BY <2>15, <2>16, <2>17, RangeOf DEF Ordinals
        <4>2. QED
          BY <1>1, <3>1, <4>1
      <3>5. condenser'[c].at = "swap" /\ condenser'[c].picks \subseteq Range(items')
        BY <2>10, <3>4
      <3>6. QED
        BY <3>2, <3>3, <3>5 DEF Single
    <2>20. InOrder'
      BY <1>1, <2>13 DEF SeaInv, InOrder, Sorted
    <2>21. QED
      BY <2>18, <2>19, <2>20
  <1>7. QED
    BY <1>5, <1>6

(* All that a condenser does.                                                *)
LEMMA CondenserSteps ==
    ASSUME SeahorseAssumption, SeaInv, NEW c \in Condensers, Condense(c)
    PROVE  Clean' /\ Single' /\ InOrder'
  <1>1. CASE GiveUp(c)
    <2>1. /\ condenser[c].at # "off" /\ condenser' = [condenser EXCEPT ![c] = Off]
          /\ BackTo(c, "on") /\ items' = items /\ rows' = rows /\ log' = log /\ again' = again
          /\ clash' = clash /\ wiped' = wiped /\ missed' = missed /\ overlap' = overlap
      BY <1>1 DEF GiveUp, CountersSame, GhostsSame
    <2>2. QED
      BY <2>1, BacksOff
  <1>2. QED
    BY <1>1, PickStep, RereadStep, SwapStep DEF Condense

LEMMA ClearTablesStep ==
    ASSUME SeahorseAssumption, SeaInv, ClearTables
    PROVE  Clean' /\ Single' /\ InOrder'
  <1> USE DEF GhostsSame
  <1>1. /\ worker.at = "idle" /\ worker' = [worker EXCEPT !.at = "clearing"]
        /\ rows' = <<>> /\ items' = <<>> /\ condenser' = Moved(condenser)
        /\ again' = again /\ clash' = clash /\ wiped' = wiped /\ missed' = missed
        /\ overlap' = overlap
    BY DEF ClearTables
  <1>2. condenser \in [Condensers -> CondenserRecord] /\ worker \in WorkerRecord
    BY DEF SeaInv, SeaTypes
  <1>3. Ordinals' = {} /\ Covered' = {} /\ Range(items') = {}
    BY <1>1 DEF Ordinals, Covered, Range
  <1>4. worker'.at = "clearing"
    BY <1>1, <1>2 DEF WorkerRecord
  <1>5. ASSUME NEW c \in Condensers
        PROVE  /\ condenser'[c].at = condenser[c].at /\ condenser'[c].picks = condenser[c].picks
               /\ condenser'[c].each = condenser[c].each
               /\ condenser'[c].at = "swap" => condenser'[c].moved
    <2>1. PICK me \in CondenserRecord : me = condenser[c]
      BY <1>2
    <2>2. condenser'[c] = [me EXCEPT !.moved = (me.at = "swap")]
      BY <1>1, <2>1 DEF Moved
    <2>3. QED
      BY <2>1, <2>2 DEF CondenserRecord
  <1>6. Clean'
    <2> SUFFICES ASSUME ~clash PROVE Clean'
      BY <1>1 DEF Clean
    <2>1. /\ \A c \in Condensers : ~condenser[c].each /\ Waiting(c)
      BY DEF SeaInv, Clean
    <2>2. Deepest' /\ Distinct' /\ Leafing' /\ Complete' /\ Covered' \cap wiped' = {}
      BY <1>3, <1>4 DEF Deepest, Distinct, Leafing, Complete
    <2>3. Emptied'
      BY <1>1, <1>3, <1>5 DEF Emptied
    <2>4. ASSUME NEW c \in Condensers PROVE ~condenser'[c].each /\ Waiting(c)'
      <3>1. Waiting(c) /\ ~condenser[c].each
        BY <2>1
      <3>2. PICK picks : picks = condenser[c].picks
        OBVIOUS
      <3>3. Foremost(picks) => Foremost(picks)'
        BY <1>3 DEF Foremost
      <3>4. condenser'[c].at \in {"llm", "swap"} => Foremost(condenser[c].picks)
        BY <1>5, <3>1 DEF Waiting
      <3>5. condenser'[c].at \in {"llm", "swap"} => Foremost(picks)'
        BY <3>2, <3>3, <3>4
      <3>6. QED
        BY <1>3, <1>5, <3>1, <3>2, <3>5 DEF Waiting
    <2>5. QED
      BY <2>2, <2>3, <2>4 DEF Clean
  <1>7. Single'
    <2> SUFFICES ASSUME ~clash, ~overlap PROVE Single'
      BY <1>1 DEF Single
    <2>1. \A c, d \in Condensers :
             c # d /\ condenser'[c].at \in {"llm", "swap"} => condenser'[d].at \in {"off", "pick"}
      BY <1>5 DEF SeaInv, Single
    <2>2. Apart' /\ Pending' \cap Covered' \subseteq again'
      BY <1>3 DEF Apart
    <2>3. QED
      BY <1>3, <1>5, <2>1, <2>2 DEF Single
  <1>8. InOrder'
    BY <1>3 DEF InOrder, Sorted
  <1>9. QED
    BY <1>6, <1>7, <1>8

(* Bootstrap keeps what the history and the table have in common, and adds   *)
(* the rest of the history.                                                  *)
LEMMA BootstrapStep ==
    ASSUME SeahorseAssumption, SeaInv, Bootstrap
    PROVE  Clean' /\ Single' /\ InOrder'
  <1> USE DEF CondenserSame, CountersSame, GhostsSame
  <1>1. SeaTypes /\ SeaPlaces /\ SeaRows /\ SeaNames
    BY DEF SeaInv
  <1>2. /\ log \in Seq(MessageIds) /\ rows \in Seq(MessageIds) /\ Stored(items)
        /\ MessageIds \subseteq Nat
    BY <1>1 DEF SeaTypes, MessageIds
  <1>3. /\ worker.at = "boot" /\ condenser' = condenser /\ overlap' = overlap /\ clash' = clash
        /\ log' = log
    BY DEF Bootstrap
  <1>4. PICK n : n = Matching
    OBVIOUS
  <1>5. PICK delta : delta = SubSeq(log, n + 1, Len(log))
    OBVIOUS
  <1>6. PICK gone : gone = Range(SubSeq(rows, n + 1, Len(rows)))
    OBVIOUS
  <1>7. /\ n \in 0 .. Len(log) /\ n <= Len(rows)
        /\ \A i \in 1 .. n : rows[i] = log[i]
        /\ delta \in Seq(MessageIds) /\ Len(delta) = Len(log) - n
        /\ \A i \in 1 .. Len(log) - n : delta[i] = log[n + i]
        /\ gone = {rows[i] : i \in n + 1 .. Len(rows)}
    BY <1>2, <1>4, <1>5, <1>6, MatchingRows
  <1>8. Len(log) \in Nat /\ Len(rows) \in Nat /\ n \in Nat
        /\ DOMAIN log = 1 .. Len(log) /\ DOMAIN rows = 1 .. Len(rows)
        /\ DOMAIN delta = 1 .. Len(log) - n
    BY <1>2, <1>7
  <1>9. \A c \in Condensers : condenser[c].at = "off" /\ ~condenser[c].each
    BY <1>1, <1>3 DEF SeaPlaces
  <1>10. Range(<<>>) = {} /\ AtRest.todo = <<>> /\ AtRest.added = <<>> /\ AtRest.at = "idle"
    BY DEF Range, AtRest
  <1>11. ~clash => /\ Covered \cap wiped = {} /\ Deepest /\ Distinct
                   /\ rows = <<>> \/ Range(log) \subseteq Covered \cup missed
    BY <1>3 DEF SeaInv, Clean, Complete
  <1>12. CASE delta = <<>>
    <2>1. /\ worker' = AtRest /\ items' = items /\ rows' = rows /\ again' = again
          /\ wiped' = wiped /\ missed' = missed
      BY <1>4, <1>5, <1>12 DEF Bootstrap
    <2>2. Pending' = {} /\ worker'.at = "idle"
      BY <1>10, <2>1 DEF Pending
    <2>3. rows = <<>> => Range(log) = {}
      <3> SUFFICES ASSUME rows = <<>> PROVE log = <<>>
        BY <1>10
      <3>1. Len(log) - n = 0 /\ n = 0
        BY <1>7, <1>8, <1>12
      <3>2. QED
        BY <1>2, <1>8, <3>1
    <2>4. ~clash => Covered \cap wiped' = {} /\ Range(log') \subseteq Covered \cup missed' \cup Pending'
      BY <1>3, <1>11, <2>1, <2>3
    <2>5. QED
      BY <1>3, <2>1, <2>2, <2>4, QuietStep
  <1>13. CASE delta # <<>>
    <2>1. PICK fresh : fresh = {m \in Range(delta) : \E o \in DOMAIN ItemsWithout(gone) :
                                                       \E k \in ItemsWithout(gone)[o].over : m <= k}
      OBVIOUS
    <2>2. /\ items' = ItemsWithout(gone)
          /\ worker' = [AtRest EXCEPT !.at = "rows", !.todo = delta]
          /\ missed' = missed \ Range(delta) /\ again' = again \cup fresh /\ wiped' = wiped
      BY <1>4, <1>5, <1>6, <1>13, <2>1 DEF Bootstrap
    <2>3. worker'.at = "rows" /\ worker'.todo = delta /\ worker'.added = <<>>
      BY <2>2 DEF AtRest
    <2>4. Pending' = Range(delta)
      BY <1>10, <2>3 DEF Pending
    <2>5. /\ Ordinals' = {o \in Ordinals : IsSummary(o) \/ items[o].over \cap gone = {}}
          /\ \A o \in Ordinals' : items'[o] = items[o]
      BY <1>2, <2>2, SparedItems DEF Ordinals
    <2>6. Ordinals' \subseteq Ordinals
      BY <2>5
    <2>7. Covered' \subseteq Covered
      BY <2>5, <2>6 DEF Covered
    <2>8. fresh = {m \in Range(delta) : \E o \in Ordinals' : \E k \in items'[o].over : m <= k}
      BY <2>1, <2>2 DEF Ordinals
    <2>9. ~clash => Range(log) \subseteq Covered' \cup missed' \cup Range(delta)
      <3> SUFFICES ASSUME ~clash, NEW i \in 1 .. Len(log)
                   PROVE  log[i] \in Covered' \cup missed' \cup Range(delta)
        BY <1>8 DEF Range
      <3>1. CASE i <= n
        <4>1. i \in 1 .. n /\ i \in 1 .. Len(rows) /\ log[i] = rows[i]
          BY <1>7, <1>8, <3>1
        <4>2. rows # <<>>
          BY <1>8, <4>1
        <4>3. log[i] \in Range(log)
          BY <1>8 DEF Range
        <4>4. log[i] \in Covered \cup missed
          BY <1>11, <4>2, <4>3
        <4>5. CASE log[i] \in Covered
          <5>1. PICK o \in Ordinals : log[i] \in items[o].over
            BY <4>5 DEF Covered
          <5>2. CASE IsSummary(o)
            BY <2>5, <5>1, <5>2 DEF Covered
          <5>3. CASE ~IsSummary(o)
            <6>1. PICK m \in items[o].over : items[o].over = {m}
              BY <5>3, ItemFacts DEF Fits
            <6>2. log[i] \notin gone
              <7> SUFFICES ASSUME NEW j \in n + 1 .. Len(rows) PROVE rows[i] # rows[j]
                BY <1>7, <4>1
              <7>1. j \in 1 .. Len(rows) /\ i < j
                BY <1>8, <4>1
              <7>2. Growing(rows)
                <8>1. worker.todo = <<>> /\ worker.added = <<>>
                  BY <1>1, <1>3 DEF SeaPlaces
                <8>2. rows \o worker.todo = rows
                  BY <1>2, <8>1
                <8>3. QED
                  BY <1>1, <8>2 DEF SeaRows
              <7>3. rows[i] < rows[j]
                BY <4>1, <7>1, <7>2 DEF Growing
              <7>4. rows[i] \in Nat /\ rows[j] \in Nat
                <8>1. \A l \in 1 .. Len(rows) : rows[l] \in MessageIds
                  BY <1>2
                <8>2. QED
                  BY <1>2, <4>1, <7>1, <8>1
              <7>5. QED
                BY <7>3, <7>4
            <6>3. items[o].over \cap gone = {}
              BY <5>1, <6>1, <6>2
            <6>4. o \in Ordinals' /\ items'[o] = items[o]
              BY <2>5, <6>3
            <6>5. QED
              BY <5>1, <6>4 DEF Covered
          <5>4. QED
            BY <5>2, <5>3
        <4>6. CASE log[i] \in missed
          BY <2>2, <4>6
        <4>7. QED
          BY <4>4, <4>5, <4>6
      <3>2. CASE ~(i <= n)
        <4>1. i - n \in 1 .. Len(log) - n /\ n + (i - n) = i
          BY <1>8, <3>2
        <4>2. delta[i - n] = log[i]
          BY <1>7, <4>1
        <4>3. QED
          BY <1>8, <4>1, <4>2 DEF Range
      <3>3. QED
        BY <3>1, <3>2
    <2>10. Clean'
      <3> SUFFICES ASSUME ~clash PROVE Clean'
        BY <1>3 DEF Clean
      <3>1. Deepest' /\ Distinct'
        BY <1>11, <2>5, <2>6 DEF Deepest, Distinct, IsSummary
      <3>2. Leafing' /\ Emptied'
        BY <2>3 DEF Leafing, Emptied
      <3>3. Complete'
        BY <1>3, <2>3, <2>4, <2>9 DEF Complete
      <3>4. Covered' \cap wiped' = {}
        BY <1>11, <2>2, <2>7
      <3>5. \A c \in Condensers : ~condenser'[c].each /\ Waiting(c)'
        BY <1>3, <1>9 DEF Waiting
      <3>6. QED
        BY <3>1, <3>2, <3>3, <3>4, <3>5 DEF Clean
    <2>11. Single'
      <3> SUFFICES ASSUME ~clash, ~overlap PROVE Single'
        BY <1>3 DEF Single
      <3>1. Apart
        BY DEF SeaInv, Single
      <3>2. Apart'
        BY <2>2, <2>5, <2>6, <3>1 DEF Apart
      <3>3. ASSUME NEW m \in Range(delta), m \in Covered' PROVE m \in fresh
        <4>1. PICK o \in Ordinals' : m \in items'[o].over
          BY <3>3 DEF Covered
        <4>2. m \in Nat
          BY <1>2, <1>7, RangeOfConcat
        <4>3. m <= m
          BY <4>2
        <4>4. QED
          BY <2>8, <4>1, <4>3
      <3>4. Pending' \cap Covered' \subseteq again'
        BY <2>2, <2>4, <3>3
      <3>5. \A c \in Condensers : condenser'[c].at = "off"
        BY <1>3, <1>9
      <3>6. QED
        BY <3>2, <3>4, <3>5 DEF Single
    <2>12. InOrder'
      <3> SUFFICES ASSUME ~clash, ~overlap, again' = {} PROVE InOrder'
        BY <1>3 DEF InOrder
      <3>1. Sorted
        BY <2>2 DEF SeaInv, InOrder
      <3>2. Sorted'
        BY <2>5, <2>6, <3>1 DEF Sorted
      <3>3. ASSUME NEW m \in Covered', NEW k \in Pending' PROVE m < k
        <4>1. PICK o \in Ordinals' : m \in items'[o].over
          BY DEF Covered
        <4>2. o \in Ordinals /\ items'[o] = items[o]
          BY <2>5, <2>6
        <4>3. m \in 1 .. said
          BY <4>1, <4>2, ItemFacts
        <4>4. m \in Nat
          BY <1>1, <4>3 DEF SeaTypes
        <4>5. k \in Range(delta) /\ k \in Nat
          BY <1>2, <1>7, <2>4, RangeOfConcat
        <4>6. ~(k <= m)
          BY <2>2, <2>8, <3>3, <4>1, <4>5
        <4>7. QED
          BY <4>4, <4>5, <4>6
      <3>4. QED
        BY <3>2, <3>3 DEF InOrder
    <2>13. QED
      BY <2>10, <2>11, <2>12
  <1>14. QED
    BY <1>12, <1>13

(* Every step keeps the context clean, without repetition and in order.      *)
LEMMA ContextStep ==
    ASSUME SeahorseAssumption, SeaInv, [SeahorseNext]_seaVars
    PROVE  Clean' /\ Single' /\ InOrder'
  <1>1. CASE \/ TurnBegins \/ TurnEnds \/ TurnAborts \/ Say \/ AddRow \/ IngestFails
             \/ CompactSkipsLeaf \/ LeafFails \/ Launch \/ Overflow \/ UnderCondenses
             \/ UnderReturns \/ ClearFile \/ SeahorseCrash \/ UNCHANGED seaVars
    BY <1>1, QuietActions
  <1>2. CASE CompactBegins \/ UnderLeaf
    BY <1>2, LeafBeginsStep
  <1>3. CASE AppendItems
    BY <1>3, AppendItemsStep
  <1>4. CASE LeafEnds
    BY <1>4, LeafEndsStep
  <1>5. CASE ClearTables
    BY <1>5, ClearTablesStep
  <1>6. CASE \E c \in Condensers : Condense(c)
    BY <1>6, CondenserSteps
  <1>7. CASE Bootstrap
    BY <1>7, BootstrapStep
  <1>8. QED
    BY <1>1, <1>2, <1>3, <1>4, <1>5, <1>6, <1>7 DEF SeahorseNext, WorkerStep

(* Every step keeps the invariant.                                           *)
LEMMA SeaStep ==
    ASSUME SeahorseAssumption, SeaInv, [SeahorseNext]_seaVars
    PROVE  SeaInv'
  <1>1. SeaTypes' /\ SeaPlaces' /\ SeaRows' /\ SeaNames'
    BY SeaTypesStep, SeaPlacesStep, SeaRowsStep, SeaNamesStep
  <1>2. Wiped' /\ Clean' /\ Single' /\ InOrder'
    BY WipedStep, ContextStep
  <1>3. QED
    BY <1>1, <1>2 DEF SeaInv

(* The session begins with its messages in leaf summaries of equal length.   *)
LEMMA SeaBegins ==
    ASSUME SeahorseAssumption, SeahorseInit
    PROVE  SeaInv
  <1> DEFINE N == OldMessages
             F == LeafMinFanout
             S == OrdinalStep
  <1>1. /\ S \in Nat /\ S >= 1 /\ F \in Nat /\ F >= 1 /\ OldSummaries \in Nat
        /\ MaxSaid \in Nat /\ MaxSummaries \in Nat /\ OldSummaries <= MaxSummaries
        /\ N = OldSummaries * F /\ N <= MaxSaid
    BY DEF SeahorseAssumption, OldMessages
  <1>2. N \in Nat
    BY <1>1
  <1>3. /\ log = [m \in 1 .. N |-> m] /\ rows = log /\ worker = AtRest
        /\ items = [o \in {k * S : k \in 1 .. OldSummaries} |-> OldSummary(o \div S)]
        /\ condenser = [c \in Condensers |-> Off]
        /\ said = N /\ made = OldSummaries
        /\ missed = {} /\ again = {} /\ wiped = {} /\ overlap = FALSE /\ clash = FALSE
    BY DEF SeahorseInit
  <1> HIDE DEF N, F, S
  <1>4. ASSUME NEW k \in 1 .. OldSummaries
        PROVE  /\ k \in Nat /\ k >= 1 /\ k <= OldSummaries /\ k * S \in Nat /\ (k * S) \div S = k
    <2>1. k \in Nat
      BY <1>1
    <2>2. k * S \in Nat
      BY <1>1, <2>1
    <2>3. (k * S) \div S = k
      BY <1>1, <2>1
    <2>4. QED
      BY <1>1, <2>1, <2>2, <2>3
  <1>5. ASSUME NEW k \in 1 .. OldSummaries
        PROVE  k * S \in Ordinals /\ items[k * S] = OldSummary(k)
    BY <1>3, <1>4 DEF Ordinals
  <1>6. ASSUME NEW o \in Ordinals
        PROVE  \E k \in 1 .. OldSummaries : o = k * S /\ items[o] = OldSummary(k)
    <2>1. PICK k \in 1 .. OldSummaries : o = k * S
      BY <1>3 DEF Ordinals
    <2>2. QED
      BY <1>5, <2>1
  <1>7. ASSUME NEW k \in 1 .. OldSummaries
        PROVE  /\ OldSummary(k).id = k /\ OldSummary(k).depth = 0
               /\ \A m \in OldSummary(k).over : m \in 1 .. N /\ (k - 1) * F < m /\ m <= k * F
               /\ \A m \in Nat : (k - 1) * F < m /\ m <= k * F => m \in OldSummary(k).over
    <2>1. OldSummary(k) = [id |-> k, depth |-> 0, over |-> (k - 1) * F + 1 .. k * F]
      BY DEF OldSummary, F
    <2>2. k \in Nat /\ k >= 1 /\ k <= OldSummaries
      BY <1>4
    <2>3. k - 1 \in Nat
      BY <2>2
    <2>4. PICK x \in Nat : x = (k - 1) * F
      BY <1>1, <2>3
    <2>5. PICK y \in Nat : y = k * F
      BY <1>1, <2>2
    <2>6. y <= N
      BY <1>1, <2>2, <2>5
    <2>7. OldSummary(k).over = x + 1 .. y
      BY <2>1, <2>4, <2>5
    <2>8. \A m \in x + 1 .. y : m \in 1 .. N /\ x < m /\ m <= y
      BY <1>2, <2>4, <2>5, <2>6
    <2>9. \A m \in Nat : x < m /\ m <= y => m \in x + 1 .. y
      BY <2>4, <2>5
    <2>10. QED
      BY <2>1, <2>4, <2>5, <2>7, <2>8, <2>9
  <1>8. ASSUME NEW k \in 1 .. OldSummaries, NEW l \in 1 .. OldSummaries, k < l
        PROVE  \A m \in OldSummary(k).over, n \in OldSummary(l).over : m < n
    <2> SUFFICES ASSUME NEW m \in OldSummary(k).over, NEW n \in OldSummary(l).over PROVE m < n
      OBVIOUS
    <2>1. k \in Nat /\ l - 1 \in Nat /\ k <= l - 1
      BY <1>4, <1>8
    <2>2. k * F <= (l - 1) * F
      BY <1>1, <2>1
    <2>3. PICK x \in Nat : x = k * F
      BY <1>1, <2>1
    <2>4. PICK y \in Nat : y = (l - 1) * F
      BY <1>1, <2>1
    <2>5. m \in Nat /\ m <= x
      BY <1>2, <1>7, <2>3
    <2>6. n \in Nat /\ y < n
      BY <1>2, <1>7, <2>4
    <2>7. QED
      BY <2>2, <2>3, <2>4, <2>5, <2>6
  <1>9. ASSUME NEW k \in 1 .. OldSummaries, NEW l \in 1 .. OldSummaries, k * S < l * S
        PROVE  k < l
    <2>1. k \in Nat /\ l \in Nat
      BY <1>4
    <2> SUFFICES ASSUME l <= k PROVE FALSE
      BY <2>1
    <2>2. l * S <= k * S
      BY <1>1, <2>1
    <2>3. QED
      BY <1>4, <1>9, <2>2
  <1>10. ASSUME NEW m \in 1 .. N PROVE \E k \in 1 .. OldSummaries : m \in OldSummary(k).over
    <2> DEFINE K == {k \in Nat : m <= k * F}
    <2>1. m \in Nat /\ m >= 1 /\ m <= N
      BY <1>2
    <2>2. OldSummaries \in K
      BY <1>1, <2>1
    <2>3. PICK k \in K : \A l \in K : k <= l
      <3> HIDE DEF K
      <3>1. K \in SUBSET Nat
        BY DEF K
      <3>2. QED
        BY <2>2, <3>1, LeastExists
    <2>4. k \in Nat /\ m <= k * F /\ k <= OldSummaries
      <3>1. k <= OldSummaries
        BY <2>2, <2>3
      <3>2. QED
        BY <3>1
    <2>5. k # 0
      <3> SUFFICES ASSUME k = 0 PROVE FALSE
        OBVIOUS
      <3>1. k * F = 0
        BY <1>1
      <3>2. QED
        BY <2>1, <2>4, <3>1
    <2>6. k - 1 \in Nat
      BY <2>4, <2>5
    <2>7. k - 1 \notin K
      <3>1. ~(k <= k - 1)
        BY <2>4
      <3> HIDE DEF K
      <3>2. QED
        BY <2>3, <3>1
    <2>8. ~(m <= (k - 1) * F)
      BY <2>6, <2>7
    <2>9. PICK x \in Nat : x = (k - 1) * F
      BY <1>1, <2>6
    <2>10. (k - 1) * F < m
      BY <2>1, <2>8, <2>9
    <2>11. k \in 1 .. OldSummaries
      BY <1>1, <2>4, <2>5
    <2>12. QED
      BY <1>7, <2>1, <2>4, <2>10, <2>11
  <1>11. /\ log \in Seq(MessageIds) /\ Len(log) = N /\ Growing(log) /\ Range(log) = 1 .. N
    <2>1. 1 .. N \subseteq MessageIds
      BY <1>1, <1>2 DEF MessageIds
    <2>2. log \in Seq(MessageIds) /\ Len(log) = N
      BY <1>2, <1>3, <2>1
    <2>3. Growing(log)
      BY <1>2, <1>3, <2>2 DEF Growing
    <2>4. Range(log) = 1 .. N
      BY <1>3 DEF Range
    <2>5. QED
      BY <2>2, <2>3, <2>4
  <1>12. worker \in WorkerRecord /\ worker.todo = <<>> /\ worker.added = <<>> /\ worker.at = "idle"
         /\ worker.over = {} /\ worker.mark = 0
    <2>1. <<>> \in Seq(MessageIds) /\ <<0, 0>> \in Nat \X Nat
      OBVIOUS
    <2>2. QED
      BY <1>3, <2>1 DEF AtRest, WorkerRecord
  <1>13. /\ condenser \in [Condensers -> CondenserRecord]
         /\ \A c \in Condensers : condenser[c] = Off
    <2>1. <<0, 0>> \in Nat \X Nat /\ 0 \in 0 .. MaxSummaries
      BY <1>1
    <2>2. Off \in CondenserRecord
      BY <2>1 DEF Off, CondenserRecord
    <2>3. QED
      BY <1>3, <2>2
  <1>14. /\ Off.at = "off" /\ Off.picks = {} /\ Off.each = FALSE
    BY DEF Off
  <1>15. Range(<<>>) = {}
    BY DEF Range
  <1>16. Pending = {}
    BY <1>12, <1>15 DEF Pending
  <1>17. Stored(items)
    <2>1. DOMAIN items = {k * S : k \in 1 .. OldSummaries}
      BY <1>3
    <2>2. DOMAIN items \subseteq Nat
      BY <1>4, <2>1
    <2> DEFINE h == [k \in 1 .. OldSummaries |-> k * S]
    <2>3. h \in Surjection(1 .. OldSummaries, DOMAIN items)
      BY <2>1 DEF Surjection
    <2>4. IsFiniteSet(1 .. OldSummaries)
      BY <1>1, FS_Interval
    <2> HIDE DEF h
    <2>5. IsFiniteSet(DOMAIN items) /\ Cardinality(DOMAIN items) <= Cardinality(1 .. OldSummaries)
      BY <2>3, <2>4, FS_Surjection
    <2>6. QED
      BY <2>2, <2>5 DEF Stored
  <1>18. SeaTypes
    <2>1. said \in 0 .. MaxSaid /\ made \in 0 .. MaxSummaries
      BY <1>1, <1>2, <1>3
    <2>2. log \in Seq(MessageIds) /\ rows \in Seq(MessageIds)
      BY <1>3, <1>11
    <2>3. /\ missed \subseteq MessageIds /\ again \subseteq MessageIds /\ wiped \subseteq 1 .. said
          /\ overlap \in BOOLEAN /\ clash \in BOOLEAN
      BY <1>3
    <2>4. worker \in WorkerRecord /\ condenser \in [Condensers -> CondenserRecord]
      BY <1>12, <1>13
    <2>5. QED
      BY <1>17, <2>1, <2>2, <2>3, <2>4 DEF SeaTypes
  <1>19. SeaPlaces
    <2>1. \A c \in Condensers : /\ condenser[c].at = "off" /\ condenser[c].picks = {}
                                /\ ~condenser[c].each
      BY <1>13, <1>14
    <2>2. /\ worker.todo = <<>> /\ worker.added = <<>> /\ worker.at = "idle"
          /\ worker.over = {}
      BY <1>12
    <2>3. "worker" \in Condensers
      BY DEF Condensers
    <2>4. QED
      BY <2>1, <2>2, <2>3 DEF SeaPlaces
  <1>20. ASSUME NEW i \in Known
         PROVE  \E k \in 1 .. OldSummaries : i = OldSummary(k)
    <2>1. Picked = {}
      BY <1>13, <1>14 DEF Picked
    <2>2. PICK o \in Ordinals : items[o] = i
      BY <2>1, RangeOf DEF Known, Ordinals
    <2>3. QED
      BY <1>6, <2>2
  <1>21. ASSUME NEW k \in 1 .. OldSummaries
         PROVE  Fits(OldSummary(k)) /\ Summarises(OldSummary(k))
    <2>1. k \in Nat /\ k >= 1 /\ k <= OldSummaries
      BY <1>4
    <2>2. OldSummary(k) = [id |-> k, depth |-> 0, over |-> OldSummary(k).over]
      BY DEF OldSummary
    <2>3. OldSummary(k).over \subseteq 1 .. N
      BY <1>7
    <2>4. 1 .. N \subseteq MessageIds
      BY <1>1, <1>2 DEF MessageIds
    <2>5. k \in 0 .. MaxSummaries /\ 0 \in MessageDepth .. MaxSummaries
      BY <1>1, <2>1 DEF MessageDepth
    <2>6. OldSummary(k) \in Item
      <3>1. PICK over \in SUBSET MessageIds : over = OldSummary(k).over
        BY <2>3, <2>4
      <3>2. OldSummary(k) = [id |-> k, depth |-> 0, over |-> over]
        BY <2>2, <3>1
      <3>3. QED
        BY <2>5, <3>2 DEF Item
    <2>7. OldSummary(k).id = k /\ OldSummary(k).depth = 0 /\ MessageDepth = -1
      BY <1>7 DEF MessageDepth
    <2>8. QED
      BY <1>3, <2>1, <2>3, <2>6, <2>7 DEF Fits, Summarises
  <1>22. SeaRows
    <2>1. rows \o worker.todo = rows /\ worker.added \o worker.todo = <<>>
      BY <1>3, <1>11, <1>12
    <2>2. Growing(<<>>)
      BY DEF Growing
    <2>3. \A i \in Range(items) : Summarises(i)
      BY <1>20, <1>21 DEF Known
    <2>4. worker.mark <= Len(log)
      BY <1>2, <1>11, <1>12
    <2>5. QED
      BY <1>3, <1>11, <1>12, <1>15, <2>1, <2>2, <2>3, <2>4 DEF SeaRows
  <1>23. SeaNames
    <2>1. \A i \in Known : Fits(i)
      BY <1>20, <1>21
    <2>2. \A i, j \in Known : i.id = j.id => i = j
      BY <1>7, <1>20
    <2>3. \A c \in Condensers : condenser[c].at # "swap"
      BY <1>13, <1>14
    <2>4. QED
      BY <2>1, <2>2, <2>3 DEF SeaNames
  <1>24. Clean
    <2>1. Deepest
      <3> SUFFICES ASSUME NEW o \in Ordinals, NEW p \in Ordinals
                   PROVE  items[o].depth >= items[p].depth
        BY DEF Deepest
      <3>1. items[o].depth = 0 /\ items[p].depth = 0
        BY <1>6, <1>7
      <3>2. QED
        BY <3>1
    <2>2. Distinct
      <3> SUFFICES ASSUME NEW o \in Ordinals, NEW p \in Ordinals, items[o] = items[p]
                   PROVE  o = p
        BY DEF Distinct
      <3>1. PICK k \in 1 .. OldSummaries : o = k * S /\ items[o] = OldSummary(k)
        BY <1>6
      <3>2. PICK l \in 1 .. OldSummaries : p = l * S /\ items[p] = OldSummary(l)
        BY <1>6
      <3>3. k = l
        BY <1>7, <3>1, <3>2
      <3>4. QED
        BY <3>1, <3>2, <3>3
    <2>3. Leafing /\ Emptied
      BY <1>12 DEF Leafing, Emptied
    <2>4. Range(log) \subseteq Covered
      <3> SUFFICES ASSUME NEW m \in 1 .. N PROVE m \in Covered
        BY <1>11
      <3>1. PICK k \in 1 .. OldSummaries : m \in OldSummary(k).over
        BY <1>10
      <3>2. PICK o \in Ordinals : items[o] = OldSummary(k)
        BY <1>5
      <3>3. QED
        BY <3>1, <3>2 DEF Covered
    <2>5. Complete
      BY <1>12, <2>4 DEF Complete
    <2>6. \A c \in Condensers : ~condenser[c].each /\ Waiting(c)
      BY <1>13, <1>14 DEF Waiting
    <2>7. QED
      BY <1>3, <2>1, <2>2, <2>3, <2>5, <2>6 DEF Clean
  <1>25. Wiped
    BY <1>3 DEF Wiped
  <1>26. Sorted
    <2> SUFFICES ASSUME NEW o \in Ordinals, NEW p \in Ordinals, o < p
                 PROVE  \A m \in items[o].over, n \in items[p].over : m < n
      BY DEF Sorted
    <2>1. PICK k \in 1 .. OldSummaries : o = k * S /\ items[o] = OldSummary(k)
      BY <1>6
    <2>2. PICK l \in 1 .. OldSummaries : p = l * S /\ items[p] = OldSummary(l)
      BY <1>6
    <2>3. k < l
      BY <1>9, <2>1, <2>2
    <2>4. QED
      BY <1>8, <2>1, <2>2, <2>3
  <1>27. Apart
    <2> SUFFICES ASSUME NEW o \in Ordinals, NEW p \in Ordinals, o # p,
                        NEW m \in items[o].over, m \in items[p].over
                 PROVE  FALSE
      BY DEF Apart
    <2>1. o \in Nat /\ p \in Nat
      BY <1>17 DEF Stored, Ordinals
    <2>2. o < p \/ p < o
      BY <2>1
    <2>3. m < m
      BY <1>26, <2>2 DEF Sorted
    <2>4. PICK k \in 1 .. OldSummaries : items[o] = OldSummary(k)
      BY <1>6
    <2>5. m \in 1 .. N
      BY <1>7, <2>4
    <2>6. m \in Nat
      BY <1>2, <2>5
    <2>7. QED
      BY <2>3, <2>6
  <1>28. Single
    BY <1>13, <1>14, <1>16, <1>27 DEF Single
  <1>29. InOrder
    BY <1>16, <1>26 DEF InOrder
  <1>30. QED
    BY <1>18, <1>19, <1>22, <1>23, <1>24, <1>25, <1>28, <1>29 DEF SeaInv

(* What the invariant says of the context.                                   *)
LEMMA SeaKept ==
    ASSUME SeahorseAssumption, SeaInv
    PROVE  ContextTypeOK /\ ContextIsKept
  <1>1. SeaTypes /\ SeaPlaces /\ SeaNames /\ Clean /\ Single /\ InOrder
    BY DEF SeaInv
  <1>2. Range(items) \subseteq Item
    BY <1>1 DEF SeaNames, Known, Fits
  <1>3. /\ worker \in WorkerRecord /\ Stored(items)
        /\ \A c \in Condensers : condenser[c] \in CondenserRecord
    BY <1>1 DEF SeaTypes
  <1>4. /\ worker.at \in {"boot", "idle", "on", "rows", "leaf", "launch", "under", "condense",
                          "clearing"}
        /\ worker.next \in {"idle", "on", "launch", "under"}
        /\ worker.todo \in Seq(MessageIds) /\ worker.added \in Seq(MessageIds)
    BY <1>3 DEF WorkerRecord
  <1>5. \A c \in Condensers : /\ condenser[c].at \in {"off", "pick", "llm", "swap"}
                              /\ condenser[c].picks \subseteq Item
    BY <1>3 DEF CondenserRecord
  <1>6. 1 .. said \subseteq MessageIds
    BY <1>1 DEF SeaTypes, MessageIds, SeahorseAssumption
  <1>7. ContextTypeOK
    BY <1>1, <1>2, <1>3, <1>4, <1>5, <1>6 DEF ContextTypeOK, SeaTypes, Stored
  <1>8. HistoryIsCovered
    BY <1>1 DEF Clean, Complete, HistoryIsCovered
  <1>9. CoveredOnce
    BY <1>1 DEF Single, Apart, CoveredOnce
  <1>10. OldestFirst
    <2> SUFFICES ASSUME ~overlap, ~clash, again = {}, NEW o \in Ordinals, NEW p \in Ordinals, o < p
                 PROVE  /\ items[o].depth >= items[p].depth
                        /\ \A m \in items[o].over, n \in items[p].over : m < n
      BY DEF OldestFirst
    <2>1. Deepest /\ Sorted
      BY <1>1 DEF Clean, InOrder
    <2>2. QED
      BY <2>1 DEF Deepest, Sorted
  <1>11. NeighboursOnly /\ WipedStaysAway
    BY <1>1 DEF Clean, NeighboursOnly, WipedStaysAway
  <1>12. QED
    BY <1>7, <1>8, <1>9, <1>10, <1>11 DEF ContextIsKept

(* The inductive invariant of the Seahorse manager: whatever the worker's turn *)
(* (its rows, its leaf pass, its overflow compaction), the condensers working  *)
(* behind it, a bootstrap, a wipe or a crash do next, the stored context stays *)
(* of the shape on which the next of them relies.                              *)
THEOREM SeahorseInvariant ==
    ASSUME SeahorseAssumption PROVE SeahorseSpec => []SeaInv
  <1>1. SeahorseInit => SeaInv
    BY SeaBegins
  <1>2. SeaInv /\ [SeahorseNext]_seaVars => SeaInv'
    BY SeaStep
  <1>3. QED
    BY <1>1, <1>2, PTL DEF SeahorseSpec

(* A message has a row of its own, a summary a depth and messages that were    *)
(* said, and the worker and every condenser are at one of their own steps.     *)
THEOREM ContextIsWellTyped ==
    ASSUME SeahorseAssumption PROVE SeahorseSpec => []ContextTypeOK
  <1>1. SeaInv => ContextTypeOK
    BY SeaKept
  <1>2. QED
    BY <1>1, SeahorseInvariant, PTL

(* What Assemble reads.  While no replacement wipes a range that changed after *)
(* its limits were read, every message of the history is in the context, as    *)
(* itself or in a summary, but for those whose ingestion failed; what /clear   *)
(* wiped stays away; a condenser whose candidates are still there swaps        *)
(* neighbours only.  While besides no condenser chooses behind another's back, *)
(* no message is there twice that Bootstrap did not add again, and where it    *)
(* added none, the context is oldest and deepest first.                        *)
THEOREM SeahorseKeepsContext ==
    ASSUME SeahorseAssumption PROVE SeahorseSpec => []ContextIsKept
  <1>1. SeaInv => ContextIsKept
    BY SeaKept
  <1>2. QED
    BY <1>1, SeahorseInvariant, PTL

================================================================================
