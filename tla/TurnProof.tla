----------------------------- MODULE TurnProof -----------------------------
(* What is proved of Turn for every number of steering messages, iterations, *)
(* tool calls, retries and earlier messages.                                 *)
EXTENDS Turn, FiniteSetTheorems, SequenceTheorems, WellFoundedInduction, TLAPS

(* A history that is not empty begins with a user message.                   *)
FromUser(h) == h # <<>> => h[1].role = "user"

(* h begins with all of r.                                                   *)
Begins(r, h) == Len(r) <= Len(h) /\ \A i \in 1 .. Len(r) : h[i] = r[i]

(* Where the turn is between an LLM call and the end of its tools.           *)
InLLM == pc \in {"llm", "backoff", "answered"}
InTools == pc \in {"tool", "approve", "running", "append"}

(* The tool call in turn is one of the response's; in between the next one   *)
(* may be past the last.  The turn is rolled back only after an abort, and   *)
(* HardAbort's goroutine goes on only after it has aborted the turn.  Until  *)
(* the first iteration the two pending lists are the same: what Continue     *)
(* started the turn with.                                                    *)
PlaceInv ==
    /\ InTools => calls > 0 /\ next \in 1 .. calls + 1
    /\ pc \in {"approve", "running", "append"} => next <= calls
    /\ pc = "backoff" => retry < MaxRetries
    /\ InLLM \/ InTools \/ pc \in {"afterTools", "handled"} => iteration > 0
    /\ pc = "start" => persisted = <<>>
    /\ pc = "restore" => hardAbort
    /\ stop \in {"requested", "read", "done"} => hardAbort
    /\ iteration = 0 => pending = execPending
    /\ ~continuation /\ iteration = 0 => execPending = <<>>
    /\ continuation /\ pc = "start" => execPending # <<>>

(* Before anything is aborted the store's history begins with a user message *)
(* and is empty only if there is one to inject.                              *)
StoreInv ==
    ~hardAbort =>
        /\ FromUser(history)
        /\ pc = "start" => history = Old
        /\ pc \notin {"start", "guard", "iterate"} => history # <<>>
        /\ pc \in {"guard", "iterate"} /\ history = <<>> => execPending # <<>>

SafeInv == TurnTypeOK /\ PlaceInv /\ StoreInv

(* The response it with c calls and the results of the first n of them, and  *)
(* the results of the m that follow.                                         *)
Group(it, c, n) == <<Msg("calls", it, c)>> \o [i \in 1 .. n |-> Msg("tool", it, i)]

Results(it, n, m) == [i \in 1 .. m |-> Msg("tool", it, n + i)]

(* Calls and results pair, but for the calls of the response at work: in the *)
(* store, in what the LLM is sent and in what the turn has stored.           *)
Paired(h) ==
    /\ ~InTools /\ status # "error" => WellPaired(h)
    /\ InTools => \E g \in Seq(ProviderMessages) :
                      WellPaired(g) /\ h = g \o Group(iteration, calls, next - 1)
PairInv == ~hardAbort => Paired(history) /\ Paired(messages) /\ Paired(persisted)

(* The same of a list h of the next state.                                   *)
PairedNext(h) ==
    /\ ~InTools' /\ status' # "error" => WellPaired(h)
    /\ InTools' => \E g \in Seq(ProviderMessages) :
                       WellPaired(g) /\ h = g \o Group(iteration', calls', next' - 1)

(* No steering message is lost: it is in the queue, about to be injected or  *)
(* part of the turn.                                                         *)
In(m, q) == \E i \in DOMAIN q : q[i] = m
SteerInv ==
    /\ stop = "none" => \A m \in 1 .. sent : In(m, queue) \/ In(m, execPending) \/ Injected(m)
    /\ InLLM \/ InTools \/ pc \in {"handled", "finalize"} \/ status = "completed" =>
          execPending = <<>>

(* The restore point begins the history until HardAbort has written, and     *)
(* what HardAbort has read; an aborted turn has put it back.                 *)
RestoreInv ==
    /\ stop # "done" => Begins(restorePoint, history)
    /\ stop = "read" => Begins(restorePoint, stopRead)
    /\ status = "aborted" /\ restorePoint = Old => history = Old
-----------------------------------------------------------------------------
(* Sequences and the operators of the model.                                 *)

(* A message is one of the provider's.                                       *)
LEMMA MsgType ==
    ASSUME NEW role \in {"user", "calls", "tool", "assistant"}, NEW n \in Int, NEW k \in Nat
    PROVE  Msg(role, n, k) \in ProviderMessages
  BY DEF Msg, ProviderMessages

(* The session's earlier messages.                                           *)
LEMMA OldType == Old \in Seq(ProviderMessages) /\ Len(Old) = 2 * OldTurns
  <1>1. Old \in Seq(ProviderMessages)
    BY TurnAssumption DEF Old, Msg, ProviderMessages
  <1>2. QED
    BY <1>1, TurnAssumption DEF Old, Msg, ProviderMessages

(* Steering messages as messages of the turn.                                *)
LEMMA SteeredType ==
    ASSUME NEW q \in Seq(1 .. NumSteering)
    PROVE  /\ Steered(q) \in Seq(ProviderMessages)
           /\ Len(Steered(q)) = Len(q)
           /\ \A i \in 1 .. Len(q) : Steered(q)[i] = Msg("user", q[i], 0)
  <1>1. Len(q) \in Nat /\ DOMAIN q = 1 .. Len(q)
    BY LenProperties
  <1>2. \A i \in 1 .. Len(q) : Msg("user", q[i], 0) \in ProviderMessages
    BY <1>1, ElementOfSeq, TurnAssumption DEF Msg, ProviderMessages
  <1>3. Steered(q) = [i \in 1 .. Len(q) |-> Msg("user", q[i], 0)]
    BY <1>1 DEF Steered
  <1>4. QED
    BY <1>1, <1>2, <1>3

(* Adding to a history that is not empty.                                    *)
LEMMA Added ==
    ASSUME NEW h \in Seq(ProviderMessages), NEW ms \in Seq(ProviderMessages)
    PROVE  /\ h \o ms \in Seq(ProviderMessages)
           /\ Begins(h, h \o ms)
           /\ h # <<>> /\ FromUser(h) => FromUser(h \o ms)
           /\ h # <<>> => h \o ms # <<>>
  <1>1. /\ h \o ms \in Seq(ProviderMessages)
        /\ Len(h \o ms) = Len(h) + Len(ms)
        /\ Len(h) \in Nat /\ Len(ms) \in Nat
        /\ \A i \in 1 .. Len(h) + Len(ms) :
               (h \o ms)[i] = IF i <= Len(h) THEN h[i] ELSE ms[i - Len(h)]
    BY ConcatProperties, LenProperties
  <1>2. Begins(h, h \o ms)
    BY <1>1 DEF Begins
  <1>3. ASSUME h # <<>>
        PROVE  1 \in 1 .. Len(h) /\ (h \o ms)[1] = h[1] /\ h \o ms # <<>>
    <2>1. Len(h) # 0
      BY <1>3, EmptySeq
    <2>2. Len(h \o ms) # 0
      BY <1>1, <2>1
    <2>3. QED
      BY <1>1, <2>1, <2>2
  <1>4. QED
    BY <1>1, <1>2, <1>3 DEF FromUser

(* What begins a history still begins it with more at the end.               *)
LEMMA BeginsAgain ==
    ASSUME NEW r \in Seq(ProviderMessages), NEW h \in Seq(ProviderMessages),
           NEW ms \in Seq(ProviderMessages), Begins(r, h)
    PROVE  Begins(r, h \o ms)
  <1>1. /\ Len(h \o ms) = Len(h) + Len(ms)
        /\ Len(h) \in Nat /\ Len(ms) \in Nat /\ Len(r) \in Nat
        /\ \A i \in 1 .. Len(h) + Len(ms) :
               (h \o ms)[i] = IF i <= Len(h) THEN h[i] ELSE ms[i - Len(h)]
    BY ConcatProperties, LenProperties
  <1>2. QED
    BY <1>1 DEF Begins

(* What a poll takes and what it leaves.                                     *)
LEMMA PollType ==
    ASSUME NEW q \in Seq(1 .. NumSteering)
    PROVE  /\ Batch(q) \in Seq(1 .. NumSteering)
           /\ Rest(q) \in Seq(1 .. NumSteering)
           /\ \A m : In(m, q) => In(m, Batch(q)) \/ In(m, Rest(q))
           /\ q = <<>> => Batch(q) = <<>> /\ Rest(q) = <<>>
  <1>1. CASE SteeringMode = "all" \/ q = <<>>
    BY <1>1, EmptySeq DEF Batch, Rest
  <1>2. CASE SteeringMode # "all" /\ q # <<>>
    <2>1. Batch(q) = <<q[1]>> /\ Rest(q) = Tail(q)
      BY <1>2 DEF Batch, Rest
    <2>2. /\ Tail(q) \in Seq(1 .. NumSteering)
          /\ Len(q) \in Nat \ {0}
          /\ Len(Tail(q)) = Len(q) - 1
          /\ \A i \in 1 .. Len(Tail(q)) : Tail(q)[i] = q[i + 1]
      BY <1>2, HeadTailProperties, EmptySeq
    <2>3. DOMAIN q = 1 .. Len(q) /\ DOMAIN Tail(q) = 1 .. Len(q) - 1
      BY <2>2, LenProperties
    <2>4. q[1] \in 1 .. NumSteering /\ <<q[1]>> \in Seq(1 .. NumSteering)
      <3>1. 1 \in 1 .. Len(q)
        BY <2>2
      <3>2. q[1] \in 1 .. NumSteering
        BY <3>1, ElementOfSeq
      <3>3. QED
        BY <3>2
    <2>5. \A i \in DOMAIN q : i = 1 \/ (i - 1 \in DOMAIN Tail(q) /\ q[i] = Tail(q)[i - 1])
      BY <2>2, <2>3
    <2>6. DOMAIN Batch(q) = {1} /\ Batch(q)[1] = q[1]
      BY <2>1
    <2>7. \A m : In(m, q) => In(m, Batch(q)) \/ In(m, Rest(q))
      BY <2>1, <2>5, <2>6 DEF In
    <2>8. QED
      BY <1>2, <2>1, <2>2, <2>4, <2>7
  <1>3. QED
    BY <1>1, <1>2

(* What is in one list or the other is in the two together.                  *)
LEMMA InConcat ==
    ASSUME NEW p \in Seq(1 .. NumSteering), NEW q \in Seq(1 .. NumSteering), NEW m
    PROVE  In(m, p \o q) <=> In(m, p) \/ In(m, q)
  <1>1. /\ p \o q \in Seq(1 .. NumSteering)
        /\ Len(p \o q) = Len(p) + Len(q)
        /\ \A i \in 1 .. Len(p) + Len(q) :
               (p \o q)[i] = IF i <= Len(p) THEN p[i] ELSE q[i - Len(p)]
    BY ConcatProperties
  <1>2. /\ Len(p) \in Nat /\ DOMAIN p = 1 .. Len(p)
        /\ Len(q) \in Nat /\ DOMAIN q = 1 .. Len(q)
        /\ DOMAIN (p \o q) = 1 .. Len(p) + Len(q)
    BY <1>1, LenProperties
  <1>3. ASSUME NEW i \in DOMAIN p, p[i] = m
        PROVE  In(m, p \o q)
    <2>1. i \in DOMAIN (p \o q) /\ (p \o q)[i] = m
      BY <1>1, <1>2, <1>3
    <2>2. QED
      BY <2>1 DEF In
  <1>4. ASSUME NEW i \in DOMAIN q, q[i] = m
        PROVE  In(m, p \o q)
    <2>1. Len(p) + i \in DOMAIN (p \o q) /\ (p \o q)[Len(p) + i] = m
      BY <1>1, <1>2, <1>4
    <2>2. QED
      BY <2>1 DEF In
  <1>5. ASSUME NEW i \in DOMAIN (p \o q), (p \o q)[i] = m
        PROVE  In(m, p) \/ In(m, q)
    <2>1. \/ i \in DOMAIN p /\ p[i] = m
          \/ i - Len(p) \in DOMAIN q /\ q[i - Len(p)] = m
      BY <1>1, <1>2, <1>5
    <2>2. QED
      BY <2>1 DEF In
  <1>6. QED
    BY <1>3, <1>4, <1>5 DEF In

-----------------------------------------------------------------------------
(* The choices of Middle and of WithoutTurn exist.                           *)

(* A set of numbers that is not empty has a least one.                       *)
LEMMA LeastExists ==
    ASSUME NEW S \in SUBSET Nat, S # {}
    PROVE  \E x \in S : \A y \in S : x <= y
  <1>1. PICK x \in S : \A y \in S : ~(<<y, x>> \in OpToRel(<, Nat))
    BY NatLessThanWellFounded, WFMin
  <1>2. ASSUME NEW y \in S PROVE x <= y
    <2>1. <<y, x>> \in Nat \X Nat /\ ~(<<y, x>> \in OpToRel(<, Nat))
      BY <1>1
    <2>2. OpToRel(<, Nat) = {ss \in Nat \X Nat : ss[1] < ss[2]}
      BY DEF OpToRel
    <2>3. ~(y < x)
      BY <2>1, <2>2
    <2>4. QED
      BY <2>3
  <1>3. QED
    BY <1>2

(* A bounded one has a greatest one.                                         *)
LEMMA GreatestExists ==
    ASSUME NEW n \in Nat, NEW S \in SUBSET (0 .. n), S # {}
    PROVE  \E x \in S : \A y \in S : y <= x
  <1>1. PICK d \in {n - i : i \in S} : \A e \in {n - i : i \in S} : d <= e
    <2>1. \A i \in S : n - i \in Nat
      OBVIOUS
    <2>2. {n - i : i \in S} \in SUBSET Nat /\ {n - i : i \in S} # {}
      BY <2>1
    <2>3. QED
      BY <2>2, LeastExists
  <1>2. PICK x \in S : d = n - x
    BY <1>1
  <1>3. \A y \in S : n - x <= n - y
    BY <1>1, <1>2
  <1>4. QED
    BY <1>3

(* There is a user message with half of the others before it: the first with *)
(* at least as many before it has no more.                                   *)
LEMMA MiddleExists ==
    ASSUME NEW n \in Nat, NEW S \in SUBSET (1 .. n), S # {}
    PROVE  Middle(S) \in S
  <1>1. IsFiniteSet(S)
    <2>1. IsFiniteSet(1 .. n)
      BY FS_Interval
    <2>2. QED
      BY <2>1, FS_Subset
  <1>2. Cardinality(S) \in Nat /\ Cardinality(S) > 0
    BY <1>1, FS_CardinalityType, FS_EmptySet
  <1>3. PICK half \in Nat : half = Cardinality(S) \div 2 /\ half < Cardinality(S)
    BY <1>2
  <1> DEFINE Below(i) == {j \in S : j < i}
             T == {i \in S : Cardinality(Below(i)) >= half}
  <1>4. ASSUME NEW i \in S
        PROVE  IsFiniteSet(Below(i)) /\ Cardinality(Below(i)) \in Nat
    <2>1. IsFiniteSet(Below(i))
      BY <1>1, FS_Subset
    <2>2. QED
      BY <2>1, FS_CardinalityType
  <1>5. ASSUME NEW R \in SUBSET S, R # {}
        PROVE  \E x \in R : \A y \in R : y <= x
    <2>1. R \in SUBSET (0 .. n)
      OBVIOUS
    <2>2. QED
      BY <2>1, <1>5, GreatestExists
  <1>6. ASSUME NEW R \in SUBSET S, NEW x \in R, \A y \in R : y <= x
        PROVE  {j \in R : j < x} = R \ {x}
    <2>1. \A j \in R : j < x <=> j # x
      BY <1>6
    <2>2. QED
      BY <2>1
  <1>7. T # {}
    <2>1. PICK x \in S : \A y \in S : y <= x
      BY <1>5
    <2>2. Below(x) = S \ {x}
      BY <2>1, <1>6
    <2>3. Cardinality(S \ {x}) = Cardinality(S) - 1
      BY <1>1, FS_RemoveElement
    <2>4. Cardinality(Below(x)) >= half
      BY <2>2, <2>3, <1>2, <1>3
    <2>5. QED
      BY <2>4
  <1>8. PICK i \in T : \A y \in T : i <= y
    <2>1. \A y \in T : y \in Nat
      OBVIOUS
    <2> HIDE DEF T
    <2>2. T \in SUBSET Nat
      BY <2>1
    <2>3. QED
      BY <2>2, <1>7, LeastExists
  <1>9. i \in S /\ Cardinality(Below(i)) >= half
    BY <1>8
  <1>10. Cardinality(Below(i)) <= half
    <2>1. CASE Below(i) = {}
      BY <2>1, <1>3, FS_EmptySet
    <2>2. CASE Below(i) # {}
      <3>1. PICK j \in Below(i) : \A y \in Below(i) : y <= j
        BY <2>2, <1>5
      <3>2. j \in S /\ j < i
        BY <3>1
      <3>3. Below(j) = Below(i) \ {j}
        <4>1. Below(j) = {y \in Below(i) : y < j}
          <5>1. \A y \in S : y < j => y < i
            BY <3>2, <1>9
          <5>2. QED
            BY <5>1
        <4>2. QED
          BY <4>1, <3>1, <1>6
      <3>4. Cardinality(Below(i) \ {j}) = Cardinality(Below(i)) - 1
        BY <1>4, <1>9, <3>1, FS_RemoveElement
      <3>5. j \notin T
        BY <3>2, <1>8, <1>9
      <3>6. ~(Cardinality(Below(j)) >= half)
        BY <3>5, <3>2
      <3>7. Cardinality(Below(i)) \in Nat
        BY <1>4, <1>9
      <3> HIDE DEF Below, T
      <3>8. QED
        BY <3>3, <3>4, <3>6, <3>7, <1>3
    <2>3. QED
      BY <2>1, <2>2
  <1>11. Cardinality(Below(i)) = Cardinality(S) \div 2
    <2>1. Cardinality(Below(i)) \in Nat
      BY <1>4, <1>9
    <2> HIDE DEF Below
    <2>2. Cardinality(Below(i)) = half
      BY <2>1, <1>9, <1>10
    <2>3. QED
      BY <2>2, <1>3
  <1>12. QED
    BY <1>9, <1>11 DEF Middle

-----------------------------------------------------------------------------
(* Calls and their results.                                                  *)

(* Cutting a history before any message but a result cuts no call off from   *)
(* its results.                                                              *)
LEMMA Suffix ==
    ASSUME NEW h \in Seq(ProviderMessages), NEW m \in 1 .. Len(h), h[m].role # "tool"
    PROVE  /\ SubSeq(h, m, Len(h)) \in Seq(ProviderMessages)
           /\ SubSeq(h, m, Len(h)) # <<>>
           /\ h[m].role = "user" => FromUser(SubSeq(h, m, Len(h)))
           /\ WellPaired(h) => WellPaired(SubSeq(h, m, Len(h)))
  <1> DEFINE s == SubSeq(h, m, Len(h))
  <1>1. /\ Len(h) \in Nat
        /\ \A i \in 1 .. Len(h) : h[i] \in ProviderMessages
        /\ DOMAIN h = 1 .. Len(h)
    BY LenProperties, ElementOfSeq
  <1>2. /\ s \in Seq(ProviderMessages)
        /\ Len(s) = Len(h) - m + 1
        /\ \A i \in 1 .. Len(h) - m + 1 : s[i] = h[m + i - 1]
    BY <1>1, SubSeqProperties
  <1>3. DOMAIN s = 1 .. Len(h) - m + 1
    BY <1>2, LenProperties
  <1>4. s # <<>> /\ s[1] = h[m]
    <2>1. 1 \in 1 .. Len(h) - m + 1 /\ m + 1 - 1 = m /\ Len(s) # 0
      BY <1>1, <1>2
    <2>2. QED
      BY <2>1, <1>2, EmptySeq
  <1>5. ASSUME WellPaired(h), NEW i \in DOMAIN s
        PROVE  /\ s[i].role = "calls" =>
                     \A k \in 1 .. s[i].k :
                         i + k <= Len(s) /\ s[i + k] = Msg("tool", s[i].n, k)
               /\ s[i].role = "tool" =>
                     /\ i > s[i].k
                     /\ LET c == s[i - s[i].k] IN
                          c.role = "calls" /\ c.n = s[i].n /\ s[i].k <= c.k
    <2>1. PICK j \in 1 .. Len(h) : j = m + i - 1 /\ s[i] = h[j] /\ m <= j
      BY <1>1, <1>2, <1>3
    <2>2. h[j].k \in Nat /\ h[j].n \in Int
      BY <1>1 DEF ProviderMessages
    <2>3. i = j - m + 1 /\ i \in Int /\ j \in 1 .. Len(h) /\ m <= j
      BY <2>1, <1>1, <1>3
    <2>4. ASSUME s[i].role = "calls", NEW k \in 1 .. s[i].k
          PROVE  i + k <= Len(s) /\ s[i + k] = Msg("tool", s[i].n, k)
      <3>1. j + k <= Len(h) /\ h[j + k] = Msg("tool", h[j].n, k)
        BY <1>1, <1>5, <2>1, <2>4 DEF WellPaired
      <3>2. /\ i + k \in 1 .. Len(h) - m + 1
            /\ m + (i + k) - 1 = j + k
            /\ s[i].n = h[j].n
        <4> DEFINE size == Len(h)
        <4>1. k \in Nat \ {0} /\ j + k <= size
          BY <3>1, <2>1, <2>2, <2>4
        <4>2. /\ i = j - m + 1 /\ i \in Int /\ j \in 1 .. size /\ size \in Nat
              /\ m \in 1 .. size /\ m <= j
          BY <2>3, <1>1
        <4>3. s[i].n = h[j].n
          BY <2>1
        <4> HIDE DEF size, s
        <4>4. i + k \in 1 .. size - m + 1 /\ m + (i + k) - 1 = j + k
          BY <4>1, <4>2
        <4>5. QED
          BY <4>3, <4>4 DEF size
      <3>3. s[i + k] = h[j + k]
        BY <3>2, <1>2
      <3>4. QED
        BY <3>1, <3>2, <3>3, <1>1, <1>2
    <2>5. ASSUME s[i].role = "tool"
          PROVE  /\ i > s[i].k
                 /\ s[i - s[i].k].role = "calls"
                 /\ s[i - s[i].k].n = s[i].n
                 /\ s[i].k <= s[i - s[i].k].k
      <3>1. /\ j > h[j].k
            /\ h[j - h[j].k].role = "calls"
            /\ h[j - h[j].k].n = h[j].n
            /\ h[j].k <= h[j - h[j].k].k
        BY <1>1, <1>5, <2>1, <2>5 DEF WellPaired
      <3>2. PICK c \in 1 .. Len(h) : c = j - h[j].k
        BY <3>1, <2>2, <1>1
      <3> DEFINE size == Len(h)
                 k == h[j].k
      <3>3. size \in Nat /\ k \in Nat /\ j \in Int /\ c \in 1 .. size /\ c = j - k
        BY <3>2, <2>1, <2>2, <1>1
      <3>4. h[c].role = "calls" /\ h[c].k \in Nat /\ h[j].k <= h[c].k
        BY <3>1, <3>2, <1>1 DEF ProviderMessages
      <3>5. c >= m
        <4>1. SUFFICES ASSUME c < m PROVE FALSE
          BY <1>1
        <4>2. m - c \in 1 .. h[c].k
          BY <4>1, <3>2, <3>4, <2>1, <2>2, <1>1
        <4>3. h[c + (m - c)] = Msg("tool", h[c].n, m - c)
          BY <4>2, <3>4, <1>1, <1>5 DEF WellPaired
        <4>4. h[m].role = "tool"
          BY <4>3, <3>2 DEF Msg
        <4>5. QED
          BY <4>4
      <3>6. /\ i - s[i].k \in 1 .. Len(h) - m + 1
            /\ m + (i - s[i].k) - 1 = c
        <4>1. /\ s[i].k = k /\ i = j - m + 1 /\ i \in Int
              /\ j \in 1 .. size /\ m \in 1 .. size
          BY <2>3, <2>1
        <4> HIDE DEF size, k
        <4>2. i - k \in 1 .. size - m + 1 /\ m + (i - k) - 1 = c
          BY <4>1, <3>3, <3>5
        <4>3. QED
          BY <4>1, <4>2 DEF size, k
      <3>7. s[i - s[i].k] = h[c]
        BY <3>6, <1>2
      <3>8. QED
        BY <3>1, <3>2, <3>6, <3>7, <2>1, <2>2, <1>1
    <2>6. QED
      BY <2>4, <2>5
  <1>6. WellPaired(h) => WellPaired(s)
    BY <1>5 DEF WellPaired
  <1>7. QED
    BY <1>2, <1>4, <1>6 DEF FromUser

(* Without calls and results there is nothing to pair.                       *)
LEMMA NoCalls ==
    ASSUME NEW h \in Seq(ProviderMessages),
           \A i \in 1 .. Len(h) : h[i].role \notin {"calls", "tool"}
    PROVE  WellPaired(h)
  BY LenProperties DEF WellPaired

(* The earlier messages are questions and answers.                           *)
LEMMA OldPaired == WellPaired(Old) /\ FromUser(Old)
  <1>1. Len(Old) \in Nat /\ DOMAIN Old = 1 .. Len(Old)
    BY OldType, LenProperties
  <1>2. \A i \in 1 .. Len(Old) : Old[i].role \in {"user", "assistant"}
    BY <1>1, OldType, TurnAssumption DEF Old, Msg
  <1>3. WellPaired(Old)
    BY <1>2, OldType, NoCalls
  <1>4. Old # <<>> => 1 \in 1 .. Len(Old)
    BY <1>1, OldType, EmptySeq
  <1>5. FromUser(Old)
    BY <1>4, <1>1, OldType, TurnAssumption DEF Old, Msg, FromUser
  <1>6. QED
    BY <1>3, <1>5

(* What forceCompression leaves pairs when the history did, and begins with  *)
(* a user message.                                                           *)
LEMMA CompressedType ==
    ASSUME NEW h \in Seq(ProviderMessages), FromUser(h)
    PROVE  /\ Compressed(h) \in Seq(ProviderMessages)
           /\ FromUser(Compressed(h))
           /\ h # <<>> => Compressed(h) # <<>>
           /\ WellPaired(h) => WellPaired(Compressed(h))
  <1>1. Len(h) \in Nat /\ DOMAIN h = 1 .. Len(h)
    BY LenProperties
  <1>2. CASE Len(h) <= 2
    BY <1>2 DEF Compressed
  <1>3. CASE Len(h) > 2
    <2>1. h # <<>> /\ 1 \in 1 .. Len(h) /\ h[1].role = "user" /\ h[1] \in ProviderMessages
      <3>1. h # <<>>
        BY <1>3, EmptySeq
      <3>2. 1 \in 1 .. Len(h)
        BY <1>1, <1>3
      <3>3. QED
        BY <3>1, <3>2, ElementOfSeq DEF FromUser
    <2>2. CASE UserStarts(h) = {1}
      <3>1. Compressed(h) = <<h[1]>>
        BY <1>1, <1>3, <2>2 DEF Compressed
      <3>2. <<h[1]>> \in Seq(ProviderMessages) /\ Len(<<h[1]>>) = 1 /\ <<h[1]>>[1] = h[1]
        BY <2>1
      <3>3. WellPaired(<<h[1]>>)
        <4>1. \A i \in 1 .. 1 : <<h[1]>>[i].role = "user"
          BY <3>2, <2>1
        <4>2. QED
          BY <4>1, <3>2, NoCalls
      <3>4. QED
        BY <3>1, <3>2, <3>3, <2>1 DEF FromUser
    <2>3. CASE UserStarts(h) # {1}
      <3>1. Compressed(h) = SubSeq(h, Middle(UserStarts(h)), Len(h))
        <4>1. ~(Len(h) <= 2)
          BY <1>1, <1>3
        <4>2. QED
          BY <4>1, <2>3, Zenon DEF Compressed
      <3>2. UserStarts(h) \in SUBSET (1 .. Len(h)) /\ UserStarts(h) # {}
        BY <1>1, <2>1 DEF UserStarts
      <3>3. Middle(UserStarts(h)) \in UserStarts(h)
        BY <1>1, <3>2, MiddleExists
      <3>4. /\ Middle(UserStarts(h)) \in 1 .. Len(h)
            /\ h[Middle(UserStarts(h))].role = "user"
        BY <3>2, <3>3 DEF UserStarts
      <3>5. QED
        BY <3>1, <3>4, Suffix
    <2>4. QED
      BY <2>2, <2>3
  <1>4. QED
    BY <1>1, <1>2, <1>3

(* There is a longest tail that the history and what was persisted share.    *)
LEMMA LongestMatch ==
    ASSUME NEW h \in Seq(ProviderMessages), NEW p \in Seq(ProviderMessages)
    PROVE  /\ TurnSize(h, p) \in Matches(h, p)
           /\ \A k \in Matches(h, p) : k <= TurnSize(h, p)
  <1>1. Len(h) \in Nat /\ Len(p) \in Nat
    BY LenProperties
  <1>2. 0 \in Matches(h, p)
    <2>1. LastOf(h, 0) = <<>> /\ LastOf(p, 0) = <<>>
      BY <1>1, SubSeqEmpty DEF LastOf
    <2>2. QED
      BY <2>1, <1>1 DEF Matches
  <1>3. Matches(h, p) \in SUBSET (0 .. Len(h))
    BY DEF Matches
  <1>4. \E n \in Matches(h, p) : \A k \in Matches(h, p) : k <= n
    BY <1>1, <1>2, <1>3, GreatestExists
  <1>5. QED
    BY <1>4 DEF TurnSize

(* What refreshRestorePointFromSession keeps begins the history.             *)
LEMMA WithoutTurnBegins ==
    ASSUME NEW h \in Seq(ProviderMessages), NEW p \in Seq(ProviderMessages)
    PROVE  WithoutTurn(h, p) \in Seq(ProviderMessages) /\ Begins(WithoutTurn(h, p), h)
  <1>1. Len(h) \in Nat /\ Len(p) \in Nat /\ \A i \in 1 .. Len(h) : h[i] \in ProviderMessages
    BY LenProperties, ElementOfSeq
  <1>3. Matches(h, p) \in SUBSET (0 .. Len(h))
    BY DEF Matches
  <1>5. PICK n \in Matches(h, p) : WithoutTurn(h, p) = SubSeq(h, 1, Len(h) - n)
    BY LongestMatch DEF WithoutTurn
  <1>6. n \in 0 .. Len(h)
    BY <1>3, <1>5
  <1>7. /\ SubSeq(h, 1, Len(h) - n) \in Seq(ProviderMessages)
        /\ Len(SubSeq(h, 1, Len(h) - n)) = Len(h) - n
        /\ \A i \in 1 .. Len(h) - n : SubSeq(h, 1, Len(h) - n)[i] = h[i]
    <2>1. /\ SubSeq(h, 1, Len(h) - n) \in Seq(ProviderMessages)
          /\ Len(SubSeq(h, 1, Len(h) - n)) =
                IF 1 <= Len(h) - n THEN (Len(h) - n) - 1 + 1 ELSE 0
          /\ \A i \in 1 .. (Len(h) - n) - 1 + 1 :
                 SubSeq(h, 1, Len(h) - n)[i] = h[1 + i - 1]
      BY <1>1, <1>6, SubSeqProperties
    <2>2. QED
      BY <2>1, <1>1, <1>6
  <1>8. QED
    BY <1>1, <1>5, <1>6, <1>7 DEF Begins

(* What is left out of a history begins no later than its user messages.     *)
LEMMA TrimsType ==
    ASSUME NEW h \in Seq(ProviderMessages), NEW t \in Trims(h)
    PROVE  t \in Seq(ProviderMessages) /\ (WellPaired(h) => WellPaired(t))
  <1>1. CASE t = h
    BY <1>1
  <1>2. CASE t = <<>>
    <2>1. <<>> \in Seq(ProviderMessages) /\ Len(<<>>) = 0
      BY EmptySeq
    <2>2. WellPaired(<<>>)
      <3>1. PICK e \in Seq(ProviderMessages) : e = <<>> /\ Len(e) = 0
        BY <2>1
      <3>2. \A i \in 1 .. Len(e) : e[i].role \notin {"calls", "tool"}
        BY <3>1
      <3>3. WellPaired(e)
        BY <3>1, <3>2, NoCalls
      <3>4. QED
        BY <3>1, <3>3
    <2>3. QED
      BY <1>2, <2>1, <2>2
  <1>3. ASSUME NEW i \in UserStarts(h), t = SubSeq(h, i, Len(h))
        PROVE  t \in Seq(ProviderMessages) /\ (WellPaired(h) => WellPaired(t))
    <2>1. i \in 1 .. Len(h) /\ h[i].role = "user"
      BY LenProperties DEF UserStarts
    <2>2. h[i].role # "tool"
      BY <2>1
    <2>3. QED
      BY <1>3, <2>1, <2>2, Suffix
  <1>4. QED
    BY <1>1, <1>2, <1>3 DEF Trims

(* A call and its results, at their places.                                  *)
LEMMA CallAt ==
    ASSUME NEW h \in Seq(ProviderMessages), WellPaired(h),
           NEW i \in 1 .. Len(h), h[i].role = "calls",
           NEW k \in Nat, 1 <= k, k <= h[i].k
    PROVE  i + k <= Len(h) /\ h[i + k] = Msg("tool", h[i].n, k)
  <1>1. DOMAIN h = 1 .. Len(h)
    BY LenProperties
  <1>2. h[i] \in ProviderMessages
    BY ElementOfSeq
  <1>3. h[i].k \in Nat
    BY <1>2 DEF ProviderMessages
  <1>4. k \in 1 .. h[i].k /\ i \in DOMAIN h
    BY <1>1, <1>3
  <1>5. QED
    BY <1>4 DEF WellPaired

LEMMA ResultAt ==
    ASSUME NEW h \in Seq(ProviderMessages), WellPaired(h),
           NEW i \in 1 .. Len(h), h[i].role = "tool"
    PROVE  \E c \in Nat, k \in Nat :
              /\ c + k = i /\ 1 <= c /\ 1 <= k /\ k = h[i].k /\ k <= h[c].k
              /\ h[c].role = "calls" /\ h[c].n = h[i].n
  <1>1. DOMAIN h = 1 .. Len(h)
    BY LenProperties
  <1>2. h[i] \in ProviderMessages
    BY ElementOfSeq
  <1>3. PICK k \in Nat : k = h[i].k
    BY <1>2 DEF ProviderMessages
  <1>4. /\ i > k /\ h[i - k].role = "calls"
        /\ h[i - k].n = h[i].n /\ k <= h[i - k].k
    BY <1>1, <1>3 DEF WellPaired
  <1>5. PICK c \in Nat : c = i - k
    BY <1>3, <1>4, LenProperties
  <1>6. c + k = i /\ 1 <= c
    BY <1>3, <1>4, <1>5, LenProperties
  <1>7. k # 0
    <2>1. SUFFICES ASSUME k = 0 PROVE FALSE
      OBVIOUS
    <2>2. c = i
      BY <2>1, <1>5
    <2>3. QED
      BY <1>4, <1>5, <2>2
  <1>8. k <= h[c].k /\ h[c].role = "calls" /\ h[c].n = h[i].n /\ 1 <= k
    BY <1>3, <1>4, <1>5, <1>7
  <1>9. QED
    BY <1>3, <1>6, <1>8

(* Cutting one after any message but one whose results follow.               *)
LEMMA Prefix ==
    ASSUME NEW h \in Seq(ProviderMessages), WellPaired(h), NEW m \in 0 .. Len(h),
           m < Len(h) => h[m + 1].role # "tool",
           NEW s \in Seq(ProviderMessages), Len(s) = m, \A i \in 1 .. m : s[i] = h[i]
    PROVE  WellPaired(s)
  <1>1. /\ Len(h) \in Nat /\ DOMAIN h = 1 .. Len(h) /\ DOMAIN s = 1 .. m
        /\ \A i \in 1 .. Len(h) : h[i] \in ProviderMessages
    BY LenProperties, ElementOfSeq
  <1>2. SUFFICES ASSUME NEW i \in 1 .. m
                 PROVE  /\ s[i].role = "calls" =>
                              \A k \in 1 .. s[i].k :
                                  i + k <= m /\ s[i + k] = Msg("tool", s[i].n, k)
                        /\ s[i].role = "tool" =>
                              /\ i > s[i].k
                              /\ s[i - s[i].k].role = "calls"
                              /\ s[i - s[i].k].n = s[i].n
                              /\ s[i].k <= s[i - s[i].k].k
    BY <1>1 DEF WellPaired
  <1>3. s[i] = h[i] /\ i \in 1 .. Len(h) /\ h[i].k \in Nat
    BY <1>1 DEF ProviderMessages
  <1>4. ASSUME h[i].role = "calls", NEW k \in 1 .. h[i].k
        PROVE  i + k <= m /\ s[i + k] = Msg("tool", h[i].n, k)
    <2>1. i + k <= Len(h) /\ h[i + k] = Msg("tool", h[i].n, k)
      BY <1>1, <1>3, <1>4 DEF WellPaired
    <2>2. i + k <= m
      <3>1. SUFFICES ASSUME i + k > m PROVE FALSE
        BY <1>1, <1>3
      <3>2. PICK j \in Nat : i + j = m + 1 /\ 1 <= j /\ j <= k
        BY <1>3, <3>1
      <3>3. j <= h[i].k
        BY <1>3, <1>4, <3>2
      <3>4. i + j <= Len(h) /\ h[i + j] = Msg("tool", h[i].n, j)
        BY <1>3, <1>4, <3>2, <3>3, CallAt
      <3>5. h[m + 1] = Msg("tool", h[i].n, j) /\ m < Len(h)
        BY <1>1, <3>2, <3>4
      <3>6. QED
        BY <3>5 DEF Msg
    <2>3. i + k \in 1 .. m
      BY <1>1, <1>3, <2>2
    <2>4. QED
      BY <2>1, <2>2, <2>3
  <1>5. ASSUME h[i].role = "tool"
        PROVE  /\ i > h[i].k
               /\ s[i - h[i].k].role = "calls"
               /\ s[i - h[i].k].n = h[i].n
               /\ h[i].k <= s[i - h[i].k].k
    <2>1. /\ i > h[i].k
          /\ h[i - h[i].k].role = "calls"
          /\ h[i - h[i].k].n = h[i].n
          /\ h[i].k <= h[i - h[i].k].k
      BY <1>1, <1>3, <1>5 DEF WellPaired
    <2>2. i - h[i].k \in 1 .. m
      BY <1>1, <1>3, <2>1
    <2>3. QED
      BY <2>1, <2>2
  <1>6. QED
    BY <1>3, <1>4, <1>5

(* Two tails of the same length are equal when their messages are.           *)
LEMMA LastOfEqual ==
    ASSUME NEW h \in Seq(ProviderMessages), NEW p \in Seq(ProviderMessages),
           NEW n \in Nat, n <= Len(h), n <= Len(p)
    PROVE  /\ LastOf(h, n) \in Seq(ProviderMessages) /\ Len(LastOf(h, n)) = n
           /\ \A i \in 1 .. n : LastOf(h, n)[i] = h[Len(h) - n + i]
           /\ LastOf(h, n) = LastOf(p, n) <=>
                 \A i \in 1 .. n : h[Len(h) - n + i] = p[Len(p) - n + i]
  <1>1. ASSUME NEW q \in Seq(ProviderMessages), n <= Len(q)
        PROVE  /\ LastOf(q, n) \in Seq(ProviderMessages) /\ Len(LastOf(q, n)) = n
               /\ \A i \in 1 .. n : LastOf(q, n)[i] = q[Len(q) - n + i]
    <2>1. Len(q) \in Nat /\ \A i \in 1 .. Len(q) : q[i] \in ProviderMessages
      BY LenProperties, ElementOfSeq
    <2>2. PICK size \in Nat : size = Len(q)
      BY <2>1
    <2> DEFINE a == size - n
    <2>3. LastOf(q, n) = SubSeq(q, a + 1, size)
      BY <2>2 DEF LastOf
    <2>10. a \in Nat /\ size = a + n
      BY <1>1, <2>2
    <2> HIDE DEF a
    <2>4. \A i \in (a + 1) .. size : q[i] \in ProviderMessages
      BY <2>1, <2>2, <2>10
    <2>5. /\ SubSeq(q, a + 1, size) \in Seq(ProviderMessages)
          /\ Len(SubSeq(q, a + 1, size)) =
                IF a + 1 <= size THEN size - (a + 1) + 1 ELSE 0
          /\ \A i \in 1 .. size - (a + 1) + 1 :
                 SubSeq(q, a + 1, size)[i] = q[(a + 1) + i - 1]
      BY <2>2, <2>10, <2>4, SubSeqProperties
    <2>6. /\ size - (a + 1) + 1 = n /\ (a + 1 <= size <=> n > 0)
          /\ \A i \in 1 .. n : (a + 1) + i - 1 = a + i
          /\ \A i \in 1 .. n : Len(q) - n + i = a + i
      BY <2>2, <2>10
    <2>7. Len(LastOf(q, n)) = n
      <3>1. Len(LastOf(q, n)) = IF n > 0 THEN n ELSE 0
        BY <2>3, <2>5, <2>6
      <3>2. QED
        BY <3>1
    <2>8. \A i \in 1 .. n : LastOf(q, n)[i] = q[Len(q) - n + i]
      BY <2>3, <2>5, <2>6
    <2>9. QED
      BY <2>3, <2>5, <2>7, <2>8
  <1>2. /\ LastOf(h, n) \in Seq(ProviderMessages) /\ Len(LastOf(h, n)) = n
        /\ \A i \in 1 .. n : LastOf(h, n)[i] = h[Len(h) - n + i]
    BY <1>1
  <1>3. /\ LastOf(p, n) \in Seq(ProviderMessages) /\ Len(LastOf(p, n)) = n
        /\ \A i \in 1 .. n : LastOf(p, n)[i] = p[Len(p) - n + i]
    BY <1>1
  <1>4. LastOf(h, n) = LastOf(p, n) <=> \A i \in 1 .. n : LastOf(h, n)[i] = LastOf(p, n)[i]
    BY <1>2, <1>3, SeqEqual
  <1>5. QED
    BY <1>2, <1>3, <1>4

(* The common tail is a history.                                             *)
LEMMA TailType ==
    ASSUME NEW h \in Seq(ProviderMessages), NEW p \in Seq(ProviderMessages)
    PROVE  TurnTail(h, p) \in Seq(ProviderMessages)
  <1>1. TurnSize(h, p) \in Nat /\ TurnSize(h, p) <= Len(h) /\ TurnSize(h, p) <= Len(p)
    BY LongestMatch, LenProperties DEF Matches
  <1>2. QED
    BY <1>1, LastOfEqual DEF TurnTail

(* A call whose results two histories end with alike has as many in both.    *)
LEMMA NoMoreCalls ==
    ASSUME NEW h \in Seq(ProviderMessages), NEW p \in Seq(ProviderMessages),
           WellPaired(h), WellPaired(p),
           NEW x \in Nat, NEW y \in Nat, NEW r \in Nat, 1 <= x, 1 <= y,
           Len(h) = x + r, Len(p) = y + r,
           NEW k \in Nat, 1 <= k, \A i \in k .. r : h[x + i] = p[y + i],
           h[x].role = "calls", k <= h[x].k,
           p[y].role = "calls", p[y].n = h[x].n
    PROVE  p[y].k <= h[x].k
  <1>1. x \in 1 .. Len(h) /\ y \in 1 .. Len(p)
    OBVIOUS
  <1>2. h[x].k \in Nat /\ p[y].k \in Nat
    <2>1. h[x] \in ProviderMessages /\ p[y] \in ProviderMessages
      BY <1>1, ElementOfSeq
    <2>2. QED
      BY <2>1 DEF ProviderMessages
  <1>3. PICK c \in Nat : c = h[x].k + 1
    BY <1>2
  <1>4. SUFFICES ASSUME c <= p[y].k PROVE FALSE
    BY <1>2, <1>3
  <1>5. 1 <= c /\ k <= c
    BY <1>2, <1>3
  <1>6. y + c <= Len(p) /\ p[y + c] = Msg("tool", p[y].n, c)
    BY <1>1, <1>3, <1>4, <1>5, CallAt
  <1>7. c \in k .. r /\ x + c \in 1 .. Len(h)
    BY <1>3, <1>5, <1>6
  <1>8. h[x + c].role = "tool" /\ h[x + c].k = c
    BY <1>6, <1>7 DEF Msg
  <1>9. PICK z \in Nat : z + c = x + c /\ c <= h[z].k
    <2>1. \E z \in Nat, q \in Nat : z + q = x + c /\ q = h[x + c].k /\ q <= h[z].k
      BY <1>7, <1>8, ResultAt
    <2>2. QED
      BY <1>8, <2>1
  <1>10. z = x
    BY <1>3, <1>9
  <1>11. QED
    BY <1>2, <1>3, <1>9, <1>10

(* The longest common tail of two histories does not begin with a result.    *)
LEMMA TailStart ==
    ASSUME NEW h \in Seq(ProviderMessages), NEW p \in Seq(ProviderMessages),
           NEW n \in Nat, NEW a \in Nat, NEW b \in Nat
    PROVE  WellPaired(h) /\ WellPaired(p) /\ n = TurnSize(h, p)
               /\ 1 <= n /\ Len(h) = a + n /\ Len(p) = b + n => h[a + 1].role # "tool"
  <1>1. SUFFICES ASSUME WellPaired(h), WellPaired(p), n = TurnSize(h, p), h[a + 1].role = "tool",
                        1 <= n, Len(h) = a + n, Len(p) = b + n
                 PROVE  FALSE
    OBVIOUS
  <1>2. 1 <= n /\ Len(h) = a + n /\ Len(p) = b + n
    BY <1>1
  <1>3. n \in Matches(h, p) /\ \A m \in Matches(h, p) : m <= n
    BY <1>1, LongestMatch
  <1>4. \A i \in 1 .. n : h[a + i] = p[b + i]
    <2>1. LastOf(h, n) = LastOf(p, n) /\ n <= Len(h) /\ n <= Len(p)
      BY <1>3 DEF Matches
    <2>2. Len(h) - n = a /\ Len(p) - n = b
      BY <1>2
    <2>3. \A i \in 1 .. n : h[Len(h) - n + i] = p[Len(p) - n + i]
      BY <2>1, LastOfEqual
    <2>4. QED
      BY <2>2, <2>3
  <1>5. a + 1 \in 1 .. Len(h) /\ b + 1 \in 1 .. Len(p)
    BY <1>2
  <1>6. h[a + 1] = p[b + 1]
    BY <1>4, <1>2
  <1>7. PICK x \in Nat, k \in Nat :
            /\ x + k = a + 1 /\ 1 <= x /\ 1 <= k /\ k = h[a + 1].k /\ k <= h[x].k
            /\ h[x].role = "calls" /\ h[x].n = h[a + 1].n
    BY <1>1, <1>5, ResultAt
  <1>8. PICK y \in Nat :
            /\ y + k = b + 1 /\ 1 <= y /\ k <= p[y].k
            /\ p[y].role = "calls" /\ p[y].n = h[a + 1].n
    <2>1. p[b + 1].role = "tool" /\ p[b + 1].k = k /\ p[b + 1].n = h[a + 1].n
      BY <1>1, <1>6, <1>7
    <2>2. \E y \in Nat, q \in Nat :
              /\ y + q = b + 1 /\ 1 <= y /\ 1 <= q /\ q = p[b + 1].k /\ q <= p[y].k
              /\ p[y].role = "calls" /\ p[y].n = p[b + 1].n
      BY <1>1, <1>5, <2>1, ResultAt
    <2>3. QED
      BY <2>1, <2>2
  <1>9. PICK r \in Nat : r = n + k - 1
    BY <1>7
  <1>10. /\ x \in Nat /\ y \in Nat /\ k \in Nat /\ r \in Nat
        /\ 1 <= x /\ 1 <= y /\ 1 <= k /\ k <= r
        /\ x + k = a + 1 /\ y + k = b + 1 /\ r = n + k - 1
        /\ Len(h) = x + r /\ Len(p) = y + r
    <2>1. /\ x \in Nat /\ y \in Nat /\ k \in Nat /\ r \in Nat
          /\ 1 <= x /\ 1 <= y /\ 1 <= k
          /\ x + k = a + 1 /\ y + k = b + 1 /\ r = n + k - 1
      BY <1>7, <1>8, <1>9
    <2>2. k <= r /\ a + n = x + r /\ b + n = y + r
      BY <2>1, <1>2
    <2>3. QED
      BY <2>1, <2>2, <1>2
  <1>11. ASSUME NEW i \in k .. r
         PROVE  h[x + i] = p[y + i]
    <2>1. PICK j \in 1 .. n : j = i - k + 1
      BY <1>10, <1>11
    <2>2. x + i = a + j /\ y + i = b + j
      BY <1>10, <1>11, <2>1
    <2>3. QED
      BY <1>4, <2>2
  <1>12. p[y].k <= h[x].k
    BY <1>1, <1>7, <1>8, <1>10, <1>11, NoMoreCalls
  <1>13. h[x].k <= p[y].k
    <2>1. \A i \in k .. r : p[y + i] = h[x + i]
      BY <1>11
    <2>2. h[x].n = p[y].n
      BY <1>7, <1>8
    <2>3. QED
      BY <1>1, <1>7, <1>8, <1>10, <2>1, <2>2, NoMoreCalls
  <1>14. x \in 1 .. Len(h) /\ y \in 1 .. Len(p)
    <2>1. x \in 1 .. x + r /\ y \in 1 .. y + r
      BY <1>10
    <2>2. QED
      BY <1>10, <2>1
  <1>15. h[x] = p[y]
    <2>1. h[x] \in ProviderMessages /\ p[y] \in ProviderMessages
      BY <1>14, ElementOfSeq
    <2>2. h[x].k = p[y].k /\ h[x].n = p[y].n /\ h[x].role = p[y].role
      <3>1. h[x].k \in Nat /\ p[y].k \in Nat
        BY <2>1 DEF ProviderMessages
      <3>2. h[x].k = p[y].k
        BY <1>12, <1>13, <3>1
      <3>3. QED
        BY <1>7, <1>8, <3>2
    <2>3. \A q \in ProviderMessages : q = [role |-> q.role, n |-> q.n, k |-> q.k]
      BY DEF ProviderMessages
    <2>4. QED
      BY <2>1, <2>2, <2>3
  <1>16. ASSUME NEW i \in 1 .. k
         PROVE  h[x + i] = p[y + i]
    <2>1. h[x].k \in Nat /\ p[y].k \in Nat
      <3>1. h[x] \in ProviderMessages /\ p[y] \in ProviderMessages
        BY <1>14, ElementOfSeq
      <3>2. QED
        BY <3>1 DEF ProviderMessages
    <2>2. i \in Nat /\ 1 <= i /\ i <= h[x].k /\ i <= p[y].k
      <3>1. k <= h[x].k /\ k <= p[y].k
        BY <1>7, <1>8
      <3>2. QED
        BY <1>10, <1>16, <2>1, <3>1
    <2>3. h[x + i] = Msg("tool", h[x].n, i)
      BY <1>1, <1>7, <1>14, <2>2, CallAt
    <2>4. p[y + i] = Msg("tool", p[y].n, i)
      BY <1>1, <1>8, <1>14, <2>2, CallAt
    <2>5. QED
      BY <1>15, <2>3, <2>4
  <1>17. ASSUME NEW i \in 0 .. r
         PROVE  h[x + i] = p[y + i]
    <2>1. CASE i = 0
      <3>1. x + i = x /\ y + i = y
        BY <1>7, <1>8, <2>1
      <3>2. QED
        BY <1>15, <3>1
    <2>2. CASE i \in 1 .. k
      BY <1>16, <2>2
    <2>3. CASE i \in k .. r
      BY <1>11, <2>3
    <2>4. QED
      BY <1>10, <1>17, <2>1, <2>2, <2>3
  <1>18. PICK m \in Nat : m = r + 1
    BY <1>9
  <1>19. /\ m <= Len(h) /\ m <= Len(p) /\ m \in 0 .. Len(h)
         /\ Len(h) - m = x - 1 /\ Len(p) - m = y - 1
    BY <1>10, <1>18
  <1>20. ASSUME NEW i \in 1 .. m
         PROVE  h[x - 1 + i] = p[y - 1 + i]
    <2>1. PICK j \in 0 .. r : j = i - 1
      BY <1>9, <1>18, <1>20
    <2>2. x - 1 + i = x + j /\ y - 1 + i = y + j
      BY <1>10, <1>20, <2>1
    <2>3. QED
      BY <1>17, <2>2
  <1>21. LastOf(h, m) = LastOf(p, m)
    <2>1. \A i \in 1 .. m : h[Len(h) - m + i] = p[Len(p) - m + i]
      BY <1>19, <1>20
    <2>2. QED
      BY <1>19, <2>1, LastOfEqual
  <1>22. m \in Matches(h, p)
    BY <1>19, <1>21 DEF Matches
  <1>23. m <= n
    BY <1>3, <1>22
  <1>24. QED
    BY <1>10, <1>18, <1>23

(* So cutting it off cuts no call off from its results.                      *)
LEMMA TailPaired ==
    ASSUME NEW h \in Seq(ProviderMessages), NEW p \in Seq(ProviderMessages),
           WellPaired(h), WellPaired(p)
    PROVE  WellPaired(TurnTail(h, p)) /\ WellPaired(WithoutTurn(h, p))
  <1>1. /\ Len(h) \in Nat /\ DOMAIN h = 1 .. Len(h)
        /\ \A i \in 1 .. Len(h) : h[i] \in ProviderMessages
        /\ Len(p) \in Nat
    BY LenProperties, ElementOfSeq
  <1>2. PICK n : n = TurnSize(h, p) /\ n \in Nat /\ n <= Len(h) /\ n <= Len(p)
    BY <1>1, LongestMatch DEF Matches
  <1>3. PICK a \in Nat, b \in Nat : Len(h) = a + n /\ Len(p) = b + n /\ a = Len(h) - n
    <2>1. Len(h) - n \in Nat /\ Len(p) - n \in Nat
      BY <1>1, <1>2
    <2>2. Len(h) = (Len(h) - n) + n /\ Len(p) = (Len(p) - n) + n
      BY <1>1, <1>2
    <2>3. QED
      BY <2>1, <2>2
  <1>4. TurnTail(h, p) = LastOf(h, n)
    BY <1>2 DEF TurnTail
  <1>5. 1 <= n => h[a + 1].role # "tool"
    BY <1>2, <1>3, TailStart
  <1>6. WellPaired(TurnTail(h, p))
    <2>1. CASE n = 0
      <3>1. PICK t \in Seq(ProviderMessages) : t = LastOf(h, n) /\ Len(t) = 0
        BY <1>2, <2>1, LastOfEqual
      <3>2. \A i \in 1 .. Len(t) : t[i].role \notin {"calls", "tool"}
        BY <3>1
      <3>3. WellPaired(t)
        BY <3>1, <3>2, NoCalls
      <3>4. QED
        BY <1>4, <3>1, <3>3
    <2>2. CASE 1 <= n
      <3>1. a + 1 \in 1 .. Len(h)
        <4>1. a \in Nat /\ n \in Nat /\ 1 <= n
          BY <1>2, <1>3, <2>2
        <4>2. a + 1 \in 1 .. a + n
          BY <4>1
        <4>3. QED
          BY <1>3, <4>2
      <3>2. LastOf(h, n) = SubSeq(h, a + 1, Len(h))
        BY <1>3 DEF LastOf
      <3>3. WellPaired(SubSeq(h, a + 1, Len(h)))
        BY <1>5, <2>2, <3>1, Suffix
      <3>4. QED
        BY <1>4, <3>2, <3>3
    <2>3. QED
      BY <1>2, <2>1, <2>2
  <1>7. WellPaired(WithoutTurn(h, p))
    <2>1. /\ WithoutTurn(h, p) = SubSeq(h, 1, a) /\ a \in 0 .. Len(h)
          /\ WithoutTurn(h, p) \in Seq(ProviderMessages)
      <3>1. WithoutTurn(h, p) = SubSeq(h, 1, a)
        BY <1>2, <1>3 DEF WithoutTurn
      <3>2. a \in 0 .. a + n
        BY <1>2, <1>3
      <3>3. QED
        BY <1>3, <3>1, <3>2, WithoutTurnBegins
    <2>2. Len(WithoutTurn(h, p)) = a /\ \A i \in 1 .. a : WithoutTurn(h, p)[i] = h[i]
      <3>1. \A i \in 1 .. a : h[i] \in ProviderMessages
        BY <1>1, <2>1
      <3>2. /\ Len(SubSeq(h, 1, a)) = IF 1 <= a THEN a - 1 + 1 ELSE 0
            /\ \A i \in 1 .. a - 1 + 1 : SubSeq(h, 1, a)[i] = h[1 + i - 1]
        BY <3>1, SubSeqProperties
      <3>3. /\ (IF 1 <= a THEN a - 1 + 1 ELSE 0) = a
            /\ \A i \in 1 .. a : 1 + i - 1 = i /\ i \in 1 .. a - 1 + 1
        OBVIOUS
      <3>4. QED
        BY <2>1, <3>2, <3>3
    <2>3. a < Len(h) => h[a + 1].role # "tool"
      BY <1>2, <1>3, <1>5
    <2>4. QED
      BY <2>1, <2>2, <2>3, Prefix
  <1>8. QED
    BY <1>6, <1>7

(* Two histories that pair do so one after the other.                        *)
LEMMA Joined ==
    ASSUME NEW g \in Seq(ProviderMessages), NEW h \in Seq(ProviderMessages),
           WellPaired(g), WellPaired(h)
    PROVE  WellPaired(g \o h)
  <1> DEFINE s == g \o h
  <1>1. /\ Len(g) \in Nat /\ DOMAIN g = 1 .. Len(g)
        /\ Len(h) \in Nat /\ DOMAIN h = 1 .. Len(h)
        /\ \A i \in 1 .. Len(g) : g[i] \in ProviderMessages
        /\ \A i \in 1 .. Len(h) : h[i] \in ProviderMessages
    BY LenProperties, ElementOfSeq
  <1>2. /\ s \in Seq(ProviderMessages)
        /\ Len(s) = Len(g) + Len(h)
        /\ \A i \in 1 .. Len(g) + Len(h) :
               s[i] = IF i <= Len(g) THEN g[i] ELSE h[i - Len(g)]
    BY ConcatProperties
  <1>3. DOMAIN s = 1 .. Len(g) + Len(h)
    BY <1>2, LenProperties
  <1>4. /\ \A i \in 1 .. Len(g) : s[i] = g[i]
        /\ \A i \in 1 .. Len(h) : s[Len(g) + i] = h[i]
    BY <1>1, <1>2
  <1> HIDE DEF s
  <1>5. ASSUME NEW i \in 1 .. Len(g)
        PROVE  /\ s[i].role = "calls" =>
                     \A k \in 1 .. s[i].k :
                         i + k <= Len(s) /\ s[i + k] = Msg("tool", s[i].n, k)
               /\ s[i].role = "tool" =>
                     /\ i > s[i].k
                     /\ LET c == s[i - s[i].k] IN
                          c.role = "calls" /\ c.n = s[i].n /\ s[i].k <= c.k
    <2>1. s[i] = g[i] /\ g[i].k \in Nat
      BY <1>1, <1>4 DEF ProviderMessages
    <2>2. ASSUME g[i].role = "calls", NEW k \in 1 .. g[i].k
          PROVE  i + k <= Len(s) /\ s[i + k] = Msg("tool", g[i].n, k)
      <3>1. i + k <= Len(g) /\ g[i + k] = Msg("tool", g[i].n, k)
        BY <1>1, <2>2 DEF WellPaired
      <3>2. i + k \in 1 .. Len(g)
        BY <3>1, <1>1, <2>1
      <3>3. QED
        BY <3>1, <3>2, <1>1, <1>2, <1>4
    <2>3. ASSUME g[i].role = "tool"
          PROVE  /\ i > g[i].k
                 /\ LET c == s[i - g[i].k] IN
                      c.role = "calls" /\ c.n = g[i].n /\ g[i].k <= c.k
      <3>1. /\ i > g[i].k
            /\ LET c == g[i - g[i].k] IN
                 c.role = "calls" /\ c.n = g[i].n /\ g[i].k <= c.k
        BY <1>1, <2>3 DEF WellPaired
      <3>2. i - g[i].k \in 1 .. Len(g)
        BY <3>1, <1>1, <2>1
      <3>3. s[i - g[i].k] = g[i - g[i].k]
        BY <3>2, <1>4
      <3>4. QED
        BY <3>1, <3>3
    <2>4. QED
      BY <2>1, <2>2, <2>3
  <1>6. ASSUME NEW j \in 1 .. Len(h), NEW i, i = Len(g) + j
        PROVE  /\ s[i].role = "calls" =>
                     \A k \in 1 .. s[i].k :
                         i + k <= Len(s) /\ s[i + k] = Msg("tool", s[i].n, k)
               /\ s[i].role = "tool" =>
                     /\ i > s[i].k
                     /\ LET c == s[i - s[i].k] IN
                          c.role = "calls" /\ c.n = s[i].n /\ s[i].k <= c.k
    <2>1. s[i] = h[j] /\ h[j].k \in Nat
      BY <1>1, <1>4, <1>6 DEF ProviderMessages
    <2>2. ASSUME h[j].role = "calls", NEW k \in 1 .. h[j].k
          PROVE  i + k <= Len(s) /\ s[i + k] = Msg("tool", h[j].n, k)
      <3>1. j + k <= Len(h) /\ h[j + k] = Msg("tool", h[j].n, k)
        BY <1>1, <2>2 DEF WellPaired
      <3>2. j + k \in 1 .. Len(h) /\ i + k = Len(g) + (j + k)
        BY <3>1, <1>1, <1>6, <2>1
      <3>3. s[i + k] = h[j + k]
        BY <3>2, <1>4
      <3>4. QED
        BY <3>1, <3>2, <3>3, <1>1, <1>2
    <2>3. ASSUME h[j].role = "tool"
          PROVE  /\ i > h[j].k
                 /\ LET c == s[i - h[j].k] IN
                      c.role = "calls" /\ c.n = h[j].n /\ h[j].k <= c.k
      <3>1. /\ j > h[j].k
            /\ LET c == h[j - h[j].k] IN
                 c.role = "calls" /\ c.n = h[j].n /\ h[j].k <= c.k
        BY <1>1, <2>3 DEF WellPaired
      <3>2. j - h[j].k \in 1 .. Len(h) /\ i - h[j].k = Len(g) + (j - h[j].k)
        BY <3>1, <1>1, <1>6, <2>1
      <3>3. s[i - h[j].k] = h[j - h[j].k]
        BY <3>2, <1>4
      <3>4. i > h[j].k
        BY <3>1, <1>1, <1>6, <2>1
      <3>5. QED
        BY <3>1, <3>3, <3>4
    <2>4. QED
      BY <2>1, <2>2, <2>3
  <1>7. ASSUME NEW i \in DOMAIN s
        PROVE  /\ s[i].role = "calls" =>
                     \A k \in 1 .. s[i].k :
                         i + k <= Len(s) /\ s[i + k] = Msg("tool", s[i].n, k)
               /\ s[i].role = "tool" =>
                     /\ i > s[i].k
                     /\ LET c == s[i - s[i].k] IN
                          c.role = "calls" /\ c.n = s[i].n /\ s[i].k <= c.k
    <2>1. CASE i \in 1 .. Len(g)
      BY <2>1, <1>5
    <2>2. CASE i \notin 1 .. Len(g)
      <3>1. PICK j \in 1 .. Len(h) : i = Len(g) + j
        <4>1. i - Len(g) \in 1 .. Len(h) /\ i = Len(g) + (i - Len(g))
          BY <2>2, <1>1, <1>3
        <4>2. QED
          BY <4>1
      <3>2. QED
        BY <3>1, <1>6
    <2>3. QED
      BY <2>1, <2>2
  <1>8. WellPaired(s)
    BY <1>7 DEF WellPaired
  <1>9. QED
    BY <1>8 DEF s

(* A response and its results.                                               *)
LEMMA ResultsType ==
    ASSUME NEW it \in Int, NEW n \in Nat, NEW m \in Nat
    PROVE  /\ Results(it, n, m) \in Seq(ProviderMessages)
           /\ Len(Results(it, n, m)) = m
           /\ \A i \in 1 .. m : Results(it, n, m)[i] = Msg("tool", it, n + i)
  <1>1. \A i \in 1 .. m : Msg("tool", it, n + i) \in ProviderMessages
    BY DEF Msg, ProviderMessages
  <1>2. QED
    BY <1>1 DEF Results

LEMMA GroupType ==
    ASSUME NEW it \in Int, NEW c \in Nat, NEW n \in Nat
    PROVE  /\ Group(it, c, n) \in Seq(ProviderMessages)
           /\ Len(Group(it, c, n)) = n + 1
           /\ Group(it, c, n)[1] = Msg("calls", it, c)
           /\ \A i \in 1 .. n : Group(it, c, n)[i + 1] = Msg("tool", it, i)
  <1> DEFINE a == <<Msg("calls", it, c)>>
             b == [i \in 1 .. n |-> Msg("tool", it, i)]
  <1>1. a \in Seq(ProviderMessages) /\ Len(a) = 1 /\ a[1] = Msg("calls", it, c)
    BY MsgType
  <1>2. b \in Seq(ProviderMessages) /\ Len(b) = n /\ \A i \in 1 .. n : b[i] = Msg("tool", it, i)
    <2>1. \A i \in 1 .. n : Msg("tool", it, i) \in ProviderMessages
      BY DEF Msg, ProviderMessages
    <2>2. QED
      BY <2>1
  <1>3. Group(it, c, n) = a \o b
    BY DEF Group
  <1> HIDE DEF a, b
  <1>4. /\ a \o b \in Seq(ProviderMessages)
        /\ Len(a \o b) = 1 + n
        /\ \A i \in 1 .. 1 + n : (a \o b)[i] = IF i <= 1 THEN a[i] ELSE b[i - 1]
    <2>1. /\ a \o b \in Seq(ProviderMessages)
          /\ Len(a \o b) = Len(a) + Len(b)
          /\ \A i \in 1 .. Len(a) + Len(b) :
                 (a \o b)[i] = IF i <= Len(a) THEN a[i] ELSE b[i - Len(a)]
      BY <1>1, <1>2, ConcatProperties
    <2>2. QED
      BY <2>1, <1>1, <1>2
  <1>5. /\ (a \o b)[1] = a[1]
        /\ \A i \in 1 .. n : (a \o b)[i + 1] = b[i]
    BY <1>4
  <1>6. QED
    BY <1>1, <1>2, <1>3, <1>4, <1>5

(* A response with all of its results pairs.                                 *)
LEMMA GroupPaired ==
    ASSUME NEW it \in Int, NEW c \in Nat
    PROVE  WellPaired(Group(it, c, c))
  <1> DEFINE g == Group(it, c, c)
  <1>1. /\ g \in Seq(ProviderMessages)
        /\ Len(g) = c + 1
        /\ g[1] = Msg("calls", it, c)
        /\ \A i \in 1 .. c : g[i + 1] = Msg("tool", it, i)
    BY GroupType
  <1>2. DOMAIN g = 1 .. c + 1
    BY <1>1, LenProperties
  <1> HIDE DEF g
  <1>3. ASSUME NEW i \in DOMAIN g
        PROVE  /\ g[i].role = "calls" =>
                     \A k \in 1 .. g[i].k :
                         i + k <= Len(g) /\ g[i + k] = Msg("tool", g[i].n, k)
               /\ g[i].role = "tool" =>
                     /\ i > g[i].k
                     /\ LET d == g[i - g[i].k] IN
                          d.role = "calls" /\ d.n = g[i].n /\ g[i].k <= d.k
    <2>1. CASE i = 1
      <3>1. g[i].role = "calls" /\ g[i].n = it /\ g[i].k = c
        BY <2>1, <1>1 DEF Msg
      <3>2. ASSUME NEW k \in 1 .. c
            PROVE  i + k <= Len(g) /\ g[i + k] = Msg("tool", it, k)
        <4>1. i + k = k + 1
          BY <2>1
        <4>2. QED
          BY <4>1, <1>1
      <3>3. QED
        BY <3>1, <3>2
    <2>2. CASE i # 1
      <3>1. i - 1 \in 1 .. c /\ i = (i - 1) + 1
        BY <2>2, <1>2
      <3>2. g[i] = Msg("tool", it, i - 1)
        BY <3>1, <1>1
      <3>3. g[i].role = "tool" /\ g[i].n = it /\ g[i].k = i - 1
        BY <3>2 DEF Msg
      <3>4. i - g[i].k = 1 /\ i > g[i].k
        BY <3>1, <3>3
      <3>5. g[1].role = "calls" /\ g[1].n = it /\ g[1].k = c
        BY <1>1 DEF Msg
      <3>6. g[i].k <= g[1].k
        BY <3>1, <3>3, <3>5
      <3>7. QED
        BY <3>3, <3>4, <3>5, <3>6
    <2>3. QED
      BY <2>1, <2>2
  <1>4. WellPaired(g)
    BY <1>3 DEF WellPaired
  <1>5. QED
    BY <1>4 DEF g

(* More results after those there are.                                       *)
LEMMA GroupGrows ==
    ASSUME NEW it \in Int, NEW c \in Nat, NEW n \in Nat, NEW m \in Nat,
           NEW h \in Seq(ProviderMessages)
    PROVE  (h \o Group(it, c, n)) \o Results(it, n, m) = h \o Group(it, c, n + m)
  <1> DEFINE g == Group(it, c, n)
             more == Results(it, n, m)
             all == Group(it, c, n + m)
  <1>1. /\ g \in Seq(ProviderMessages) /\ Len(g) = n + 1
        /\ g[1] = Msg("calls", it, c)
        /\ \A i \in 1 .. n : g[i + 1] = Msg("tool", it, i)
    BY GroupType
  <1>2. /\ all \in Seq(ProviderMessages) /\ Len(all) = n + m + 1
        /\ all[1] = Msg("calls", it, c)
        /\ \A i \in 1 .. n + m : all[i + 1] = Msg("tool", it, i)
    <2>1. n + m \in Nat
      OBVIOUS
    <2>2. QED
      BY <2>1, GroupType
  <1>3. /\ more \in Seq(ProviderMessages) /\ Len(more) = m
        /\ \A i \in 1 .. m : more[i] = Msg("tool", it, n + i)
    BY ResultsType
  <1> HIDE DEF g, more, all
  <1>4. /\ g \o more \in Seq(ProviderMessages)
        /\ Len(g \o more) = (n + 1) + m
        /\ \A i \in 1 .. (n + 1) + m :
               (g \o more)[i] = IF i <= n + 1 THEN g[i] ELSE more[i - (n + 1)]
    <2>1. /\ g \o more \in Seq(ProviderMessages)
          /\ Len(g \o more) = Len(g) + Len(more)
          /\ \A i \in 1 .. Len(g) + Len(more) :
                 (g \o more)[i] = IF i <= Len(g) THEN g[i] ELSE more[i - Len(g)]
      BY <1>1, <1>3, ConcatProperties
    <2>2. QED
      BY <2>1, <1>1, <1>3
  <1>5. ASSUME NEW i \in 1 .. n + m + 1
        PROVE  (g \o more)[i] = all[i]
    <2>1. CASE i = 1
      BY <2>1, <1>1, <1>2, <1>4
    <2>2. CASE i # 1 /\ i <= n + 1
      <3>1. i - 1 \in 1 .. n /\ i - 1 \in 1 .. n + m /\ i = (i - 1) + 1
        BY <2>2
      <3>2. g[i] = Msg("tool", it, i - 1) /\ all[i] = Msg("tool", it, i - 1)
        BY <3>1, <1>1, <1>2
      <3>3. QED
        BY <3>2, <2>2, <1>4
    <2>3. CASE i > n + 1
      <3>1. /\ i - 1 \in 1 .. n + m /\ i = (i - 1) + 1
            /\ i - (n + 1) \in 1 .. m /\ n + (i - (n + 1)) = i - 1
        BY <2>3
      <3>2. more[i - (n + 1)] = Msg("tool", it, i - 1) /\ all[i] = Msg("tool", it, i - 1)
        BY <3>1, <1>2, <1>3
      <3>3. QED
        BY <3>2, <2>3, <1>4
    <2>4. i = 1 \/ (i # 1 /\ i <= n + 1) \/ i > n + 1
      OBVIOUS
    <2>5. QED
      BY <2>1, <2>2, <2>3, <2>4
  <1>6. g \o more = all
    <2>1. DOMAIN (g \o more) = 1 .. n + m + 1 /\ DOMAIN all = 1 .. n + m + 1
      BY <1>2, <1>4, LenProperties
    <2>2. QED
      BY <2>1, <1>5, <1>2, <1>4
  <1>7. (h \o g) \o more = h \o (g \o more)
    BY <1>1, <1>3, ConcatAssociative
  <1>8. QED
    BY <1>6, <1>7 DEF g, more, all

(* A response alone.                                                         *)
LEMMA NoResults ==
    ASSUME NEW it \in Int, NEW c \in Nat
    PROVE  Group(it, c, 0) = <<Msg("calls", it, c)>>
  <1>1. <<Msg("calls", it, c)>> \in Seq(ProviderMessages)
    BY MsgType
  <1>2. [i \in 1 .. 0 |-> Msg("tool", it, i)] = <<>>
    OBVIOUS
  <1>3. QED
    BY <1>1, <1>2, ConcatEmptySeq DEF Group

-----------------------------------------------------------------------------
(* The types and the places of the turn.                                     *)

(* The first state.                                                          *)
LEMMA InitSafe == TurnInit => SafeInv
  <1>1. /\ <<>> \in Seq(1 .. NumSteering) /\ <<>> \in Seq(ProviderMessages)
        /\ NumSteering > 0 => <<1>> \in Seq(1 .. NumSteering)
        /\ <<1>> # <<>>
    BY TurnAssumption, EmptySeq
  <1>2. Old \in Seq(ProviderMessages) /\ FromUser(Old)
    BY OldType, OldPaired
  <1>3. TurnInit => TurnTypeOK
    <2>1. SUFFICES ASSUME TurnInit PROVE TurnTypeOK
      OBVIOUS
    <2>2. /\ execPending \in Seq(1 .. NumSteering)
          /\ sent \in 0 .. NumSteering
      <3>1. CASE continuation
        BY <2>1, <3>1, <1>1, TurnAssumption DEF TurnInit
      <3>2. CASE ~continuation
        BY <2>1, <3>2, <1>1, TurnAssumption DEF TurnInit
      <3>3. QED
        BY <3>1, <3>2
    <2>3. {continuation, handled, terminal, hardAbort} \subseteq BOOLEAN
      BY <2>1 DEF TurnInit
    <2>4. QED
      BY <2>1, <2>2, <2>3, <1>1, <1>2, TurnAssumption DEF TurnInit, TurnTypeOK
  <1>4. TurnInit => PlaceInv /\ StoreInv
    BY <1>1, <1>2 DEF TurnInit, PlaceInv, StoreInv, InLLM, InTools
  <1>5. QED
    BY <1>3, <1>4 DEF SafeInv

(* What Add does to the stored lists.                                        *)
LEMMA AddKeeps ==
    ASSUME SafeInv, NEW ms \in Seq(ProviderMessages), Add(ms)
    PROVE  /\ messages' \in Seq(ProviderMessages)
           /\ history' \in Seq(ProviderMessages)
           /\ persisted' \in Seq(ProviderMessages)
           /\ restorePoint' = restorePoint
           /\ history # <<>> => history' # <<>> /\ (FromUser(history) => FromUser(history'))
  BY Added DEF Add, SafeInv, TurnTypeOK

(* A step that leaves the lists alone.                                       *)
LEMMA QuietSafe ==
    ASSUME SafeInv,
           \/ Interrupt \/ StopLoads \/ RequestHardAbort \/ StopReads \/ StartAborted \/ Guard
           \/ LLMAnswers \/ LLMCancelled \/ LLMFails \/ LLMTransient \/ Backoff
           \/ HookHardAborts \/ NextTool \/ ToolStarts \/ ToolReturns \/ ToolHookAborts
           \/ FinalizeHandled
    PROVE  SafeInv'
  <1>1. <<>> \in Seq(1 .. NumSteering)
    BY EmptySeq
  <1> USE DEF SafeInv, TurnTypeOK, PlaceInv, StoreInv, InLLM, InTools, Moves, Ends, StopGoes,
              llmVars, steerVars, storeVars, toolVars, signalVars, FromUser
  <1>2. CASE Interrupt
    BY <1>2 DEF Interrupt
  <1>3. CASE StopLoads
    BY <1>1, <1>3 DEF StopLoads
  <1>4. CASE RequestHardAbort
    BY <1>4 DEF RequestHardAbort
  <1>5. CASE StopReads
    BY <1>5 DEF StopReads
  <1>6. CASE StartAborted
    BY <1>6 DEF StartAborted
  <1>7. CASE Guard
    BY <1>7 DEF Guard, More
  <1>8. CASE LLMAnswers
    BY <1>8 DEF LLMAnswers
  <1>9. CASE LLMCancelled
    BY <1>9 DEF LLMCancelled
  <1>10. CASE LLMFails
    BY <1>10 DEF LLMFails
  <1>11. CASE LLMTransient
    BY <1>11 DEF LLMTransient
  <1>12. CASE Backoff
    <2>1. retry \in Nat /\ retry < MaxRetries /\ retry + 1 \in 0 .. MaxRetries
      BY <1>12, TurnAssumption DEF Backoff
    <2>2. QED
      BY <2>1, <1>12 DEF Backoff
  <1>13. CASE HookHardAborts
    BY <1>13 DEF HookHardAborts
  <1>14. CASE NextTool
    BY <1>14 DEF NextTool
  <1>15. CASE ToolStarts
    BY <1>15 DEF ToolStarts
  <1>16. CASE ToolReturns
    BY <1>16 DEF ToolReturns
  <1>17. CASE ToolHookAborts
    BY <1>17 DEF ToolHookAborts
  <1>18. CASE FinalizeHandled
    BY <1>18 DEF FinalizeHandled
  <1>19. QED
    BY <1>2, <1>3, <1>4, <1>5, <1>6, <1>7, <1>8, <1>9, <1>10, <1>11, <1>12, <1>13, <1>14,
       <1>15, <1>16, <1>17, <1>18

LEMMA SteeringArrivesSafe == SafeInv /\ SteeringArrives => SafeInv'
  <1>1. SUFFICES ASSUME SafeInv, SteeringArrives PROVE SafeInv'
    OBVIOUS
  <1>2. sent + 1 \in 1 .. NumSteering
    BY <1>1, TurnAssumption DEF SafeInv, TurnTypeOK, SteeringArrives
  <1>3. queue' \in Seq(1 .. NumSteering)
    BY <1>1, <1>2, AppendProperties DEF SafeInv, TurnTypeOK, SteeringArrives
  <1>4. QED
    BY <1>1, <1>2, <1>3
    DEF SafeInv, TurnTypeOK, PlaceInv, StoreInv, InLLM, InTools, SteeringArrives,
        llmVars, storeVars, toolVars, signalVars

LEMMA StopWritesSafe == SafeInv /\ StopWrites => SafeInv'
  <1>1. SUFFICES ASSUME SafeInv, StopWrites PROVE SafeInv'
    OBVIOUS
  <1>2. history' \in Seq(ProviderMessages)
    <2>1. CASE Len(Old) < Len(stopRead)
      <3>1. \A i \in 1 .. Len(Old) : stopRead[i] \in ProviderMessages
        BY <1>1, <2>1, OldType, TurnAssumption, LenProperties, ElementOfSeq
        DEF SafeInv, TurnTypeOK
      <3>2. SubSeq(stopRead, 1, Len(Old)) \in Seq(ProviderMessages)
        BY <3>1, OldType, TurnAssumption, SubSeqProperties
      <3>3. QED
        BY <1>1, <2>1, <3>2 DEF StopWrites
    <2>2. CASE ~(Len(Old) < Len(stopRead))
      BY <1>1, <2>2 DEF StopWrites, SafeInv, TurnTypeOK
    <2>3. QED
      BY <2>1, <2>2
  <1>3. QED
    BY <1>1, <1>2
    DEF SafeInv, TurnTypeOK, PlaceInv, StoreInv, InLLM, InTools, StopWrites, StopGoes,
        llmVars, toolVars

LEMMA SetupSafe == SafeInv /\ Setup => SafeInv'
  <1>1. SUFFICES ASSUME SafeInv, Setup PROVE SafeInv'
    OBVIOUS
  <1>2. /\ history \in Seq(ProviderMessages)
        /\ FromUser(history)
        /\ continuation \in BOOLEAN
    BY <1>1 DEF SafeInv, TurnTypeOK, StoreInv, Setup
  <1> DEFINE root == IF continuation THEN <<>> ELSE <<Msg("user", 0, 0)>>
  <1>3. root \in Seq(ProviderMessages)
    BY EmptySeq, MsgType
  <1>4. FromUser(root) /\ (~continuation => root # <<>>)
    BY DEF FromUser, Msg
  <1> HIDE DEF root
  <1>5. PICK h \in {history, Compressed(history)} :
             /\ restorePoint' = h
             /\ \E t \in Trims(h) : messages' = t \o root
             /\ history' = h \o root
             /\ persisted' = root
    BY <1>1 DEF Setup, root
  <1>6. h \in Seq(ProviderMessages) /\ FromUser(h)
    BY <1>2, <1>5, CompressedType
  <1>7. h \o root \in Seq(ProviderMessages) /\ messages' \in Seq(ProviderMessages)
    BY <1>3, <1>5, <1>6, TrimsType, Added
  <1>8. FromUser(h \o root) /\ (~continuation => h \o root # <<>>)
    <2>1. CASE h = <<>>
      <3>1. h \o root = root
        BY <2>1, <1>3, ConcatEmptySeq
      <3>2. QED
        BY <3>1, <1>4
    <2>2. CASE h # <<>>
      BY <2>2, <1>3, <1>6, Added
    <2>3. QED
      BY <2>1, <2>2
  <1>9. h \o root = <<>> => execPending # <<>>
    BY <1>1, <1>8 DEF SafeInv, PlaceInv, Setup, Moves
  <1>10. TurnTypeOK'
    BY <1>1, <1>3, <1>5, <1>6, <1>7
    DEF SafeInv, TurnTypeOK, Setup, Moves, llmVars, toolVars
  <1>11. PlaceInv'
    BY <1>1 DEF SafeInv, PlaceInv, InLLM, InTools, Setup, Moves, llmVars, toolVars
  <1>12. StoreInv'
    BY <1>1, <1>5, <1>8, <1>9 DEF SafeInv, StoreInv, Setup, Moves
  <1>13. QED
    BY <1>10, <1>11, <1>12 DEF SafeInv

(* What is injected was pending, or the first poll took it.                  *)
LEMMA ToInjectType ==
    ASSUME SafeInv
    PROVE  /\ ToInject \in Seq(1 .. NumSteering)
           /\ Rest(queue) \in Seq(1 .. NumSteering)
           /\ \A m : In(m, execPending) => In(m, ToInject)
           /\ Polls => \A m : In(m, queue) => In(m, ToInject) \/ In(m, Rest(queue))
           /\ execPending # <<>> => ToInject # <<>>
  <1>1. /\ queue \in Seq(1 .. NumSteering)
        /\ pending \in Seq(1 .. NumSteering)
        /\ execPending \in Seq(1 .. NumSteering)
        /\ iteration \in Nat
        /\ iteration = 0 => pending = execPending
    BY DEF SafeInv, TurnTypeOK, PlaceInv
  <1>2. /\ Batch(queue) \in Seq(1 .. NumSteering)
        /\ Rest(queue) \in Seq(1 .. NumSteering)
        /\ \A m : In(m, queue) => In(m, Batch(queue)) \/ In(m, Rest(queue))
    BY <1>1, PollType
  <1>3. CASE iteration > 0
    <2>1. ToInject = pending \o execPending /\ ~Polls
      BY <1>1, <1>3 DEF ToInject, Polls
    <2>2. ToInject \in Seq(1 .. NumSteering)
      BY <2>1, <1>1, ConcatProperties
    <2>3. \A m : In(m, execPending) => In(m, ToInject)
      BY <2>1, <1>1, InConcat
    <2>4. execPending # <<>> => ToInject # <<>>
      BY <2>1, <1>1, ConcatEqualIffEmpty
    <2>5. QED
      BY <2>1, <2>2, <2>3, <2>4, <1>2
  <1>4. CASE ~(iteration > 0) /\ Polls
    <2>1. ToInject = pending \o Batch(queue) /\ pending = execPending
      BY <1>1, <1>4 DEF ToInject
    <2>2. ToInject \in Seq(1 .. NumSteering)
      BY <2>1, <1>1, <1>2, ConcatProperties
    <2>3. \A m : In(m, execPending) \/ In(m, Batch(queue)) => In(m, ToInject)
      BY <2>1, <1>1, <1>2, InConcat
    <2>4. execPending # <<>> => ToInject # <<>>
      BY <2>1, <1>1, <1>2, ConcatEqualIffEmpty
    <2>5. QED
      BY <2>2, <2>3, <2>4, <1>2
  <1>5. CASE ~(iteration > 0) /\ ~Polls
    <2>1. ToInject = execPending
      BY <1>1, <1>5 DEF ToInject
    <2>2. QED
      BY <2>1, <1>1, <1>2, <1>5
  <1>6. QED
    BY <1>3, <1>4, <1>5

LEMMA IterateSafe == SafeInv /\ Iterate => SafeInv'
  <1>1. SUFFICES ASSUME SafeInv, Iterate PROVE SafeInv'
    OBVIOUS
  <1>2. /\ ToInject \in Seq(1 .. NumSteering)
        /\ Rest(queue) \in Seq(1 .. NumSteering)
        /\ execPending # <<>> => ToInject # <<>>
    BY <1>1, ToInjectType
  <1>3. PICK ms : ms = Steered(ToInject)
    OBVIOUS
  <1>4. /\ ms \in Seq(ProviderMessages)
        /\ Len(ms) = Len(ToInject)
        /\ FromUser(ms)
        /\ execPending # <<>> => ms # <<>>
    <2>1. /\ ms \in Seq(ProviderMessages)
          /\ Len(ms) = Len(ToInject)
          /\ \A i \in 1 .. Len(ms) : ms[i] = Msg("user", ToInject[i], 0)
      BY <1>2, <1>3, SteeredType
    <2>2. ms # <<>> => 1 \in 1 .. Len(ms)
      BY <2>1, EmptySeq
    <2>3. ms = <<>> => ToInject = <<>>
      BY <2>1, <1>2, EmptySeq
    <2>4. ms # <<>> => ms[1].role = "user"
      <3>1. ms # <<>> => ms[1] = Msg("user", ToInject[1], 0)
        BY <2>1, <2>2
      <3>2. Msg("user", ToInject[1], 0).role = "user"
        BY DEF Msg
      <3>3. QED
        BY <3>1, <3>2
    <2>5. execPending # <<>> => ms # <<>>
      BY <2>3, <1>2
    <2>6. QED
      BY <2>1, <2>4, <2>5 DEF FromUser
  <1>5. Add(ms)
    BY <1>1, <1>3 DEF Iterate
  <1>6. /\ messages' \in Seq(ProviderMessages)
        /\ history' \in Seq(ProviderMessages)
        /\ persisted' \in Seq(ProviderMessages)
        /\ restorePoint' = restorePoint
        /\ history # <<>> => history' # <<>> /\ (FromUser(history) => FromUser(history'))
    BY <1>1, <1>4, <1>5, AddKeeps
  <1>7. history = <<>> => history' = ms
    <2>1. history' = history \o ms
      BY <1>5 DEF Add
    <2>2. QED
      BY <2>1, <1>4, ConcatEmptySeq
  <1>8. ~hardAbort => history' # <<>> /\ FromUser(history')
    BY <1>1, <1>4, <1>6, <1>7 DEF SafeInv, StoreInv, Iterate, Moves
  <1>9. TurnTypeOK'
    <2>1. <<>> \in Seq(1 .. NumSteering)
      BY EmptySeq
    <2>2. iteration' \in Nat /\ retry' \in 0 .. MaxRetries /\ terminal' \in BOOLEAN
      BY <1>1, TurnAssumption DEF SafeInv, TurnTypeOK, Iterate
    <2>3. /\ queue' \in Seq(1 .. NumSteering)
          /\ pending' \in Seq(1 .. NumSteering)
          /\ execPending' \in Seq(1 .. NumSteering)
      BY <1>1, <1>2, <2>1 DEF SafeInv, TurnTypeOK, Iterate
    <2>4. graceful' \in {"no", "requested", "used"}
      BY <1>1 DEF SafeInv, TurnTypeOK, Iterate
    <2>5. QED
      BY <1>1, <1>6, <2>2, <2>3, <2>4
      DEF SafeInv, TurnTypeOK, Iterate, Moves, toolVars
  <1>10. PlaceInv'
    BY <1>1 DEF SafeInv, TurnTypeOK, PlaceInv, InLLM, InTools, Iterate, Moves, toolVars
  <1>11. StoreInv'
    BY <1>1, <1>8 DEF StoreInv, Iterate, Moves
  <1>12. QED
    BY <1>9, <1>10, <1>11 DEF SafeInv

LEMMA ContextOverflowSafe == SafeInv /\ ContextOverflow => SafeInv'
  <1>1. SUFFICES ASSUME SafeInv, ContextOverflow PROVE SafeInv'
    OBVIOUS
  <1>2. /\ history \in Seq(ProviderMessages)
        /\ persisted \in Seq(ProviderMessages)
        /\ FromUser(history) /\ history # <<>>
    BY <1>1 DEF SafeInv, TurnTypeOK, StoreInv, ContextOverflow, Moves
  <1>3. /\ history' \in Seq(ProviderMessages)
        /\ FromUser(history') /\ history' # <<>>
    BY <1>1, <1>2, CompressedType DEF ContextOverflow
  <1>4. restorePoint' \in Seq(ProviderMessages) /\ messages' \in Seq(ProviderMessages)
    <2>1. restorePoint' \in Seq(ProviderMessages)
      BY <1>1, <1>2, <1>3, WithoutTurnBegins DEF ContextOverflow
    <2>2. PICK t \in Trims(restorePoint') : messages' = t \o TurnTail(history', persisted)
      BY <1>1 DEF ContextOverflow
    <2>3. t \in Seq(ProviderMessages)
      BY <2>1, TrimsType
    <2>4. TurnTail(history', persisted) \in Seq(ProviderMessages)
      BY <1>2, <1>3, TailType
    <2>5. t \o TurnTail(history', persisted) \in Seq(ProviderMessages)
      BY <2>3, <2>4, ConcatProperties
    <2>6. QED
      BY <2>1, <2>2, <2>5
  <1>5. retry + 1 \in 0 .. MaxRetries
    BY <1>1, TurnAssumption DEF SafeInv, TurnTypeOK, ContextOverflow
  <1>6. TurnTypeOK'
    BY <1>1, <1>3, <1>4, <1>5 DEF SafeInv, TurnTypeOK, ContextOverflow, Moves, toolVars
  <1>7. PlaceInv'
    BY <1>1 DEF SafeInv, PlaceInv, InLLM, InTools, ContextOverflow, Moves, toolVars
  <1>8. StoreInv'
    BY <1>1, <1>3 DEF StoreInv, ContextOverflow, Moves
  <1>9. QED
    BY <1>6, <1>7, <1>8 DEF SafeInv

(* The queue and the pending list after a poll.                              *)
LEMMA PolledType ==
    ASSUME SafeInv
    PROVE  /\ Batch(queue) \in Seq(1 .. NumSteering)
           /\ Rest(queue) \in Seq(1 .. NumSteering)
           /\ execPending \o Batch(queue) \in Seq(1 .. NumSteering)
           /\ \A m : In(m, queue) \/ In(m, execPending) =>
                  In(m, Rest(queue)) \/ In(m, execPending \o Batch(queue))
           /\ queue = <<>> => /\ Batch(queue) = <<>> /\ Rest(queue) = <<>>
                              /\ execPending \o Batch(queue) = execPending
           /\ execPending = <<>> => execPending \o Batch(queue) = Batch(queue)
           /\ queue # <<>> => Batch(queue) # <<>> /\ execPending \o Batch(queue) # <<>>
  <1>1. queue \in Seq(1 .. NumSteering) /\ execPending \in Seq(1 .. NumSteering)
    BY DEF SafeInv, TurnTypeOK
  <1>2. /\ Batch(queue) \in Seq(1 .. NumSteering)
        /\ Rest(queue) \in Seq(1 .. NumSteering)
        /\ \A m : In(m, queue) => In(m, Batch(queue)) \/ In(m, Rest(queue))
        /\ queue = <<>> => Batch(queue) = <<>> /\ Rest(queue) = <<>>
    BY <1>1, PollType
  <1>3. queue # <<>> => Batch(queue) # <<>>
    BY DEF Batch
  <1>4. \A m : In(m, execPending \o Batch(queue)) <=> In(m, execPending) \/ In(m, Batch(queue))
    BY <1>1, <1>2, InConcat
  <1>5. execPending \o Batch(queue) \in Seq(1 .. NumSteering)
    BY <1>1, <1>2, ConcatProperties
  <1>6. /\ execPending = <<>> => execPending \o Batch(queue) = Batch(queue)
        /\ Batch(queue) = <<>> => execPending \o Batch(queue) = execPending
        /\ Batch(queue) # <<>> => execPending \o Batch(queue) # <<>>
    BY <1>1, <1>2, ConcatEmptySeq, ConcatEqualIffEmpty
  <1>7. QED
    BY <1>2, <1>3, <1>4, <1>5, <1>6

LEMMA DirectAnswerSafe == SafeInv /\ DirectAnswer => SafeInv'
  <1>1. SUFFICES ASSUME SafeInv, DirectAnswer PROVE SafeInv'
    OBVIOUS
  <1>2. execPending' \in Seq(1 .. NumSteering) /\ queue' \in Seq(1 .. NumSteering)
    BY <1>1, PolledType DEF DirectAnswer
  <1>3. pending' \in Seq(1 .. NumSteering)
    BY <1>1, <1>2 DEF DirectAnswer, SafeInv, TurnTypeOK
  <1>4. TurnTypeOK'
    BY <1>1, <1>2, <1>3 DEF SafeInv, TurnTypeOK, DirectAnswer, Moves, llmVars, storeVars, toolVars
  <1>5. PlaceInv'
    BY <1>1
    DEF SafeInv, TurnTypeOK, PlaceInv, InLLM, InTools, DirectAnswer, Moves,
        llmVars, storeVars, toolVars
  <1>6. StoreInv'
    BY <1>1 DEF SafeInv, StoreInv, DirectAnswer, Moves, llmVars, storeVars, toolVars
  <1>7. QED
    BY <1>4, <1>5, <1>6 DEF SafeInv

LEMMA ToolsContinueSafe == SafeInv /\ ToolsContinue => SafeInv'
  <1>1. SUFFICES ASSUME SafeInv, ToolsContinue PROVE SafeInv'
    OBVIOUS
  <1>2. execPending' \in Seq(1 .. NumSteering) /\ queue' \in Seq(1 .. NumSteering)
    BY <1>1, PolledType DEF ToolsContinue, SafeInv, TurnTypeOK
  <1>3. pending' \in Seq(1 .. NumSteering)
    BY <1>1, <1>2 DEF ToolsContinue, SafeInv, TurnTypeOK
  <1>4. TurnTypeOK'
    BY <1>1, <1>2, <1>3 DEF SafeInv, TurnTypeOK, ToolsContinue, Moves, llmVars, storeVars
  <1>5. PlaceInv'
    BY <1>1
    DEF SafeInv, TurnTypeOK, PlaceInv, InLLM, InTools, ToolsContinue, Moves, llmVars, storeVars
  <1>6. StoreInv'
    BY <1>1 DEF SafeInv, StoreInv, ToolsContinue, Moves, llmVars, storeVars
  <1>7. QED
    BY <1>4, <1>5, <1>6 DEF SafeInv

(* What each of the steps that store messages stores.                        *)
LEMMA StoredTypes ==
    ASSUME SafeInv
    PROVE  /\ \A n \in 1 .. MaxCalls : <<Msg("calls", iteration, n)>> \in Seq(ProviderMessages)
           /\ <<ToolResult(next)>> \in Seq(ProviderMessages)
           /\ \A k \in Nat : <<Msg("assistant", iteration, k)>> \in Seq(ProviderMessages)
           /\ InTools =>
                 [i \in 1 .. calls - next + 1 |-> ToolResult(next + i - 1)]
                    \in Seq(ProviderMessages)
  <1>1. iteration \in Nat /\ next \in Nat /\ calls \in Nat
    BY TurnAssumption DEF SafeInv, TurnTypeOK
  <1>2. \A k \in Nat : /\ Msg("calls", iteration, k) \in ProviderMessages
                       /\ Msg("tool", iteration, k) \in ProviderMessages
                       /\ Msg("assistant", iteration, k) \in ProviderMessages
    BY <1>1 DEF Msg, ProviderMessages
  <1>3. ASSUME InTools
        PROVE  [i \in 1 .. calls - next + 1 |-> ToolResult(next + i - 1)]
                  \in Seq(ProviderMessages)
    <2>1. next \in 1 .. calls + 1 /\ calls - next + 1 \in Nat
      BY <1>1, <1>3 DEF SafeInv, PlaceInv
    <2>2. \A i \in 1 .. calls - next + 1 : ToolResult(next + i - 1) \in ProviderMessages
      BY <2>1, <1>1, <1>2 DEF ToolResult
    <2>3. QED
      BY <2>1, <2>2
  <1>4. MaxCalls \in Nat
    BY TurnAssumption
  <1>5. QED
    BY <1>1, <1>2, <1>3, <1>4 DEF ToolResult

(* A step that stores messages and only moves on among the calls.            *)
LEMMA StoringSafe ==
    ASSUME SafeInv,
           \/ \E n \in 1 .. MaxCalls : ToolCalls(n)
           \/ ToolDenied \/ Skip \/ ToolAnswered \/ ToolsHandled \/ Finalize
    PROVE  SafeInv'
  <1>1. ASSUME NEW ms \in Seq(ProviderMessages), Add(ms),
               ~hardAbort => history # <<>>
        PROVE  /\ messages' \in Seq(ProviderMessages)
               /\ history' \in Seq(ProviderMessages)
               /\ persisted' \in Seq(ProviderMessages)
               /\ restorePoint' = restorePoint
               /\ ~hardAbort => history' # <<>> /\ FromUser(history')
    BY <1>1, AddKeeps DEF SafeInv, StoreInv
  <1>2. pc \notin {"start", "guard", "iterate"} => (~hardAbort => history # <<>>)
    BY DEF SafeInv, StoreInv
  <1> USE DEF Moves, Ends, InLLM, InTools
  <1>3. CASE \E n \in 1 .. MaxCalls : ToolCalls(n)
    <2>1. PICK n \in 1 .. MaxCalls : ToolCalls(n)
      BY <1>3
    <2>2. /\ messages' \in Seq(ProviderMessages)
          /\ history' \in Seq(ProviderMessages)
          /\ persisted' \in Seq(ProviderMessages)
          /\ restorePoint' = restorePoint
          /\ ~hardAbort => history' # <<>> /\ FromUser(history')
      BY <2>1, <1>1, <1>2, StoredTypes DEF ToolCalls
    <2>3. calls' \in 1 .. MaxCalls /\ next' = 1 /\ next' \in 0 .. MaxCalls + 1
      BY <2>1, TurnAssumption DEF ToolCalls
    <2>4. TurnTypeOK'
      BY <2>1, <2>2, <2>3 DEF SafeInv, TurnTypeOK, ToolCalls, llmVars
    <2>5. PlaceInv' /\ StoreInv'
      BY <2>1, <2>2, <2>3, TurnAssumption DEF SafeInv, PlaceInv, StoreInv, ToolCalls, llmVars
    <2>6. QED
      BY <2>4, <2>5 DEF SafeInv
  <1>4. CASE ToolDenied
    <2>1. /\ messages' \in Seq(ProviderMessages)
          /\ history' \in Seq(ProviderMessages)
          /\ persisted' \in Seq(ProviderMessages)
          /\ restorePoint' = restorePoint
          /\ ~hardAbort => history' # <<>> /\ FromUser(history')
      BY <1>4, <1>1, <1>2, StoredTypes DEF ToolDenied
    <2>2. /\ next' \in 1 .. calls + 1 /\ next' \in 0 .. MaxCalls + 1
          /\ calls' = calls /\ calls > 0
      BY <1>4, TurnAssumption DEF SafeInv, TurnTypeOK, PlaceInv, ToolDenied
    <2>3. TurnTypeOK'
      BY <1>4, <2>1, <2>2 DEF SafeInv, TurnTypeOK, ToolDenied, llmVars
    <2>4. PlaceInv' /\ StoreInv'
      BY <1>4, <2>1, <2>2 DEF SafeInv, PlaceInv, StoreInv, ToolDenied, llmVars
    <2>5. QED
      BY <2>3, <2>4 DEF SafeInv
  <1>5. CASE Skip
    <2>1. /\ messages' \in Seq(ProviderMessages)
          /\ history' \in Seq(ProviderMessages)
          /\ persisted' \in Seq(ProviderMessages)
          /\ restorePoint' = restorePoint
          /\ ~hardAbort => history' # <<>> /\ FromUser(history')
      BY <1>5, <1>1, <1>2, StoredTypes DEF Skip
    <2>2. /\ next' \in 0 .. MaxCalls + 1 /\ calls' = calls
      BY <1>5, TurnAssumption DEF SafeInv, TurnTypeOK, PlaceInv, Skip
    <2>3. /\ execPending' \in Seq(1 .. NumSteering) /\ queue' \in Seq(1 .. NumSteering)
          /\ handled' \in BOOLEAN
      BY <1>5, PolledType DEF Skip, SafeInv, TurnTypeOK
    <2>4. TurnTypeOK'
      BY <1>5, <2>1, <2>2, <2>3 DEF SafeInv, TurnTypeOK, Skip, llmVars
    <2>5. PlaceInv' /\ StoreInv'
      BY <1>5, <2>1 DEF SafeInv, TurnTypeOK, PlaceInv, StoreInv, Skip, llmVars
    <2>6. QED
      BY <2>4, <2>5 DEF SafeInv
  <1>6. CASE ToolAnswered
    <2>1. /\ messages' \in Seq(ProviderMessages)
          /\ history' \in Seq(ProviderMessages)
          /\ persisted' \in Seq(ProviderMessages)
          /\ restorePoint' = restorePoint
          /\ ~hardAbort => history' # <<>> /\ FromUser(history')
      BY <1>6, <1>1, <1>2, StoredTypes DEF ToolAnswered
    <2>2. /\ next' \in 1 .. calls + 1 /\ next' \in 0 .. MaxCalls + 1
          /\ calls' = calls /\ calls > 0 /\ handled' \in BOOLEAN
      BY <1>6, TurnAssumption DEF SafeInv, TurnTypeOK, PlaceInv, ToolAnswered
    <2>3. TurnTypeOK'
      BY <1>6, <2>1, <2>2 DEF SafeInv, TurnTypeOK, ToolAnswered, llmVars
    <2>4. PlaceInv' /\ StoreInv'
      BY <1>6, <2>1, <2>2 DEF SafeInv, PlaceInv, StoreInv, ToolAnswered, llmVars
    <2>5. QED
      BY <2>3, <2>4 DEF SafeInv
  <1>7. CASE ToolsHandled
    <2>1. /\ messages' \in Seq(ProviderMessages)
          /\ history' \in Seq(ProviderMessages)
          /\ persisted' \in Seq(ProviderMessages)
          /\ restorePoint' = restorePoint
          /\ ~hardAbort => history' # <<>> /\ FromUser(history')
      BY <1>7, <1>1, <1>2, StoredTypes DEF ToolsHandled
    <2>2. TurnTypeOK'
      BY <1>7, <2>1 DEF SafeInv, TurnTypeOK, ToolsHandled, llmVars, toolVars
    <2>3. PlaceInv' /\ StoreInv'
      BY <1>7, <2>1 DEF SafeInv, PlaceInv, StoreInv, ToolsHandled, llmVars, toolVars
    <2>4. QED
      BY <2>2, <2>3 DEF SafeInv
  <1>8. CASE Finalize
    <2>1. /\ messages' \in Seq(ProviderMessages)
          /\ history' \in Seq(ProviderMessages)
          /\ persisted' \in Seq(ProviderMessages)
          /\ restorePoint' = restorePoint
          /\ ~hardAbort => history' # <<>> /\ FromUser(history')
      BY <1>8, <1>1, <1>2, StoredTypes DEF Finalize
    <2>2. TurnTypeOK'
      BY <1>8, <2>1 DEF SafeInv, TurnTypeOK, Finalize, llmVars, toolVars
    <2>3. PlaceInv' /\ StoreInv'
      BY <1>8, <2>1 DEF SafeInv, PlaceInv, StoreInv, Finalize, llmVars, toolVars
    <2>4. QED
      BY <2>2, <2>3 DEF SafeInv
  <1>9. QED
    BY <1>3, <1>4, <1>5, <1>6, <1>7, <1>8

LEMMA RestoreSafe == SafeInv /\ Restore => SafeInv'
  <1>1. SUFFICES ASSUME SafeInv, Restore PROVE SafeInv'
    OBVIOUS
  <1>2. QED
    BY <1>1
    DEF SafeInv, TurnTypeOK, PlaceInv, StoreInv, InLLM, InTools, Restore, Ends, Moves,
        llmVars, toolVars

LEMMA NextSafe == SafeInv /\ [TurnNext]_turnVars => SafeInv'
  <1>1. SUFFICES ASSUME SafeInv, [TurnNext]_turnVars PROVE SafeInv'
    OBVIOUS
  <1>2. CASE UNCHANGED turnVars
    BY <1>1, <1>2
    DEF SafeInv, TurnTypeOK, PlaceInv, StoreInv, InLLM, InTools, turnVars, llmVars, steerVars,
        storeVars, toolVars, signalVars
  <1>3. CASE Stop
    BY <1>1, <1>3, QuietSafe, StopWritesSafe DEF Stop
  <1>4. CASE LLM
    BY <1>1, <1>4, QuietSafe, ContextOverflowSafe, DirectAnswerSafe, StoringSafe DEF LLM
  <1>5. CASE Tools
    BY <1>1, <1>5, QuietSafe, ToolsContinueSafe, StoringSafe DEF Tools
  <1>6. CASE Step
    BY <1>1, <1>4, <1>5, <1>6, QuietSafe, SetupSafe, IterateSafe, StoringSafe, RestoreSafe
    DEF Step
  <1>7. QED
    BY <1>1, <1>2, <1>3, <1>6, QuietSafe, SteeringArrivesSafe DEF TurnNext, Over

LEMMA SafeInvCorrect == TurnSpec => []SafeInv
  BY InitSafe, NextSafe, PTL DEF TurnSpec

(* Type correctness of a turn.                                               *)
THEOREM TurnTypeCorrect == TurnSpec => []TurnTypeOK
  <1>1. SafeInv => TurnTypeOK
    BY DEF SafeInv
  <1>2. QED
    BY <1>1, SafeInvCorrect, PTL

-----------------------------------------------------------------------------
(* Calls and results pair.                                                   *)

(* Messages that are neither calls nor results keep the rest paired.         *)
LEMMA PlainAdded ==
    ASSUME NEW h \in Seq(ProviderMessages), WellPaired(h), NEW ms \in Seq(ProviderMessages),
           \A i \in 1 .. Len(ms) : ms[i].role \notin {"calls", "tool"}
    PROVE  WellPaired(h \o ms)
  BY NoCalls, Joined

(* So does an answer.                                                        *)
LEMMA AnswerAdded ==
    ASSUME NEW h \in Seq(ProviderMessages), WellPaired(h), NEW n \in Int, NEW k \in Nat
    PROVE  WellPaired(h \o <<Msg("assistant", n, k)>>)
  <1> DEFINE ms == <<Msg("assistant", n, k)>>
  <1>1. ms \in Seq(ProviderMessages) /\ Len(ms) = 1
    BY MsgType
  <1>2. \A i \in 1 .. 1 : ms[i].role = "assistant"
    BY DEF Msg
  <1> HIDE DEF ms
  <1>3. WellPaired(h \o ms)
    BY <1>1, <1>2, PlainAdded
  <1>4. QED
    BY <1>3 DEF ms

LEMMA InitPaired == TurnInit => PairInv
  <1>1. WellPaired(<<>>)
    BY EmptySeq, TrimsType, OldType, OldPaired DEF Trims
  <1>2. QED
    BY <1>1, OldPaired DEF TurnInit, PairInv, Paired, InTools

(* Nothing else of the turn counts for its lists.                            *)
LEMMA PairNext ==
    PairedNext(history') /\ PairedNext(messages') /\ PairedNext(persisted') => PairInv'
  BY DEF PairInv, Paired, PairedNext, InTools

(* A step that adds the same messages to each of the lists.                  *)
LEMMA AddedPaired ==
    ASSUME SafeInv, PairInv, ~hardAbort, NEW ms, Add(ms),
           \A h \in Seq(ProviderMessages) : Paired(h) => PairedNext(h \o ms)
    PROVE  PairInv'
  <1>1. /\ history \in Seq(ProviderMessages) /\ messages \in Seq(ProviderMessages)
        /\ persisted \in Seq(ProviderMessages)
        /\ Paired(history) /\ Paired(messages) /\ Paired(persisted)
    BY DEF SafeInv, TurnTypeOK, PairInv
  <1>2. /\ history' = history \o ms /\ messages' = messages \o ms
        /\ persisted' = persisted \o ms
    BY DEF Add
  <1>3. QED
    BY <1>1, <1>2, PairNext

(* A step between the tools that leaves the lists alone.                     *)
LEMMA SamePaired ==
    ASSUME SafeInv, PairInv, ~hardAbort, UNCHANGED storeVars,
           \A h \in Seq(ProviderMessages) : Paired(h) => PairedNext(h)
    PROVE  PairInv'
  <1>1. /\ history \in Seq(ProviderMessages) /\ messages \in Seq(ProviderMessages)
        /\ persisted \in Seq(ProviderMessages)
        /\ Paired(history) /\ Paired(messages) /\ Paired(persisted)
    BY DEF SafeInv, TurnTypeOK, PairInv
  <1>2. history' = history /\ messages' = messages /\ persisted' = persisted
    BY DEF storeVars
  <1>3. QED
    BY <1>1, <1>2, PairNext

(* A step that leaves the history alone and does not leave the tools.        *)
LEMMA QuietPaired ==
    ASSUME PairInv,
           \/ UNCHANGED turnVars \/ SteeringArrives
           \/ Interrupt \/ (Stop /\ SafeInv) \/ StartAborted \/ Guard
           \/ LLMAnswers \/ LLMCancelled \/ LLMFails \/ LLMTransient \/ Backoff \/ DirectAnswer
           \/ HookHardAborts \/ ToolStarts \/ ToolReturns \/ ToolHookAborts \/ ToolsContinue
           \/ (FinalizeHandled \/ Restore) /\ SafeInv
    PROVE  PairInv'
  <1> USE DEF PairInv, Paired, InTools, Moves, Ends, StopGoes,
              llmVars, steerVars, storeVars, toolVars, signalVars
  <1>1. CASE UNCHANGED turnVars
    BY <1>1 DEF turnVars
  <1>2. CASE SteeringArrives
    BY <1>2 DEF SteeringArrives
  <1>3. CASE Interrupt
    BY <1>3 DEF Interrupt
  <1>4. CASE Stop /\ SafeInv
    <2>1. CASE StopLoads
      BY <2>1 DEF StopLoads
    <2>2. CASE RequestHardAbort
      BY <2>2 DEF RequestHardAbort
    <2>3. CASE StopReads
      BY <2>3 DEF StopReads
    <2>4. CASE StopWrites
      BY <1>4, <2>4 DEF StopWrites, SafeInv, PlaceInv
    <2>5. QED
      BY <1>4, <2>1, <2>2, <2>3, <2>4 DEF Stop
  <1>5. CASE StartAborted
    BY <1>5 DEF StartAborted
  <1>6. CASE Guard
    BY <1>6 DEF Guard
  <1>7. CASE LLMAnswers
    BY <1>7 DEF LLMAnswers
  <1>8. CASE LLMCancelled
    BY <1>8 DEF LLMCancelled
  <1>9. CASE LLMFails
    BY <1>9 DEF LLMFails
  <1>10. CASE LLMTransient
    BY <1>10 DEF LLMTransient
  <1>11. CASE Backoff
    BY <1>11 DEF Backoff
  <1>12. CASE DirectAnswer
    BY <1>12 DEF DirectAnswer
  <1>13. CASE HookHardAborts
    BY <1>13 DEF HookHardAborts
  <1>14. CASE ToolStarts
    BY <1>14 DEF ToolStarts
  <1>15. CASE ToolReturns
    BY <1>15 DEF ToolReturns
  <1>16. CASE ToolHookAborts
    BY <1>16 DEF ToolHookAborts
  <1>17. CASE ToolsContinue
    BY <1>17 DEF ToolsContinue
  <1>18. CASE FinalizeHandled /\ SafeInv
    <2>1. status # "error"
      BY <1>18 DEF FinalizeHandled, SafeInv, TurnTypeOK
    <2>2. QED
      BY <1>18, <2>1 DEF FinalizeHandled
  <1>19. CASE Restore /\ SafeInv
    BY <1>19 DEF Restore, SafeInv, PlaceInv
  <1>20. QED
    BY <1>1, <1>2, <1>3, <1>4, <1>5, <1>6, <1>7, <1>8, <1>9, <1>10, <1>11, <1>12, <1>13,
       <1>14, <1>15, <1>16, <1>17, <1>18, <1>19

LEMMA SetupPaired == SafeInv /\ PairInv /\ Setup => PairInv'
  <1>1. SUFFICES ASSUME SafeInv, PairInv, Setup, ~hardAbort' PROVE PairInv'
    BY DEF PairInv
  <1>2. history \in Seq(ProviderMessages) /\ FromUser(history) /\ WellPaired(history)
    BY <1>1 DEF SafeInv, TurnTypeOK, StoreInv, PairInv, Paired, InTools, Setup, Moves
  <1> DEFINE root == IF continuation THEN <<>> ELSE <<Msg("user", 0, 0)>>
  <1>3. root \in Seq(ProviderMessages)
    BY EmptySeq, MsgType
  <1>4. \A i \in 1 .. Len(root) : root[i].role \notin {"calls", "tool"}
    <2>1. CASE continuation
      BY <2>1, EmptySeq
    <2>2. CASE ~continuation
      <3>1. root = <<Msg("user", 0, 0)>> /\ Msg("user", 0, 0).role = "user"
        BY <2>2 DEF Msg
      <3> HIDE DEF root
      <3>2. Len(root) = 1 /\ root[1].role = "user"
        BY <3>1
      <3>3. QED
        BY <3>2
    <2>3. QED
      BY <2>1, <2>2
  <1> HIDE DEF root
  <1>5. PICK h \in {history, Compressed(history)} :
              history' = h \o root /\ (\E t \in Trims(h) : messages' = t \o root)
    BY <1>1 DEF Setup, root
  <1>6. h \in Seq(ProviderMessages) /\ WellPaired(h)
    BY <1>2, <1>5, CompressedType
  <1>7. WellPaired(history') /\ WellPaired(messages')
    BY <1>3, <1>4, <1>5, <1>6, TrimsType, PlainAdded
  <1>8. WellPaired(persisted')
    <2>1. persisted' = root
      BY <1>1 DEF Setup, root
    <2>2. QED
      BY <1>3, <1>4, <2>1, NoCalls
  <1>9. QED
    BY <1>1, <1>7, <1>8 DEF PairInv, Paired, InTools, Setup, Moves

LEMMA IteratePaired == SafeInv /\ PairInv /\ Iterate => PairInv'
  <1>1. SUFFICES ASSUME SafeInv, PairInv, Iterate, ~hardAbort' PROVE PairInv'
    BY DEF PairInv
  <1>2. /\ ~hardAbort /\ ~InTools /\ ~InTools' /\ status = "running"
    BY <1>1 DEF SafeInv, TurnTypeOK, InTools, Iterate, Moves
  <1>3. ToInject \in Seq(1 .. NumSteering)
    BY <1>1, ToInjectType
  <1>4. PICK ms : ms = Steered(ToInject)
    OBVIOUS
  <1>5. /\ ms \in Seq(ProviderMessages)
        /\ \A i \in 1 .. Len(ms) : ms[i] = Msg("user", ToInject[i], 0)
    BY <1>3, <1>4, SteeredType
  <1>6. \A n, k : Msg("user", n, k).role \notin {"calls", "tool"}
    BY DEF Msg
  <1>7. \A i \in 1 .. Len(ms) : ms[i].role \notin {"calls", "tool"}
    BY <1>5, <1>6
  <1>8. ASSUME NEW h \in Seq(ProviderMessages), Paired(h)
        PROVE  PairedNext(h \o ms)
    <2>1. WellPaired(h)
      BY <1>2, <1>8 DEF Paired
    <2>2. WellPaired(h \o ms)
      BY <1>5, <1>7, <2>1, PlainAdded
    <2>3. QED
      BY <1>2, <2>2 DEF PairedNext
  <1>9. Add(ms)
    BY <1>1, <1>4 DEF Iterate
  <1>10. QED
    BY <1>1, <1>2, <1>8, <1>9, AddedPaired

LEMMA ContextOverflowPaired == SafeInv /\ PairInv /\ ContextOverflow => PairInv'
  <1>1. SUFFICES ASSUME SafeInv, PairInv, ContextOverflow, ~hardAbort' PROVE PairInv'
    BY DEF PairInv
  <1>2. /\ history \in Seq(ProviderMessages) /\ FromUser(history) /\ WellPaired(history)
        /\ persisted \in Seq(ProviderMessages) /\ WellPaired(persisted)
    BY <1>1
    DEF SafeInv, TurnTypeOK, StoreInv, PairInv, Paired, InTools, ContextOverflow, Moves
  <1>3. history' \in Seq(ProviderMessages) /\ WellPaired(history')
    BY <1>1, <1>2, CompressedType DEF ContextOverflow
  <1>4. PICK t \in Trims(restorePoint') : messages' = t \o TurnTail(history', persisted)
    BY <1>1 DEF ContextOverflow
  <1>5. restorePoint' \in Seq(ProviderMessages) /\ WellPaired(restorePoint')
    BY <1>1, <1>2, <1>3, WithoutTurnBegins, TailPaired DEF ContextOverflow
  <1>6. t \in Seq(ProviderMessages) /\ WellPaired(t)
    BY <1>5, TrimsType
  <1>7. /\ TurnTail(history', persisted) \in Seq(ProviderMessages)
        /\ WellPaired(TurnTail(history', persisted))
    BY <1>2, <1>3, TailType, TailPaired
  <1>8. WellPaired(messages')
    BY <1>4, <1>6, <1>7, Joined
  <1>9. persisted' = persisted
    BY <1>1 DEF ContextOverflow
  <1>10. QED
    BY <1>1, <1>2, <1>3, <1>8, <1>9 DEF PairInv, Paired, InTools, ContextOverflow, Moves

LEMMA ToolCallsPaired ==
    ASSUME NEW n \in 1 .. MaxCalls
    PROVE  SafeInv /\ PairInv /\ ToolCalls(n) => PairInv'
  <1>1. SUFFICES ASSUME SafeInv, PairInv, ToolCalls(n), ~hardAbort' PROVE PairInv'
    BY DEF PairInv
  <1>2. /\ ~hardAbort /\ ~InTools /\ InTools' /\ status = "running"
        /\ iteration \in Int /\ n \in Nat
    BY <1>1, TurnAssumption DEF SafeInv, TurnTypeOK, InTools, ToolCalls, Moves
  <1>3. Add(Group(iteration, n, 0))
    BY <1>1, <1>2, NoResults DEF ToolCalls
  <1>4. iteration' = iteration /\ calls' = n /\ next' - 1 = 0
    BY <1>1 DEF ToolCalls, llmVars
  <1>5. ASSUME NEW h \in Seq(ProviderMessages), Paired(h)
        PROVE  PairedNext(h \o Group(iteration, n, 0))
    <2>1. WellPaired(h)
      BY <1>2, <1>5 DEF Paired
    <2>2. QED
      BY <1>2, <1>4, <2>1 DEF PairedNext
  <1>6. QED
    BY <1>1, <1>2, <1>3, <1>5, AddedPaired

(* What is stored after some of the results.                                 *)
LEMMA ResultsAdded ==
    ASSUME SafeInv, NEW l \in Seq(ProviderMessages), Paired(l), InTools,
           NEW m \in Nat, next + m <= calls + 1
    PROVE  LET ms == [i \in 1 .. m |-> ToolResult(next + i - 1)] IN
           /\ \E h \in Seq(ProviderMessages) :
                  WellPaired(h) /\ l \o ms = h \o Group(iteration, calls, next + m - 1)
           /\ next + m = calls + 1 => WellPaired(l \o ms)
  <1> DEFINE ms == [i \in 1 .. m |-> ToolResult(next + i - 1)]
  <1>1. /\ iteration \in Int /\ calls \in Nat /\ next \in Int
        /\ next - 1 \in Nat /\ (next - 1) + m = next + m - 1
    BY TurnAssumption DEF SafeInv, TurnTypeOK, PlaceInv
  <1>2. PICK h \in Seq(ProviderMessages) :
            WellPaired(h) /\ l = h \o Group(iteration, calls, next - 1)
    BY DEF Paired
  <1>3. ms = Results(iteration, next - 1, m)
    <2>1. \A i \in 1 .. m : next + i - 1 = (next - 1) + i
      BY <1>1
    <2>2. QED
      BY <2>1 DEF ToolResult, Results
  <1> HIDE DEF ms
  <1>4. l \o ms = h \o Group(iteration, calls, next + m - 1)
    <2>1. PICK x \in Nat : x = next - 1
      BY <1>1
    <2>2. (h \o Group(iteration, calls, x)) \o Results(iteration, x, m)
              = h \o Group(iteration, calls, x + m)
      <3>1. iteration \in Int /\ calls \in Nat /\ x \in Nat /\ h \in Seq(ProviderMessages)
        BY <1>1, <1>2, <2>1
      <3>2. QED
        BY <3>1, GroupGrows
    <2>3. QED
      BY <1>1, <1>2, <1>3, <2>1, <2>2
  <1>5. ASSUME next + m = calls + 1 PROVE WellPaired(l \o ms)
    <2>1. l \o ms = h \o Group(iteration, calls, calls)
      <3>1. next + m - 1 = calls
        BY <1>1, <1>5
      <3>2. QED
        BY <3>1, <1>4
    <2>2. Group(iteration, calls, calls) \in Seq(ProviderMessages)
      BY <1>1, GroupType
    <2>3. WellPaired(Group(iteration, calls, calls))
      BY <1>1, GroupPaired
    <2>4. QED
      BY <1>2, <2>1, <2>2, <2>3, Joined
  <1>6. QED
    BY <1>2, <1>4, <1>5 DEF ms

(* One result is a list of results.                                          *)
LEMMA OneResult ==
    ASSUME SafeInv
    PROVE  <<ToolResult(next)>> = [i \in 1 .. 1 |-> ToolResult(next + i - 1)]
  <1>1. next \in Nat
    BY TurnAssumption DEF SafeInv, TurnTypeOK
  <1>2. next + 1 - 1 = next
    BY <1>1
  <1>3. \A i \in 1 .. 1 : i = 1
    OBVIOUS
  <1>4. QED
    BY <1>2, <1>3

LEMMA ToolsPaired ==
    SafeInv /\ PairInv /\ (NextTool \/ ToolDenied \/ ToolAnswered \/ Skip \/ ToolsHandled)
        => PairInv'
  <1>1. SUFFICES ASSUME SafeInv, PairInv, ~hardAbort',
                        NextTool \/ ToolDenied \/ ToolAnswered \/ Skip \/ ToolsHandled
                 PROVE  PairInv'
    BY DEF PairInv
  <1>2. ~hardAbort /\ iteration' = iteration /\ calls' = calls
    BY <1>1
    DEF NextTool, ToolDenied, ToolAnswered, Skip, ToolsHandled, llmVars, toolVars
  <1>3. iteration \in Int /\ calls \in Nat /\ next \in Nat
    BY <1>1, TurnAssumption DEF SafeInv, TurnTypeOK
  <1>4. CASE NextTool
    <2>1. /\ UNCHANGED storeVars /\ next' = next /\ InTools
          /\ next \in 1 .. calls + 1
      BY <1>1, <1>4 DEF NextTool, toolVars, Moves, InTools, SafeInv, PlaceInv
    <2>2. ASSUME NEW l \in Seq(ProviderMessages), Paired(l)
          PROVE  PairedNext(l)
      <3>1. PICK h \in Seq(ProviderMessages) :
                WellPaired(h) /\ l = h \o Group(iteration, calls, next - 1)
        BY <2>1, <2>2 DEF Paired
      <3>2. CASE next > calls
        <4>1. ~InTools'
          BY <1>2, <1>3, <1>4, <3>2 DEF NextTool, Moves, InTools
        <4>2. next - 1 = calls
          BY <1>3, <2>1, <3>2
        <4>3. l = h \o Group(iteration, calls, calls)
          BY <3>1, <4>2
        <4>4. /\ Group(iteration, calls, calls) \in Seq(ProviderMessages)
              /\ WellPaired(Group(iteration, calls, calls))
          BY <1>3, GroupType, GroupPaired
        <4>5. WellPaired(l)
          BY <3>1, <4>3, <4>4, Joined
        <4>6. QED
          BY <4>1, <4>5 DEF PairedNext
      <3>3. CASE ~(next > calls)
        <4>1. InTools'
          BY <1>2, <1>3, <1>4, <3>3 DEF NextTool, Moves, InTools
        <4>2. QED
          BY <1>2, <2>1, <3>1, <4>1 DEF PairedNext
      <3>4. QED
        BY <3>2, <3>3
    <2>3. QED
      BY <1>1, <1>2, <2>1, <2>2, SamePaired
  <1>5. CASE ToolDenied \/ ToolAnswered
    <2>1. /\ InTools /\ InTools' /\ next' = next + 1 /\ next <= calls
          /\ Add(<<ToolResult(next)>>)
      BY <1>1, <1>5 DEF ToolDenied, ToolAnswered, Moves, InTools, SafeInv, PlaceInv
    <2>2. PICK ms : ms = <<ToolResult(next)>>
      OBVIOUS
    <2>3. ms = [i \in 1 .. 1 |-> ToolResult(next + i - 1)]
      BY <1>1, <2>2, OneResult
    <2>4. ASSUME NEW l \in Seq(ProviderMessages), Paired(l)
          PROVE  PairedNext(l \o ms)
      <3>1. next + 1 <= calls + 1
        BY <1>3, <2>1
      <3>2. PICK h \in Seq(ProviderMessages) :
                WellPaired(h) /\ l \o ms = h \o Group(iteration, calls, next + 1 - 1)
        BY <1>1, <2>1, <2>3, <2>4, <3>1, ResultsAdded
      <3>3. next + 1 - 1 = next' - 1
        <4>1. next' = next + 1
          BY <2>1
        <4>2. next + 1 - 1 = next /\ next' - 1 = next
          BY <1>3, <4>1
        <4>3. QED
          BY <4>2
      <3>4. l \o ms = h \o Group(iteration', calls', next' - 1)
        BY <1>2, <3>2, <3>3
      <3>5. QED
        BY <2>1, <3>2, <3>4 DEF PairedNext
    <2>5. Add(ms)
      BY <2>1, <2>2
    <2>6. QED
      BY <1>1, <1>2, <2>4, <2>5, AddedPaired
  <1>6. CASE Skip
    <2>1. /\ InTools /\ ~InTools' /\ next <= calls
          /\ Add([i \in 1 .. calls - next + 1 |-> ToolResult(next + i - 1)])
      BY <1>1, <1>6 DEF Skip, Moves, InTools, SafeInv, PlaceInv
    <2>2. PICK m \in Nat : m = calls - next + 1
      BY <1>3, <2>1
    <2>3. next + m = calls + 1 /\ next + m <= calls + 1
      BY <1>3, <2>2
    <2>4. PICK ms : ms = [i \in 1 .. m |-> ToolResult(next + i - 1)]
      OBVIOUS
    <2>5. ASSUME NEW l \in Seq(ProviderMessages), Paired(l)
          PROVE  PairedNext(l \o ms)
      <3>1. WellPaired(l \o ms)
        BY <1>1, <2>1, <2>3, <2>4, <2>5, ResultsAdded
      <3>2. QED
        BY <2>1, <3>1 DEF PairedNext
    <2>6. Add(ms)
      BY <2>1, <2>2, <2>4
    <2>7. QED
      BY <1>1, <1>2, <2>5, <2>6, AddedPaired
  <1>7. CASE ToolsHandled
    <2>1. ~InTools /\ ~InTools' /\ status = "running"
      BY <1>1, <1>7 DEF ToolsHandled, Moves, InTools, SafeInv, TurnTypeOK
    <2>2. ASSUME NEW l \in Seq(ProviderMessages), Paired(l)
          PROVE  PairedNext(l \o <<Msg("assistant", iteration, 1)>>)
      <3>1. WellPaired(l)
        BY <2>1, <2>2 DEF Paired
      <3>2. WellPaired(l \o <<Msg("assistant", iteration, 1)>>)
        BY <1>3, <3>1, AnswerAdded
      <3>3. QED
        BY <2>1, <3>2 DEF PairedNext
    <2>3. Add(<<Msg("assistant", iteration, 1)>>)
      BY <1>7 DEF ToolsHandled
    <2>4. QED
      BY <1>1, <1>2, <2>2, <2>3, AddedPaired
  <1>8. QED
    BY <1>1, <1>4, <1>5, <1>6, <1>7

LEMMA FinalizePaired == SafeInv /\ PairInv /\ Finalize => PairInv'
  <1>1. SUFFICES ASSUME SafeInv, PairInv, Finalize, ~hardAbort' PROVE PairInv'
    BY DEF PairInv
  <1>2. /\ ~hardAbort /\ ~InTools /\ ~InTools' /\ status = "running" /\ iteration \in Int
        /\ Add(<<Msg("assistant", iteration, 0)>>)
    BY <1>1 DEF SafeInv, TurnTypeOK, InTools, Finalize, Ends, Moves
  <1>3. ASSUME NEW l \in Seq(ProviderMessages), Paired(l)
        PROVE  PairedNext(l \o <<Msg("assistant", iteration, 0)>>)
    <2>1. WellPaired(l)
      BY <1>2, <1>3 DEF Paired
    <2>2. WellPaired(l \o <<Msg("assistant", iteration, 0)>>)
      BY <1>2, <2>1, AnswerAdded
    <2>3. QED
      BY <1>2, <2>2 DEF PairedNext
  <1>4. QED
    BY <1>1, <1>2, <1>3, AddedPaired

LEMMA NextPaired == SafeInv /\ PairInv /\ [TurnNext]_turnVars => PairInv'
  <1>1. SUFFICES ASSUME SafeInv, PairInv, [TurnNext]_turnVars PROVE PairInv'
    OBVIOUS
  <1>2. CASE LLM
    BY <1>1, <1>2, QuietPaired, ContextOverflowPaired, ToolCallsPaired DEF LLM
  <1>3. CASE Tools
    BY <1>1, <1>3, QuietPaired, ToolsPaired DEF Tools
  <1>4. CASE Step
    BY <1>1, <1>2, <1>3, <1>4, QuietPaired, SetupPaired, IteratePaired, FinalizePaired
    DEF Step
  <1>5. QED
    BY <1>1, <1>4, QuietPaired DEF TurnNext, Over

(* Every tool call the LLM is sent and every one a completed turn leaves in  *)
(* the store has its one result, at its place.                               *)
THEOREM CallsAnsweredCorrect == TurnSpec => []CallsAnswered
  <1>1. SafeInv /\ PairInv => CallsAnswered
    BY DEF SafeInv, TurnTypeOK, PairInv, Paired, InTools, CallsAnswered
  <1>2. QED
    BY <1>1, InitPaired, NextPaired, SafeInvCorrect, PTL DEF TurnSpec

-----------------------------------------------------------------------------
(* No steering message is lost.                                              *)

(* What is injected stays so, and what Add stores is injected.               *)
LEMMA InjectedKept ==
    ASSUME SafeInv, NEW ms \in Seq(ProviderMessages), Add(ms), NEW m
    PROVE  /\ Injected(m) => Injected(m)'
           /\ (\E i \in 1 .. Len(ms) : ms[i] = Msg("user", m, 0)) => Injected(m)'
  <1>1. persisted \in Seq(ProviderMessages) /\ persisted' = persisted \o ms
    BY DEF SafeInv, TurnTypeOK, Add
  <1>2. /\ persisted' \in Seq(ProviderMessages)
        /\ Len(persisted') = Len(persisted) + Len(ms)
        /\ \A i \in 1 .. Len(persisted) + Len(ms) :
               persisted'[i] = IF i <= Len(persisted) THEN persisted[i]
                               ELSE ms[i - Len(persisted)]
    BY <1>1, ConcatProperties
  <1>3. /\ Len(persisted) \in Nat /\ DOMAIN persisted = 1 .. Len(persisted)
        /\ Len(ms) \in Nat
        /\ DOMAIN persisted' = 1 .. Len(persisted) + Len(ms)
    BY <1>1, <1>2, LenProperties
  <1>4. ASSUME Injected(m) PROVE Injected(m)'
    <2>1. PICK i \in DOMAIN persisted : persisted[i] = Msg("user", m, 0)
      BY <1>4 DEF Injected
    <2>2. i \in DOMAIN persisted' /\ persisted'[i] = Msg("user", m, 0)
      BY <1>2, <1>3, <2>1
    <2>3. QED
      BY <2>2 DEF Injected
  <1>5. ASSUME NEW i \in 1 .. Len(ms), ms[i] = Msg("user", m, 0) PROVE Injected(m)'
    <2>1. /\ Len(persisted) + i \in DOMAIN persisted'
          /\ persisted'[Len(persisted) + i] = ms[i]
      <3>1. PICK k \in 1 .. Len(persisted) + Len(ms) :
                k = Len(persisted) + i /\ ~(k <= Len(persisted)) /\ k - Len(persisted) = i
        BY <1>3
      <3>2. QED
        BY <1>2, <1>3, <3>1
    <2>2. QED
      BY <1>5, <2>1 DEF Injected
  <1>6. QED
    BY <1>4, <1>5

LEMMA InitSteered == TurnInit => SteerInv
  <1>1. SUFFICES ASSUME TurnInit PROVE SteerInv
    OBVIOUS
  <1>2. \A m \in 1 .. sent : In(m, execPending)
    <2>1. CASE continuation
      <3>1. sent = 1 /\ execPending = <<1>>
        BY <1>1, <2>1 DEF TurnInit
      <3>2. 1 \in DOMAIN execPending /\ execPending[1] = 1
        BY <3>1
      <3>3. \A m \in 1 .. sent : m = 1
        BY <3>1
      <3>4. QED
        BY <3>2, <3>3 DEF In
    <2>2. CASE ~continuation
      BY <1>1, <2>2 DEF TurnInit
    <2>3. QED
      BY <2>1, <2>2
  <1>3. QED
    BY <1>1, <1>2 DEF TurnInit, SteerInv, InLLM, InTools

(* A step that leaves the messages where they are.                           *)
LEMMA QuietSteered ==
    ASSUME SafeInv, SteerInv,
           \/ UNCHANGED turnVars
           \/ Interrupt \/ Stop \/ StartAborted \/ Guard
           \/ LLMAnswers \/ LLMCancelled \/ LLMFails \/ LLMTransient \/ Backoff
           \/ ContextOverflow
           \/ HookHardAborts \/ NextTool \/ ToolStarts \/ ToolReturns \/ ToolHookAborts
           \/ FinalizeHandled \/ Restore
    PROVE  SteerInv'
  <1>1. /\ pc # "done" => status = "running"
        /\ pc = "done" => status # "running"
    BY DEF SafeInv, TurnTypeOK
  <1> USE DEF SteerInv, Injected, InLLM, InTools, Moves, Ends, StopGoes,
              llmVars, steerVars, storeVars, toolVars, signalVars
  <1>2. CASE UNCHANGED turnVars
    BY <1>2 DEF turnVars
  <1>3. CASE Interrupt
    BY <1>3 DEF Interrupt
  <1>4. CASE Stop
    <2>1. CASE StopLoads
      BY <2>1 DEF StopLoads
    <2>2. CASE RequestHardAbort
      BY <2>2 DEF RequestHardAbort
    <2>3. CASE StopReads
      BY <2>3 DEF StopReads
    <2>4. CASE StopWrites
      BY <2>4 DEF StopWrites
    <2>5. QED
      BY <1>4, <2>1, <2>2, <2>3, <2>4 DEF Stop
  <1>5. CASE StartAborted
    BY <1>1, <1>5 DEF StartAborted
  <1>6. CASE Guard
    BY <1>1, <1>6 DEF Guard, More
  <1>7. CASE LLMAnswers
    BY <1>1, <1>7 DEF LLMAnswers
  <1>8. CASE LLMCancelled
    BY <1>1, <1>8 DEF LLMCancelled
  <1>9. CASE LLMFails
    BY <1>1, <1>9 DEF LLMFails
  <1>10. CASE LLMTransient
    BY <1>1, <1>10 DEF LLMTransient
  <1>11. CASE Backoff
    BY <1>1, <1>11 DEF Backoff
  <1>12. CASE ContextOverflow
    BY <1>1, <1>12 DEF ContextOverflow
  <1>13. CASE HookHardAborts
    BY <1>1, <1>13 DEF HookHardAborts
  <1>14. CASE NextTool
    BY <1>1, <1>14 DEF NextTool
  <1>15. CASE ToolStarts
    BY <1>1, <1>15 DEF ToolStarts
  <1>16. CASE ToolReturns
    BY <1>1, <1>16 DEF ToolReturns
  <1>17. CASE ToolHookAborts
    BY <1>1, <1>17 DEF ToolHookAborts
  <1>18. CASE FinalizeHandled
    BY <1>1, <1>18 DEF FinalizeHandled
  <1>19. CASE Restore
    BY <1>1, <1>19 DEF Restore
  <1>20. QED
    BY <1>2, <1>3, <1>4, <1>5, <1>6, <1>7, <1>8, <1>9, <1>10, <1>11, <1>12, <1>13,
       <1>14, <1>15, <1>16, <1>17, <1>18, <1>19

LEMMA SteeringArrivesSteered == SafeInv /\ SteerInv /\ SteeringArrives => SteerInv'
  <1>1. SUFFICES ASSUME SafeInv, SteerInv, SteeringArrives PROVE SteerInv'
    OBVIOUS
  <1>2. queue \in Seq(1 .. NumSteering) /\ sent + 1 \in 1 .. NumSteering /\ sent \in Nat
    BY <1>1, TurnAssumption DEF SafeInv, TurnTypeOK, SteeringArrives
  <1>3. /\ queue' \in Seq(1 .. NumSteering)
        /\ Len(queue') = Len(queue) + 1
        /\ \A i \in 1 .. Len(queue) : queue'[i] = queue[i]
        /\ queue'[Len(queue) + 1] = sent + 1
    BY <1>1, <1>2, AppendProperties DEF SteeringArrives
  <1>4. /\ Len(queue) \in Nat /\ DOMAIN queue = 1 .. Len(queue)
        /\ DOMAIN queue' = 1 .. Len(queue) + 1
    BY <1>2, <1>3, LenProperties
  <1>5. \A m : In(m, queue) => In(m, queue')
    BY <1>3, <1>4 DEF In
  <1>6. In(sent + 1, queue')
    <2>1. Len(queue) + 1 \in DOMAIN queue'
      BY <1>4
    <2>2. QED
      BY <1>3, <2>1 DEF In
  <1>7. \A m \in 1 .. sent' : m \in 1 .. sent \/ m = sent + 1
    BY <1>1, <1>2 DEF SteeringArrives
  <1>8. UNCHANGED <<pc, status, execPending, persisted, stop>>
    BY <1>1 DEF SteeringArrives, storeVars, signalVars
  <1>9. QED
    BY <1>1, <1>5, <1>6, <1>7, <1>8 DEF SteerInv, Injected, InLLM, InTools

LEMMA SetupSteered == SafeInv /\ SteerInv /\ Setup => SteerInv'
  <1>1. SUFFICES ASSUME SafeInv, SteerInv, Setup PROVE SteerInv'
    OBVIOUS
  <1>2. ~\E m : Injected(m)
    BY <1>1 DEF SafeInv, PlaceInv, Setup, Moves, Injected
  <1>3. /\ UNCHANGED <<queue, execPending, sent, stop, status>>
        /\ pc' = "guard" /\ status = "running"
    BY <1>1 DEF Setup, Moves, SafeInv, TurnTypeOK
  <1>4. QED
    BY <1>1, <1>2, <1>3 DEF SteerInv, InLLM, InTools

LEMMA IterateSteered == SafeInv /\ SteerInv /\ Iterate => SteerInv'
  <1>1. SUFFICES ASSUME SafeInv, SteerInv, Iterate PROVE SteerInv'
    OBVIOUS
  <1>2. PICK q \in Seq(1 .. NumSteering) :
            /\ q = ToInject
            /\ \A m : In(m, execPending) => In(m, q)
            /\ Polls => \A m : In(m, queue) => In(m, q) \/ In(m, Rest(queue))
    BY <1>1, ToInjectType
  <1>3. PICK ms : ms = Steered(q)
    OBVIOUS
  <1>4. /\ ms \in Seq(ProviderMessages)
        /\ Len(ms) = Len(q) /\ DOMAIN q = 1 .. Len(q)
        /\ \A i \in 1 .. Len(q) : ms[i] = Msg("user", q[i], 0)
    BY <1>3, SteeredType, LenProperties
  <1>5. Add(ms)
    BY <1>1, <1>2, <1>3 DEF Iterate
  <1>6. ASSUME NEW m, In(m, q) PROVE Injected(m)'
    <2>1. PICK i \in 1 .. Len(q) : q[i] = m
      BY <1>4, <1>6 DEF In
    <2>2. ms[i] = Msg("user", m, 0) /\ i \in 1 .. Len(ms)
      BY <1>4, <2>1
    <2>3. QED
      BY <1>1, <1>4, <1>5, <2>2, InjectedKept
  <1>7. \A m : Injected(m) => Injected(m)'
    BY <1>1, <1>4, <1>5, InjectedKept
  <1>8. \A m : In(m, queue) => In(m, q) \/ In(m, queue')
    BY <1>1, <1>2 DEF Iterate
  <1>9. UNCHANGED <<sent, stop, status>> /\ execPending' = <<>>
    BY <1>1 DEF Iterate, Moves
  <1>10. ASSUME stop' = "none", NEW m \in 1 .. sent'
         PROVE  In(m, queue') \/ In(m, execPending') \/ Injected(m)'
    <2>1. In(m, queue) \/ In(m, execPending) \/ Injected(m)
      BY <1>1, <1>9, <1>10 DEF SteerInv
    <2>2. QED
      BY <1>2, <1>6, <1>7, <1>8, <2>1
  <1>11. QED
    BY <1>9, <1>10 DEF SteerInv

(* A poll moves messages from the queue to the pending list.                 *)
LEMMA PollSteered ==
    ASSUME SafeInv, SteerInv, DirectAnswer \/ ToolsContinue
    PROVE  SteerInv'
  <1>1. /\ \A m : In(m, queue) \/ In(m, execPending) => In(m, queue') \/ In(m, execPending')
        /\ UNCHANGED <<sent, stop, status, persisted>>
        /\ status = "running"
        /\ pc' = "guard" \/ (pc' = "finalize" /\ execPending' = <<>>)
    <2>1. CASE DirectAnswer
      <3>1. pc' = "finalize" => execPending = <<>> /\ queue = <<>>
        BY <2>1 DEF DirectAnswer, Moves, SteerInv, InLLM
      <3>2. execPending' = execPending \o Batch(queue) /\ queue' = Rest(queue)
        BY <2>1 DEF DirectAnswer
      <3>3. UNCHANGED <<sent, stop, status, persisted>> /\ status = "running"
        BY <2>1 DEF DirectAnswer, Moves, storeVars, SafeInv, TurnTypeOK
      <3>4. pc' \in {"guard", "finalize"}
        BY <2>1 DEF DirectAnswer, Moves
      <3>5. QED
        BY <3>1, <3>2, <3>3, <3>4, PolledType
    <2>2. CASE ToolsContinue
      <3>1. \/ execPending' = execPending /\ queue' = queue
            \/ execPending' = execPending \o Batch(queue) /\ queue' = Rest(queue)
        BY <2>2, PolledType DEF ToolsContinue
      <3>2. UNCHANGED <<sent, stop, status, persisted>> /\ status = "running" /\ pc' = "guard"
        BY <2>2 DEF ToolsContinue, Moves, storeVars, SafeInv, TurnTypeOK
      <3>3. QED
        BY <3>1, <3>2, PolledType
    <2>3. QED
      BY <2>1, <2>2
  <1>2. QED
    BY <1>1 DEF SteerInv, Injected, InLLM, InTools

LEMMA StoringSteered ==
    ASSUME SafeInv, SteerInv,
           \/ \E n \in 1 .. MaxCalls : ToolCalls(n)
           \/ ToolDenied \/ Skip \/ ToolAnswered \/ ToolsHandled \/ Finalize
    PROVE  SteerInv'
  <1>1. ASSUME NEW ms \in Seq(ProviderMessages), Add(ms),
               \A m : In(m, queue) \/ In(m, execPending) =>
                          In(m, queue') \/ In(m, execPending'),
               UNCHANGED <<sent, stop>>,
               InLLM' \/ InTools' \/ pc' \in {"handled", "finalize"} \/ status' = "completed" =>
                   execPending' = <<>>
        PROVE  SteerInv'
    <2>1. \A m : Injected(m) => Injected(m)'
      BY <1>1, InjectedKept
    <2>2. QED
      BY <1>1, <2>1 DEF SteerInv
  <1>2. pc # "done" => status = "running"
    BY DEF SafeInv, TurnTypeOK
  <1> USE DEF Moves, Ends, InLLM, InTools
  <1>3. ASSUME NEW n \in 1 .. MaxCalls, ToolCalls(n) PROVE SteerInv'
    <2>1. /\ UNCHANGED <<queue, execPending, sent, stop, status>>
          /\ execPending = <<>> /\ Add(<<Msg("calls", iteration, n)>>)
      BY <1>3 DEF ToolCalls, SteerInv
    <2>2. QED
      BY <2>1, <1>1, StoredTypes
  <1>4. CASE ToolDenied
    <2>1. /\ UNCHANGED <<queue, execPending, sent, stop, status>>
          /\ execPending = <<>> /\ Add(<<ToolResult(next)>>)
      BY <1>4 DEF ToolDenied, SteerInv
    <2>2. QED
      BY <2>1, <1>1, StoredTypes
  <1>5. CASE Skip
    <2>1. /\ UNCHANGED <<sent, stop, status>> /\ pc' = "afterTools" /\ status = "running"
          /\ execPending' = execPending \o Batch(queue) /\ queue' = Rest(queue)
          /\ InTools /\ Add([i \in 1 .. calls - next + 1 |-> ToolResult(next + i - 1)])
      BY <1>2, <1>5 DEF Skip
    <2>2. \A m : In(m, queue) \/ In(m, execPending) => In(m, queue') \/ In(m, execPending')
      BY <2>1, PolledType
    <2>3. [i \in 1 .. calls - next + 1 |-> ToolResult(next + i - 1)] \in Seq(ProviderMessages)
      BY <2>1, StoredTypes
    <2>4. QED
      BY <2>1, <2>2, <2>3, <1>1
  <1>6. CASE ToolAnswered
    <2>1. /\ UNCHANGED <<queue, execPending, sent, stop, status>>
          /\ execPending = <<>> /\ Add(<<ToolResult(next)>>)
      BY <1>6 DEF ToolAnswered, SteerInv
    <2>2. QED
      BY <2>1, <1>1, StoredTypes
  <1>7. CASE ToolsHandled
    <2>1. /\ UNCHANGED <<queue, execPending, sent, stop, status>>
          /\ execPending = <<>> /\ Add(<<Msg("assistant", iteration, 1)>>)
      BY <1>7 DEF ToolsHandled, SteerInv
    <2>2. QED
      BY <2>1, <1>1, StoredTypes
  <1>8. CASE Finalize
    <2>1. /\ UNCHANGED <<queue, execPending, sent, stop>>
          /\ execPending = <<>> /\ Add(<<Msg("assistant", iteration, 0)>>)
      BY <1>8 DEF Finalize, SteerInv
    <2>2. QED
      BY <2>1, <1>1, StoredTypes
  <1>9. QED
    BY <1>3, <1>4, <1>5, <1>6, <1>7, <1>8

LEMMA NextSteered == SafeInv /\ SteerInv /\ [TurnNext]_turnVars => SteerInv'
  <1>1. SUFFICES ASSUME SafeInv, SteerInv, [TurnNext]_turnVars PROVE SteerInv'
    OBVIOUS
  <1>2. CASE LLM
    BY <1>1, <1>2, QuietSteered, PollSteered, StoringSteered DEF LLM
  <1>3. CASE Tools
    BY <1>1, <1>3, QuietSteered, PollSteered, StoringSteered DEF Tools
  <1>4. CASE Step
    BY <1>1, <1>2, <1>3, <1>4, QuietSteered, SetupSteered, IterateSteered, StoringSteered
    DEF Step
  <1>5. QED
    BY <1>1, <1>4, QuietSteered, SteeringArrivesSteered DEF TurnNext, Over

(* A turn that completes has injected every steering message it took from    *)
(* the queue.                                                                *)
THEOREM TakenIsInjectedCorrect == TurnSpec => []TakenIsInjected
  <1>1. SafeInv /\ SteerInv => TakenIsInjected
    <2>1. SUFFICES ASSUME SteerInv, status = "completed", stop = "none", NEW m \in Taken
                   PROVE  Injected(m)
      BY DEF TakenIsInjected
    <2>2. m \in 1 .. sent /\ ~In(m, queue)
      BY <2>1 DEF Taken, In
    <2>3. ~In(m, execPending)
      BY <2>1 DEF SteerInv, In
    <2>4. QED
      BY <2>1, <2>2, <2>3 DEF SteerInv
  <1>2. QED
    BY <1>1, InitSteered, NextSteered, SafeInvCorrect, PTL DEF TurnSpec

-----------------------------------------------------------------------------
(* An aborted turn is rolled back.                                           *)

LEMMA InitRestore == TurnInit => RestoreInv
  <1>1. Len(Old) \in Nat
    BY OldType, LenProperties
  <1>2. Begins(Old, Old)
    BY <1>1 DEF Begins
  <1>3. QED
    BY <1>2 DEF TurnInit, RestoreInv

LEMMA BeginsItself == ASSUME NEW h \in Seq(ProviderMessages) PROVE Begins(h, h)
  BY LenProperties DEF Begins

(* Messages that begin with r are cut back to r by its length.               *)
LEMMA CutBack ==
    ASSUME NEW r \in Seq(ProviderMessages), NEW h \in Seq(ProviderMessages), Begins(r, h)
    PROVE  SubSeq(h, 1, Len(r)) = r
  <1> DEFINE s == SubSeq(h, 1, Len(r))
  <1>1. /\ Len(r) \in Nat /\ DOMAIN r = 1 .. Len(r)
        /\ Len(h) \in Nat /\ Len(r) <= Len(h)
        /\ \A i \in 1 .. Len(r) : h[i] = r[i]
        /\ \A i \in 1 .. Len(h) : h[i] \in ProviderMessages
    BY LenProperties, ElementOfSeq DEF Begins
  <1>2. /\ s \in Seq(ProviderMessages)
        /\ Len(s) = Len(r)
        /\ \A i \in 1 .. Len(r) : s[i] = h[i]
    <2>1. \A i \in 1 .. Len(r) : h[i] \in ProviderMessages
      BY <1>1
    <2>2. /\ s \in Seq(ProviderMessages)
          /\ Len(s) = IF 1 <= Len(r) THEN Len(r) - 1 + 1 ELSE 0
          /\ \A i \in 1 .. Len(r) - 1 + 1 : s[i] = h[1 + i - 1]
      BY <1>1, <2>1, SubSeqProperties
    <2> HIDE DEF s
    <2>3. \A i \in 1 .. Len(r) : 1 + i - 1 = i
      BY <1>1
    <2>4. QED
      BY <1>1, <2>2, <2>3
  <1> HIDE DEF s
  <1>3. DOMAIN s = 1 .. Len(r)
    BY <1>2, LenProperties
  <1>4. s = r
    BY <1>1, <1>2, <1>3
  <1>5. QED
    BY <1>4 DEF s

(* A step that leaves the history and the restore point alone.               *)
LEMMA QuietRestore ==
    ASSUME SafeInv, RestoreInv,
           \/ UNCHANGED turnVars \/ SteeringArrives
           \/ Interrupt \/ (Stop /\ ~StopWrites) \/ StartAborted \/ Guard
           \/ LLMAnswers \/ LLMCancelled \/ LLMFails \/ LLMTransient \/ Backoff \/ DirectAnswer
           \/ HookHardAborts \/ NextTool \/ ToolStarts \/ ToolReturns \/ ToolHookAborts
           \/ ToolsContinue \/ FinalizeHandled
    PROVE  RestoreInv'
  <1>1. Begins(restorePoint, history) \/ stop = "done"
    BY DEF RestoreInv
  <1> USE DEF RestoreInv, Moves, Ends, StopGoes,
              llmVars, steerVars, storeVars, toolVars, signalVars
  <1>2. CASE UNCHANGED turnVars
    BY <1>2 DEF turnVars
  <1>3. CASE SteeringArrives
    BY <1>3 DEF SteeringArrives
  <1>4. CASE Interrupt
    BY <1>4 DEF Interrupt
  <1>5. CASE Stop /\ ~StopWrites
    <2>1. CASE StopLoads
      BY <2>1 DEF StopLoads
    <2>2. CASE RequestHardAbort
      BY <2>2 DEF RequestHardAbort
    <2>3. CASE StopReads
      BY <1>1, <2>3 DEF StopReads
    <2>4. QED
      BY <1>5, <2>1, <2>2, <2>3 DEF Stop
  <1>6. CASE StartAborted
    BY <1>6 DEF StartAborted
  <1>7. CASE Guard
    BY <1>7 DEF Guard
  <1>8. CASE LLMAnswers
    BY <1>8 DEF LLMAnswers
  <1>9. CASE LLMCancelled
    BY <1>9 DEF LLMCancelled
  <1>10. CASE LLMFails
    BY <1>10 DEF LLMFails
  <1>11. CASE LLMTransient
    BY <1>11 DEF LLMTransient
  <1>12. CASE Backoff
    BY <1>12 DEF Backoff
  <1>13. CASE DirectAnswer
    BY <1>13 DEF DirectAnswer
  <1>14. CASE HookHardAborts
    BY <1>14 DEF HookHardAborts
  <1>15. CASE NextTool
    BY <1>15 DEF NextTool
  <1>16. CASE ToolStarts
    BY <1>16 DEF ToolStarts
  <1>17. CASE ToolReturns
    BY <1>17 DEF ToolReturns
  <1>18. CASE ToolHookAborts
    BY <1>18 DEF ToolHookAborts
  <1>19. CASE ToolsContinue
    BY <1>19 DEF ToolsContinue
  <1>20. CASE FinalizeHandled
    BY <1>20 DEF FinalizeHandled
  <1>21. QED
    BY <1>2, <1>3, <1>4, <1>5, <1>6, <1>7, <1>8, <1>9, <1>10, <1>11, <1>12, <1>13, <1>14,
       <1>15, <1>16, <1>17, <1>18, <1>19, <1>20

(* A step that only adds to the history of a turn under way.                 *)
LEMMA AddingRestore ==
    ASSUME SafeInv, RestoreInv, NEW ms \in Seq(ProviderMessages), Add(ms),
           UNCHANGED <<stop, stopRead>>, status' # "aborted"
    PROVE  RestoreInv'
  <1>1. /\ history \in Seq(ProviderMessages) /\ restorePoint \in Seq(ProviderMessages)
        /\ history' = history \o ms /\ restorePoint' = restorePoint
    BY DEF SafeInv, TurnTypeOK, Add
  <1>2. Begins(restorePoint, history) => Begins(restorePoint, history')
    BY <1>1, BeginsAgain
  <1>3. QED
    BY <1>1, <1>2 DEF RestoreInv

LEMMA StoringRestore ==
    ASSUME SafeInv, RestoreInv,
           \/ Iterate \/ \E n \in 1 .. MaxCalls : ToolCalls(n)
           \/ ToolDenied \/ Skip \/ ToolAnswered \/ ToolsHandled \/ Finalize
    PROVE  RestoreInv'
  <1>1. pc # "done" => status = "running"
    BY DEF SafeInv, TurnTypeOK
  <1> USE DEF Moves, Ends
  <1>2. CASE Iterate
    <2>1. Steered(ToInject) \in Seq(ProviderMessages)
      BY ToInjectType, SteeredType
    <2>2. Add(Steered(ToInject)) /\ UNCHANGED <<stop, stopRead>> /\ status' # "aborted"
      BY <1>1, <1>2 DEF Iterate
    <2>3. QED
      BY <2>1, <2>2, AddingRestore
  <1>3. ASSUME NEW n \in 1 .. MaxCalls, ToolCalls(n) PROVE RestoreInv'
    <2>1. /\ Add(<<Msg("calls", iteration, n)>>)
          /\ UNCHANGED <<stop, stopRead>> /\ status' # "aborted"
      BY <1>1, <1>3 DEF ToolCalls
    <2>2. QED
      BY <2>1, StoredTypes, AddingRestore
  <1>4. CASE ToolDenied \/ ToolAnswered
    <2>1. /\ Add(<<ToolResult(next)>>)
          /\ UNCHANGED <<stop, stopRead>> /\ status' # "aborted"
      BY <1>1, <1>4 DEF ToolDenied, ToolAnswered
    <2>2. QED
      BY <2>1, StoredTypes, AddingRestore
  <1>5. CASE Skip
    <2>1. PICK ms : ms = [i \in 1 .. calls - next + 1 |-> ToolResult(next + i - 1)]
      OBVIOUS
    <2>2. Add(ms) /\ UNCHANGED <<stop, stopRead>> /\ status' # "aborted" /\ InTools
      BY <1>1, <1>5, <2>1 DEF Skip, InTools
    <2>3. ms \in Seq(ProviderMessages)
      BY <2>1, <2>2, StoredTypes
    <2>4. QED
      BY <2>2, <2>3, AddingRestore
  <1>6. CASE ToolsHandled
    <2>1. /\ Add(<<Msg("assistant", iteration, 1)>>)
          /\ UNCHANGED <<stop, stopRead>> /\ status' # "aborted"
      BY <1>1, <1>6 DEF ToolsHandled
    <2>2. QED
      BY <2>1, StoredTypes, AddingRestore
  <1>7. CASE Finalize
    <2>1. /\ Add(<<Msg("assistant", iteration, 0)>>)
          /\ UNCHANGED <<stop, stopRead>> /\ status' # "aborted"
      BY <1>7 DEF Finalize
    <2>2. QED
      BY <2>1, StoredTypes, AddingRestore
  <1>8. QED
    BY <1>2, <1>3, <1>4, <1>5, <1>6, <1>7

LEMMA SetupRestore == SafeInv /\ RestoreInv /\ Setup => RestoreInv'
  <1>1. SUFFICES ASSUME SafeInv, RestoreInv, Setup PROVE RestoreInv'
    OBVIOUS
  <1>2. /\ history \in Seq(ProviderMessages) /\ FromUser(history)
        /\ status = "running" /\ stop \notin {"read", "done"}
    BY <1>1 DEF SafeInv, TurnTypeOK, PlaceInv, StoreInv, Setup, Moves
  <1> DEFINE root == IF continuation THEN <<>> ELSE <<Msg("user", 0, 0)>>
  <1>3. root \in Seq(ProviderMessages)
    BY EmptySeq, MsgType
  <1> HIDE DEF root
  <1>4. PICK h \in {history, Compressed(history)} : restorePoint' = h /\ history' = h \o root
    BY <1>1 DEF Setup, root
  <1>5. h \in Seq(ProviderMessages)
    BY <1>2, <1>4, CompressedType
  <1>6. Begins(restorePoint', history')
    BY <1>3, <1>4, <1>5, Added
  <1>7. UNCHANGED <<status, stop>>
    BY <1>1 DEF Setup, Moves
  <1>8. QED
    BY <1>2, <1>6, <1>7 DEF RestoreInv

LEMMA ContextOverflowRestore == SafeInv /\ RestoreInv /\ ContextOverflow => RestoreInv'
  <1>1. SUFFICES ASSUME SafeInv, RestoreInv, ContextOverflow PROVE RestoreInv'
    OBVIOUS
  <1>2. /\ history \in Seq(ProviderMessages) /\ FromUser(history)
        /\ persisted \in Seq(ProviderMessages)
        /\ status = "running" /\ stop \notin {"read", "done"}
    BY <1>1 DEF SafeInv, TurnTypeOK, PlaceInv, StoreInv, ContextOverflow, Moves
  <1>3. history' \in Seq(ProviderMessages)
    BY <1>1, <1>2, CompressedType DEF ContextOverflow
  <1>4. Begins(restorePoint', history')
    BY <1>1, <1>2, <1>3, WithoutTurnBegins DEF ContextOverflow
  <1>5. UNCHANGED <<status, stop>>
    BY <1>1 DEF ContextOverflow, Moves
  <1>6. QED
    BY <1>2, <1>4, <1>5 DEF RestoreInv

LEMMA RestoreRestores == SafeInv /\ RestoreInv /\ Restore => RestoreInv'
  <1>1. SUFFICES ASSUME SafeInv, RestoreInv, Restore PROVE RestoreInv'
    OBVIOUS
  <1>2. restorePoint \in Seq(ProviderMessages)
    BY <1>1 DEF SafeInv, TurnTypeOK
  <1>3. /\ restorePoint' = restorePoint /\ history' = restorePoint
        /\ UNCHANGED <<stop, stopRead>>
    BY <1>1 DEF Restore, Ends, Moves
  <1>4. Begins(restorePoint', history')
    BY <1>2, <1>3, BeginsItself
  <1>5. QED
    BY <1>1, <1>3, <1>4 DEF RestoreInv

LEMMA StopWritesRestore == SafeInv /\ RestoreInv /\ StopWrites => RestoreInv'
  <1>1. SUFFICES ASSUME SafeInv, RestoreInv, StopWrites PROVE RestoreInv'
    OBVIOUS
  <1>2. /\ UNCHANGED <<status, restorePoint>> /\ stop' = "done"
        /\ Begins(restorePoint, stopRead)
        /\ stopRead \in Seq(ProviderMessages)
    BY <1>1 DEF StopWrites, StopGoes, RestoreInv, SafeInv, TurnTypeOK
  <1>3. ASSUME status = "aborted", restorePoint = Old PROVE history' = Old
    <2>1. history = Old
      BY <1>1, <1>3 DEF RestoreInv
    <2>2. SubSeq(stopRead, 1, Len(Old)) = Old
      BY <1>2, <1>3, OldType, CutBack
    <2>3. QED
      BY <1>1, <2>1, <2>2 DEF StopWrites
  <1>4. QED
    BY <1>2, <1>3 DEF RestoreInv

LEMMA NextRestore == SafeInv /\ RestoreInv /\ [TurnNext]_turnVars => RestoreInv'
  <1>1. SUFFICES ASSUME SafeInv, RestoreInv, [TurnNext]_turnVars PROVE RestoreInv'
    OBVIOUS
  <1>2. CASE LLM
    BY <1>1, <1>2, QuietRestore, ContextOverflowRestore, StoringRestore DEF LLM
  <1>3. CASE Tools
    BY <1>1, <1>3, QuietRestore, StoringRestore DEF Tools
  <1>4. CASE Step
    BY <1>1, <1>2, <1>3, <1>4, QuietRestore, SetupRestore, StoringRestore, RestoreRestores
    DEF Step
  <1>5. QED
    BY <1>1, <1>4, QuietRestore, StopWritesRestore DEF TurnNext, Over

(* A turn that ends aborted leaves the history as it found it, whichever     *)
(* roll-back comes last.                                                     *)
THEOREM AbortedIsRolledBackCorrect == TurnSpec => []AbortedIsRolledBack
  <1>1. RestoreInv => AbortedIsRolledBack
    BY DEF RestoreInv, AbortedIsRolledBack
  <1>2. QED
    BY <1>1, InitRestore, NextRestore, SafeInvCorrect, PTL DEF TurnSpec
=============================================================================
