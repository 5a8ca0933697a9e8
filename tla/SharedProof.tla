------------------------------ MODULE SharedProof ------------------------------
(* What is proved of the parts that turns and requests share.  Fallback, for   *)
(* every number of calls and candidates, every table of cooldowns that grows up *)
(* to the failure window, and every rate: candidates are spared.  MCPManager,   *)
(* for any number of callers, calls and lost sessions: no session with the      *)
(* server is left open, taken away from a call or replaced twice.  MediaStore,  *)
(* for any number of files, scopes and references: a reference has its file and *)
(* a borrowed file is not deleted, but for a Store that races with the deletion *)
(* of its own path.  Launcher, for any number of clients, requests and gateway  *)
(* processes: a launcher tracks the gateways it started and stops its own.      *)
EXTENDS Fallback, MCPManager, MediaStore, Launcher, SequenceTheorems, FiniteSetTheorems, TLAPS

-----------------------------------------------------------------------------
(* Fallback.                                                                 *)

Entry == [errors: Nat, billing: Nat, end: Nat, disabled: Nat, failed: Int]
Bucket == [tokens: Nat, tick: Nat]
ChainCall == [at: {"idle", "look", "acquire", "wait", "run"}, chain: Seq(Candidates),
         image: BOOLEAN, spared: BOOLEAN]

ChainTypes ==
    /\ clock \in Nat /\ entry \in [Candidates -> Entry]
    /\ bucket \in [Candidates -> Bucket] /\ call \in [Calls -> ChainCall]
    /\ promised \in [Candidates -> Nat] /\ granted \in [Candidates -> Seq(Nat)]
    /\ \A c \in Calls : call[c].at # "idle" => call[c].chain # <<>>

(* The calls g let through by a bucket that held tokens at tick: from each on *)
(* no more than the burst and what was refilled since, and what is left in    *)
(* the bucket counts too.                                                     *)
Metered(g, tokens, tick) ==
    /\ \A i \in DOMAIN g :
          /\ g[i] <= tick
          /\ Len(g) - i + 1 + tokens <= Burst + Rate * (tick - g[i])
    /\ \A i, j \in DOMAIN g : i <= j => j - i + 1 <= Burst + Rate * (g[j] - g[i])

BucketInv ==
    \A k \in Candidates :
        /\ bucket[k].tick <= clock /\ bucket[k].tokens <= Burst
        /\ Metered(granted[k], bucket[k].tokens, bucket[k].tick)

(* A cooldown ends no later than the present counts would have it end when    *)
(* the candidate failed last; so a new failure never ends one earlier.        *)
Ends(end, lengths, n, failed) ==
    end = 0 \/ (n = 0 /\ end <= failed) \/ (n > 0 /\ end <= failed + CooldownOf(lengths, n))

CooldownInv ==
    \A k \in Candidates :
        /\ entry[k].failed <= clock
        /\ Ends(entry[k].end, Standard, entry[k].errors, entry[k].failed)
        /\ Ends(entry[k].disabled, Billing, entry[k].billing, entry[k].failed)
        /\ promised[k] \in {entry[k].end, entry[k].disabled}
        /\ entry[k].end <= promised[k] /\ entry[k].disabled <= promised[k]

(* A call that has looked runs against no cooldown, from its look on.         *)
SparedInv ==
    \A c \in Calls :
        call[c].at \in {"acquire", "wait", "run"} /\ ~call[c].image /\ call[c].spared
            => promised[Candidate(c)] <= clock

ChainInv == ChainTypes /\ BucketInv /\ CooldownInv /\ SparedInv

Numbers ==
    /\ {Window, Burst, Rate} \subseteq Nat /\ Chains \subseteq Seq(Candidates) \ {<<>>}
    /\ \A lengths \in {Standard, Billing} :
          /\ lengths \in Seq(Nat) /\ Len(lengths) \in Nat \ {0}
          /\ \A i \in 1 .. Len(lengths) : lengths[i] \in Nat /\ lengths[i] <= Window
          /\ \A i, j \in 1 .. Len(lengths) : i <= j => lengths[i] <= lengths[j]

-----------------------------------------------------------------------------
LEMMA NumbersHold == ASSUME FallbackAssumption PROVE Numbers
  <1>1. {Window, Burst, Rate} \subseteq Nat /\ Chains \subseteq Seq(Candidates) \ {<<>>}
    BY DEF FallbackAssumption
  <1>2. ASSUME NEW lengths \in {Standard, Billing}
        PROVE  /\ lengths \in Seq(Nat) /\ Len(lengths) \in Nat \ {0}
               /\ \A i \in 1 .. Len(lengths) : lengths[i] \in Nat /\ lengths[i] <= Window
               /\ \A i, j \in 1 .. Len(lengths) : i <= j => lengths[i] <= lengths[j]
    <2>1. /\ lengths \in Seq(0 .. Window) /\ lengths # <<>>
          /\ \A i, j \in DOMAIN lengths : i <= j => lengths[i] <= lengths[j]
      BY DEF FallbackAssumption
    <2>2. Len(lengths) \in Nat \ {0} /\ DOMAIN lengths = 1 .. Len(lengths)
      BY <2>1, EmptySeq, LenProperties
    <2>3. \A i \in 1 .. Len(lengths) : lengths[i] \in 0 .. Window
      BY <2>1, ElementOfSeq
    <2>4. 0 .. Window \subseteq Nat
      BY <1>1
    <2>5. lengths \in Seq(Nat)
      BY <2>1, <2>4, SeqMonotonic
    <2>6. QED
      BY SMTT(40), <1>1, <2>1, <2>2, <2>3, <2>5
  <1>3. QED
    BY <1>1, <1>2 DEF Numbers

(* The n-th length is one of the table, and later ones are no shorter.        *)
LEMMA NthGrows ==
    ASSUME Numbers, NEW lengths \in {Standard, Billing}, NEW m \in Nat, NEW n \in Nat,
           0 < m, m <= n
    PROVE  CooldownOf(lengths, m) \in Nat /\ CooldownOf(lengths, m) <= CooldownOf(lengths, n)
           /\ CooldownOf(lengths, n) \in Nat /\ CooldownOf(lengths, n) <= Window
  <1> DEFINE cap(x) == IF x <= Len(lengths) THEN x ELSE Len(lengths)
  <1>1. cap(m) \in 1 .. Len(lengths) /\ cap(n) \in 1 .. Len(lengths) /\ cap(m) <= cap(n)
    BY DEF Numbers
  <1>2. QED
    BY <1>1 DEF Numbers, CooldownOf

-----------------------------------------------------------------------------
(* Time passes, and the bucket is filled up by then.                          *)
LEMMA Distribute ==
    ASSUME NEW r \in Nat, NEW a \in Nat, NEW b \in Nat, NEW c \in Nat
    PROVE  r * (b - a) + (c - b) * r = r * (c - a)
  OBVIOUS

LEMMA Product == ASSUME NEW r \in Nat, NEW a \in Nat PROVE r * a \in Nat
  OBVIOUS

LEMMA RefillBounds ==
    ASSUME Numbers, ChainTypes, BucketInv, NEW k \in Candidates
    PROVE  /\ Refilled(k) \in Nat /\ Refilled(k) <= Burst
           /\ Refilled(k) <= bucket[k].tokens + (clock - bucket[k].tick) * Rate
           /\ (clock - bucket[k].tick) * Rate \in Nat
           /\ bucket[k].tick \in Nat /\ clock \in Nat /\ bucket[k].tokens \in Nat
  <1>1. /\ bucket[k].tick \in Nat /\ clock \in Nat /\ bucket[k].tokens \in Nat
        /\ bucket[k].tick <= clock /\ Rate \in Nat /\ Burst \in Nat
    BY DEF ChainTypes, BucketInv, Bucket, Numbers
  <1>2. clock - bucket[k].tick \in Nat
    BY <1>1
  <1>3. (clock - bucket[k].tick) * Rate \in Nat
    BY <1>1, <1>2, Product
  <1> DEFINE gain == (clock - bucket[k].tick) * Rate
  <1> HIDE DEF gain
  <1>4. Refilled(k) = IF bucket[k].tokens + gain < Burst THEN bucket[k].tokens + gain ELSE Burst
    BY DEF Refilled, gain
  <1>5. gain \in Nat
    BY <1>3 DEF gain
  <1>6. Refilled(k) \in Nat /\ Refilled(k) <= Burst /\ Refilled(k) <= bucket[k].tokens + gain
    BY <1>1, <1>4, <1>5
  <1>7. QED
    BY <1>1, <1>3, <1>6 DEF gain

LEMMA MeterArithmetic ==
    ASSUME NEW a \in Nat, NEW b \in Nat, NEW c \in Nat, a <= b, b <= c, NEW rate \in Nat,
           NEW count \in Int, NEW tokens \in Nat, NEW burst \in Nat, NEW refilled \in Nat,
           count + tokens <= burst + rate * (b - a), refilled <= tokens + (c - b) * rate
    PROVE  count + refilled <= burst + rate * (c - a) /\ rate * (c - a) \in Nat
  <1> DEFINE old == rate * (b - a)
             gain == (c - b) * rate
             new == rate * (c - a)
  <1>1. old + gain = new
    BY Distribute
  <1>2. b - a \in Nat /\ c - b \in Nat /\ c - a \in Nat
    OBVIOUS
  <1>3. old \in Nat /\ gain \in Nat /\ new \in Nat
    BY <1>2, Product
  <1>4. count + tokens <= burst + old /\ refilled <= tokens + gain
    OBVIOUS
  <1> HIDE DEF old, gain, new
  <1>5. count + refilled <= burst + new
    BY <1>1, <1>3, <1>4
  <1>6. QED
    BY <1>3, <1>5 DEF new

LEMMA MeteredLater ==
    ASSUME Numbers, ChainTypes, BucketInv, NEW k \in Candidates, NEW i \in DOMAIN granted[k]
    PROVE  /\ granted[k][i] \in Nat /\ granted[k][i] <= clock
           /\ Len(granted[k]) - i + 1 + Refilled(k) <= Burst + Rate * (clock - granted[k][i])
           /\ Rate * (clock - granted[k][i]) \in Nat
  <1> DEFINE g == granted[k]
             at == g[i]
             tick == bucket[k].tick
             tokens == bucket[k].tokens
             count == Len(g) - i + 1
             refilled == Refilled(k)
  <1>1. g \in Seq(Nat) /\ Len(g) \in Nat /\ i \in 1 .. Len(g) /\ at \in Nat
    BY LenProperties, ElementOfSeq DEF ChainTypes
  <1>2. at <= tick /\ count + tokens <= Burst + Rate * (tick - at)
    BY DEF BucketInv, Metered
  <1>3. /\ refilled \in Nat /\ refilled <= tokens + (clock - tick) * Rate
        /\ tick \in Nat /\ clock \in Nat /\ tokens \in Nat /\ tick <= clock
        /\ Rate \in Nat /\ Burst \in Nat
    BY RefillBounds DEF BucketInv, Numbers
  <1>4. count \in Int
    BY <1>1
  <1> HIDE DEF at, tick, tokens, count, refilled
  <1>5. count + refilled <= Burst + Rate * (clock - at) /\ Rate * (clock - at) \in Nat
    BY <1>1, <1>2, <1>3, <1>4, MeterArithmetic
  <1>6. at <= clock
    BY <1>1, <1>2, <1>3
  <1>7. QED
    BY <1>1, <1>5, <1>6 DEF at, count, refilled

LEMMA RefillMetered ==
    ASSUME Numbers, ChainTypes, BucketInv, NEW k \in Candidates
    PROVE  Metered(granted[k], Refilled(k), clock)
  BY MeteredLater DEF Metered, BucketInv

LEMMA TakeMetered ==
    ASSUME Numbers, ChainTypes, BucketInv, NEW k \in Candidates, Refilled(k) >= 1
    PROVE  Metered(Append(granted[k], clock), Refilled(k) - 1, clock)
  <1> DEFINE g == granted[k]
             h == Append(g, clock)
  <1>1. g \in Seq(Nat) /\ Len(g) \in Nat /\ clock \in Nat /\ DOMAIN g = 1 .. Len(g)
    BY LenProperties DEF ChainTypes
  <1>2. /\ h \in Seq(Nat) /\ Len(h) = Len(g) + 1 /\ h[Len(g) + 1] = clock
        /\ \A i \in 1 .. Len(g) : h[i] = g[i]
    BY <1>1, AppendProperties
  <1>3. DOMAIN h = 1 .. Len(g) + 1
    BY <1>2, LenProperties
  <1>4. Refilled(k) \in Nat /\ Refilled(k) <= Burst /\ Burst \in Nat /\ Rate \in Nat
    BY RefillBounds DEF Numbers
  <1>5. Rate * (clock - clock) = 0
    BY <1>1, <1>4
  <1>6. \A i \in 1 .. Len(g) : /\ g[i] \in Nat /\ g[i] <= clock
                               /\ Len(g) - i + 1 + Refilled(k) <= Burst + Rate * (clock - g[i])
                               /\ Rate * (clock - g[i]) \in Nat
    BY <1>1, MeteredLater
  <1>7. ASSUME NEW i \in DOMAIN h
        PROVE  h[i] <= clock /\ Len(h) - i + 1 + (Refilled(k) - 1) <= Burst + Rate * (clock - h[i])
    <2>1. CASE i = Len(g) + 1
      <3>1. h[i] = clock /\ Len(h) - i = 0
        BY <1>1, <1>2, <2>1
      <3>2. QED
        BY <1>1, <1>4, <1>5, <3>1
    <2>2. CASE i # Len(g) + 1
      <3>1. i \in 1 .. Len(g)
        BY <1>1, <1>3, <2>2
      <3> DEFINE x == Rate * (clock - g[i])
      <3>2. /\ g[i] <= clock /\ Len(g) - i + 1 + Refilled(k) <= Burst + x /\ x \in Nat
            /\ h[i] = g[i]
        BY <1>2, <1>6, <3>1
      <3>3. Rate * (clock - h[i]) = x
        BY <3>2
      <3> HIDE DEF x
      <3>4. QED
        BY SMTT(40), <1>1, <1>2, <1>4, <3>1, <3>2, <3>3
    <2>3. QED
      BY <2>1, <2>2
  <1>8. ASSUME NEW i \in DOMAIN h, NEW j \in DOMAIN h, i <= j
        PROVE  j - i + 1 <= Burst + Rate * (h[j] - h[i])
    <2>1. CASE j # Len(g) + 1
      <3>1. i \in 1 .. Len(g) /\ j \in 1 .. Len(g)
        BY <1>1, <1>3, <1>8, <2>1
      <3>2. j - i + 1 <= Burst + Rate * (g[j] - g[i])
        BY <1>1, <1>8, <3>1 DEF BucketInv, Metered
      <3>3. QED
        BY <1>2, <3>1, <3>2
    <2>2. CASE j = Len(g) + 1
      <3>1. h[j] = clock /\ Len(h) = j
        BY <1>2, <2>2
      <3> DEFINE x == Rate * (clock - h[i])
      <3>2. Len(h) - i + 1 + (Refilled(k) - 1) <= Burst + x
        BY <1>7
      <3>3. x \in Int /\ i \in Int /\ j \in Int
        BY <1>1, <1>2, <1>3, <1>5, <1>6
      <3> HIDE DEF x, h
      <3>4. j - i + 1 <= Burst + x
        BY <1>4, <3>1, <3>2, <3>3
      <3>5. QED
        BY <3>1, <3>4 DEF x
    <2>3. QED
      BY <2>1, <2>2
  <1>9. QED
    BY <1>7, <1>8 DEF Metered

-----------------------------------------------------------------------------
(* Later, with more failures counted or with the window over, the cooldown   *)
(* that the new counts would set ends no earlier.                            *)
LEMMA EndsLater ==
    ASSUME Numbers, NEW lengths \in {Standard, Billing}, NEW n \in Nat, NEW m \in Nat,
           NEW end \in Nat, NEW failed \in Int, NEW now \in Nat, failed <= now,
           Ends(end, lengths, n, failed), n <= m \/ (failed >= 0 /\ now - failed > Window)
    PROVE  Ends(end, lengths, m, now) /\ (m > 0 => end <= now + CooldownOf(lengths, m))
  <1>1. m > 0 => CooldownOf(lengths, m) \in Nat
    BY NthGrows
  <1>2. n > 0 => CooldownOf(lengths, n) \in Nat /\ CooldownOf(lengths, n) <= Window
    BY NthGrows
  <1>3. n > 0 /\ n <= m => CooldownOf(lengths, n) <= CooldownOf(lengths, m)
    BY NthGrows
  <1>4. Window \in Nat
    BY DEF Numbers
  <1>5. m = 0 => end <= now
    BY <1>2, <1>4 DEF Ends
  <1>6. m > 0 => end <= now + CooldownOf(lengths, m)
    BY <1>1, <1>2, <1>3, <1>4 DEF Ends
  <1>7. QED
    BY <1>5, <1>6 DEF Ends

(* A failure sets or lengthens a cooldown and ends none.                     *)
LEMMA FailureHolds ==
    ASSUME Numbers, ChainTypes, CooldownInv, NEW k \in Candidates,
           NEW reason \in {"billing", "other"},
           MarkFailure(k, reason), clock' = clock
    PROVE  /\ entry' \in [Candidates -> Entry] /\ promised' \in [Candidates -> Nat]
           /\ CooldownInv' /\ promised[k] <= promised'[k]
           /\ \A x \in Candidates \ {k} : promised'[x] = promised[x]
  <1> DEFINE old == entry[k]
             outside == old.failed >= 0 /\ clock - old.failed > Window
             errors == (IF outside THEN 0 ELSE old.errors) + 1
             billing == (IF outside THEN 0 ELSE old.billing)
                        + (IF reason = "billing" THEN 1 ELSE 0)
             end == clock + (IF reason = "billing" THEN CooldownOf(Billing, billing)
                                                   ELSE CooldownOf(Standard, errors))
             new == [errors |-> errors, billing |-> billing, failed |-> clock,
                     end |-> IF reason = "billing" THEN old.end ELSE end,
                     disabled |-> IF reason = "billing" THEN end ELSE old.disabled]
             longest == IF end > promised[k] THEN end ELSE promised[k]
  <1>1. entry' = [entry EXCEPT ![k] = new] /\ promised' = [promised EXCEPT ![k] = longest]
    BY DEF MarkFailure
  <1>2. /\ old.errors \in Nat /\ old.billing \in Nat /\ old.end \in Nat /\ old.disabled \in Nat
        /\ old.failed \in Int /\ clock \in Nat /\ promised[k] \in Nat
        /\ entry \in [Candidates -> Entry] /\ promised \in [Candidates -> Nat]
    BY DEF ChainTypes, Entry
  <1>3. /\ old.failed <= clock
        /\ Ends(old.end, Standard, old.errors, old.failed)
        /\ Ends(old.disabled, Billing, old.billing, old.failed)
        /\ promised[k] \in {old.end, old.disabled}
        /\ old.end <= promised[k] /\ old.disabled <= promised[k]
    BY DEF CooldownInv
  <1>4. /\ errors \in Nat \ {0} /\ billing \in Nat
        /\ reason = "billing" => billing > 0
        /\ old.errors <= errors \/ (old.failed >= 0 /\ clock - old.failed > Window)
        /\ old.billing <= billing \/ (old.failed >= 0 /\ clock - old.failed > Window)
    BY <1>2
  <1> HIDE DEF errors, billing, old
  <1>5. Ends(old.end, Standard, errors, clock) /\ old.end <= clock + CooldownOf(Standard, errors)
    <2>1. errors \in Nat /\ errors > 0 /\ Standard \in {Standard, Billing}
      BY <1>4
    <2>2. Ends(old.end, Standard, errors, clock)
          /\ (errors > 0 => old.end <= clock + CooldownOf(Standard, errors))
      BY <1>2, <1>3, <1>4, <2>1, EndsLater
    <2>3. QED
      BY <2>1, <2>2
  <1>6. /\ Ends(old.disabled, Billing, billing, clock)
        /\ billing > 0 => old.disabled <= clock + CooldownOf(Billing, billing)
    <2>1. Billing \in {Standard, Billing}
      OBVIOUS
    <2>2. QED
      BY <1>2, <1>3, <1>4, <2>1, EndsLater
  <1>7. CooldownOf(Standard, errors) \in Nat
        /\ (billing > 0 => CooldownOf(Billing, billing) \in Nat)
    BY <1>4, NthGrows
  <1>8. end \in Nat
    BY <1>2, <1>4, <1>7
  <1>9. /\ Ends(new.end, Standard, new.errors, clock)
        /\ Ends(new.disabled, Billing, new.billing, clock)
    <2>1. CASE reason = "billing"
      <3>1. new.end = old.end /\ new.errors = errors
            /\ new.disabled = clock + CooldownOf(Billing, billing)
            /\ new.billing = billing /\ billing > 0
        BY <1>4, <2>1
      <3>2. Ends(clock + CooldownOf(Billing, billing), Billing, billing, clock)
        BY <1>2, <1>4, <1>7, <3>1 DEF Ends
      <3>3. QED
        BY <1>5, <3>1, <3>2
    <2>2. CASE reason = "other"
      <3>1. new.end = clock + CooldownOf(Standard, errors) /\ new.errors = errors
            /\ new.disabled = old.disabled /\ new.billing = billing
        BY <2>2
      <3>2. Ends(clock + CooldownOf(Standard, errors), Standard, errors, clock)
        BY <1>2, <1>4, <1>7 DEF Ends
      <3>3. QED
        BY <1>6, <3>1, <3>2
    <2>3. QED
      BY <2>1, <2>2
  <1>10. longest \in {new.end, new.disabled} /\ new.end <= longest /\ new.disabled <= longest
    BY <1>2, <1>3, <1>4, <1>5, <1>6, <1>7, <1>8
  <1>11. new \in Entry /\ new.failed = clock
    BY <1>2, <1>4, <1>8 DEF Entry
  <1>12. longest \in Nat /\ promised[k] <= longest
    BY <1>2, <1>8
  <1> HIDE DEF new, longest
  <1>13. /\ entry' \in [Candidates -> Entry] /\ promised' \in [Candidates -> Nat]
         /\ entry'[k] = new /\ promised'[k] = longest
         /\ \A x \in Candidates \ {k} : entry'[x] = entry[x] /\ promised'[x] = promised[x]
    BY <1>1, <1>2, <1>11, <1>12
  <1>14. CooldownInv'
    BY <1>9, <1>10, <1>11, <1>13, <1>2 DEF CooldownInv
  <1>15. QED
    BY <1>12, <1>13, <1>14

-----------------------------------------------------------------------------
LEMMA ChainInvInit == ASSUME FallbackAssumption, ChainInit PROVE ChainInv
  <1>1. Burst \in Nat
    BY DEF FallbackAssumption
  <1>2. \A k \in Candidates : granted[k] = <<>> /\ DOMAIN granted[k] = {}
    BY DEF ChainInit
  <1>3. ChainTypes
    BY <1>1 DEF ChainInit, ChainTypes, Entry, Bucket, ChainCall, Fresh, Resting
  <1>4. BucketInv
    BY <1>1, <1>2 DEF ChainInit, BucketInv, Metered
  <1>5. CooldownInv
    BY DEF ChainInit, CooldownInv, Ends, Fresh
  <1>6. SparedInv
    BY DEF ChainInit, SparedInv, Resting
  <1>7. QED
    BY <1>3, <1>4, <1>5, <1>6 DEF ChainInv

(* Where a call may go: nowhere, to the next candidate, or to another place  *)
(* at the same one.                                                          *)
LEMMA CallType ==
    ASSUME ChainTypes, NEW c \in Calls, call[c].at # "idle"
    PROVE  /\ Candidate(c) \in Candidates
           /\ Tail(call[c].chain) \in Seq(Candidates)
           /\ ~Last(c) => Tail(call[c].chain) # <<>>
           /\ call[c] \in ChainCall /\ Resting \in ChainCall
  <1>1. call[c] \in ChainCall /\ call[c].chain \in Seq(Candidates) /\ call[c].chain # <<>>
    BY DEF ChainTypes, ChainCall
  <1>2. /\ Head(call[c].chain) \in Candidates /\ Tail(call[c].chain) \in Seq(Candidates)
        /\ Len(Tail(call[c].chain)) = Len(call[c].chain) - 1
    BY <1>1, HeadTailProperties
  <1>3. Len(call[c].chain) \in Nat
    BY <1>1, LenProperties
  <1>4. ~Last(c) => Len(Tail(call[c].chain)) # 0
    BY <1>2, <1>3 DEF Last
  <1>5. Resting \in ChainCall
    BY DEF Resting, ChainCall
  <1>6. QED
    BY <1>1, <1>2, <1>4, <1>5, EmptySeq DEF Candidate

(* A call's step that leaves no promise behind.                              *)
LEMMA CallMoves ==
    ASSUME ChainTypes, SparedInv, NEW c \in Calls, NEW new \in ChainCall,
           call' = [call EXCEPT ![c] = new], new.at # "idle" => new.chain # <<>>,
           new.at \in {"acquire", "wait", "run"} /\ ~new.image /\ new.spared
               => promised[Head(new.chain)] <= clock,
           promised' = promised, clock' = clock
    PROVE  /\ call' \in [Calls -> ChainCall] /\ SparedInv'
           /\ \A d \in Calls : call'[d].at # "idle" => call'[d].chain # <<>>
  <1>1. call' \in [Calls -> ChainCall] /\ call'[c] = new
        /\ \A d \in Calls \ {c} : call'[d] = call[d]
    BY DEF ChainTypes
  <1>2. \A d \in Calls : call'[d].at # "idle" => call'[d].chain # <<>>
    BY <1>1 DEF ChainTypes
  <1>3. SparedInv'
    BY <1>1 DEF SparedInv, Candidate
  <1>4. QED
    BY <1>1, <1>2, <1>3

(* The places a call goes to without a look: what they promise.              *)
LEMMA GotoMoves ==
    ASSUME ChainTypes, SparedInv, NEW c \in Calls, call[c].at # "idle",
           promised' = promised, clock' = clock,
           \/ Return(c) \/ TryNext(c)
           \/ /\ call[c].at \in {"acquire", "wait"}
              /\ \E place \in {"wait", "run"} : Goto(c, place)
    PROVE  /\ call' \in [Calls -> ChainCall] /\ SparedInv'
           /\ \A d \in Calls : call'[d].at # "idle" => call'[d].chain # <<>>
  <1>1. /\ Tail(call[c].chain) \in Seq(Candidates) /\ call[c] \in ChainCall /\ Resting \in ChainCall
        /\ ~Last(c) => Tail(call[c].chain) # <<>>
        /\ call[c].chain # <<>>
    BY CallType DEF ChainTypes
  <1>2. Resting.at = "idle"
    BY DEF Resting
  <1>3. CASE call' = [call EXCEPT ![c] = Resting]
    BY <1>1, <1>2, <1>3, CallMoves
  <1>4. CASE TryNext(c) /\ ~Last(c)
    <2> DEFINE new == [call[c] EXCEPT !.at = "look", !.chain = Tail(@)]
    <2>1. call' = [call EXCEPT ![c] = new]
      BY <1>4 DEF TryNext
    <2>2. new \in ChainCall /\ new.at = "look" /\ new.chain # <<>>
      BY <1>1, <1>4 DEF ChainCall
    <2> HIDE DEF new
    <2>3. QED
      BY <2>1, <2>2, CallMoves
  <1>5. ASSUME call[c].at \in {"acquire", "wait"}, NEW place \in {"wait", "run"}, Goto(c, place)
        PROVE  /\ call' \in [Calls -> ChainCall] /\ SparedInv'
               /\ \A d \in Calls : call'[d].at # "idle" => call'[d].chain # <<>>
    <2> DEFINE new == [call[c] EXCEPT !.at = place]
    <2>1. call' = [call EXCEPT ![c] = new]
      BY <1>5 DEF Goto
    <2>2. /\ new \in ChainCall /\ new.at = place /\ new.chain = call[c].chain
          /\ new.image = call[c].image /\ new.spared = call[c].spared
      BY <1>1 DEF ChainCall
    <2>3. ~call[c].image /\ call[c].spared => promised[Head(call[c].chain)] <= clock
      BY <1>5 DEF SparedInv, Candidate
    <2> HIDE DEF new
    <2>4. QED
      BY <1>1, <2>1, <2>2, <2>3, CallMoves
  <1>6. QED
    BY <1>3, <1>4, <1>5 DEF Return, TryNext

LEMMA BucketMoves ==
    ASSUME Numbers, ChainTypes, BucketInv, NEW k \in Candidates, clock' = clock,
           \/ Refill(k) /\ granted' = granted
           \/ TakeToken(k)
    PROVE  bucket' \in [Candidates -> Bucket] /\ granted' \in [Candidates -> Seq(Nat)] /\ BucketInv'
  <1>1. Refilled(k) \in Nat /\ Refilled(k) <= Burst /\ clock \in Nat /\ Burst \in Nat
    BY RefillBounds DEF Numbers
  <1>2. bucket \in [Candidates -> Bucket] /\ granted \in [Candidates -> Seq(Nat)]
    BY DEF ChainTypes
  <1>3. ASSUME NEW tokens \in Nat, NEW g \in Seq(Nat), tokens <= Burst, Metered(g, tokens, clock),
               bucket' = [bucket EXCEPT ![k] = [tokens |-> tokens, tick |-> clock]],
               granted' = [granted EXCEPT ![k] = g]
        PROVE  bucket' \in [Candidates -> Bucket] /\ granted' \in [Candidates -> Seq(Nat)]
               /\ BucketInv'
    <2>1. [tokens |-> tokens, tick |-> clock] \in Bucket
      BY <1>1 DEF Bucket
    <2>2. /\ bucket'[k] = [tokens |-> tokens, tick |-> clock] /\ granted'[k] = g
          /\ \A x \in Candidates \ {k} : bucket'[x] = bucket[x] /\ granted'[x] = granted[x]
      BY <1>2, <1>3
    <2>3. bucket'[k].tokens = tokens /\ bucket'[k].tick = clock
      BY <2>2
    <2>4. BucketInv'
      BY <1>1, <1>3, <2>2, <2>3 DEF BucketInv, Metered
    <2>5. QED
      BY <1>2, <1>3, <2>1, <2>4
  <1>4. CASE Refill(k) /\ granted' = granted
    <2>1. granted' = [granted EXCEPT ![k] = granted[k]] /\ granted[k] \in Seq(Nat)
      BY <1>2, <1>4
    <2>2. QED
      BY <1>1, <1>3, <1>4, <2>1, RefillMetered DEF Refill
  <1>5. CASE TakeToken(k)
    <2>1. Refilled(k) >= 1 /\ Refilled(k) - 1 \in Nat /\ Refilled(k) - 1 <= Burst
      BY <1>1, <1>5 DEF TakeToken
    <2>2. Append(granted[k], clock) \in Seq(Nat)
      BY <1>1, <1>2, AppendProperties
    <2>3. Metered(Append(granted[k], clock), Refilled(k) - 1, clock)
      BY <2>1, TakeMetered
    <2>4. /\ bucket' = [bucket EXCEPT ![k] = [tokens |-> Refilled(k) - 1, tick |-> clock]]
          /\ granted' = [granted EXCEPT ![k] = Append(granted[k], clock)]
      BY <1>5 DEF TakeToken
    <2>5. QED
      BY <1>3, <2>1, <2>2, <2>3, <2>4
  <1>6. QED
    BY <1>4, <1>5

-----------------------------------------------------------------------------
LEMMA StepTick == ASSUME ChainInv, Tick PROVE ChainInv'
  <1>1. clock \in Nat /\ clock' = clock + 1
    BY DEF ChainInv, ChainTypes, Tick
  <1>2. ChainTypes'
    BY <1>1 DEF ChainInv, ChainTypes, Tick
  <1>3. \A k \in Candidates : /\ bucket[k].tick \in Nat /\ entry[k].failed \in Int
                              /\ promised[k] \in Nat
    BY DEF ChainInv, ChainTypes, Bucket, Entry
  <1>4. BucketInv'
    BY <1>1, <1>3 DEF ChainInv, BucketInv, Tick
  <1>5. CooldownInv'
    BY <1>1, <1>3 DEF ChainInv, CooldownInv, Tick
  <1>6. \A c \in Calls : call[c].at # "idle" => promised[Candidate(c)] \in Nat
    BY <1>3, CallType DEF ChainInv
  <1>7. SparedInv'
    BY <1>1, <1>6 DEF ChainInv, SparedInv, Tick, Candidate
  <1>8. QED
    BY <1>2, <1>4, <1>5, <1>7 DEF ChainInv

LEMMA BucketSameHolds == ASSUME ChainInv, BucketSame, clock' = clock PROVE BucketInv'
  BY DEF ChainInv, BucketInv, BucketSame

LEMMA TrackerSameHolds == ASSUME ChainInv, TrackerSame, clock' = clock PROVE CooldownInv'
  BY DEF ChainInv, CooldownInv, TrackerSame

LEMMA StepExecute ==
    ASSUME Numbers, ChainInv, NEW c \in Calls, NEW chain \in Chains, NEW image \in BOOLEAN,
           Execute(c, chain, image)
    PROVE  ChainInv'
  <1> DEFINE new == [at |-> "look", chain |-> chain, image |-> image, spared |-> TRUE]
  <1>1. new \in ChainCall /\ new.at = "look" /\ new.chain # <<>>
    BY DEF Numbers, ChainCall
  <1>2. /\ call' = [call EXCEPT ![c] = new] /\ TrackerSame /\ BucketSame /\ clock' = clock
        /\ promised' = promised
    BY DEF Execute, TrackerSame
  <1> HIDE DEF new
  <1>3. /\ call' \in [Calls -> ChainCall] /\ SparedInv'
        /\ \A d \in Calls : call'[d].at # "idle" => call'[d].chain # <<>>
    BY <1>1, <1>2, CallMoves DEF ChainInv
  <1>4. QED
    BY <1>2, <1>3, BucketSameHolds, TrackerSameHolds
       DEF ChainInv, ChainTypes, TrackerSame, BucketSame

(* A look that finds the candidate cool finds every promise kept.            *)
LEMMA StepLook == ASSUME Numbers, ChainInv, NEW c \in Calls, Look(c) PROVE ChainInv'
  <1>1. /\ TrackerSame /\ BucketSame /\ clock' = clock /\ promised' = promised
        /\ call[c].at = "look" /\ clock \in Nat
    BY DEF Look, TrackerSame, At, ChainInv, ChainTypes
  <1>2. /\ Candidate(c) \in Candidates /\ call[c] \in ChainCall /\ call[c].chain # <<>>
    BY <1>1, CallType DEF ChainInv, ChainTypes
  <1>3. /\ call' \in [Calls -> ChainCall] /\ SparedInv'
        /\ \A d \in Calls : call'[d].at # "idle" => call'[d].chain # <<>>
    <2>1. CASE ~call[c].image /\ Cooling(Candidate(c))
      <3>1. TryNext(c)
        BY <2>1 DEF Look
      <3>2. QED
        BY <1>1, <3>1, GotoMoves DEF ChainInv
    <2>2. CASE ~(~call[c].image /\ Cooling(Candidate(c)))
      <3> DEFINE new == [call[c] EXCEPT !.at = "acquire", !.spared = TRUE]
                 k == Candidate(c)
      <3>1. call' = [call EXCEPT ![c] = new]
        BY <2>2 DEF Look
      <3>2. /\ new \in ChainCall /\ new.at = "acquire" /\ new.chain = call[c].chain
            /\ new.image = call[c].image
        BY <1>2 DEF ChainCall
      <3>3. ~call[c].image => promised[Candidate(c)] <= clock
        <4>1. entry[k].end \in Nat /\ entry[k].disabled \in Nat
          BY <1>2 DEF ChainInv, ChainTypes, Entry
        <4>2. promised[k] \in {entry[k].end, entry[k].disabled}
          BY <1>2 DEF ChainInv, CooldownInv
        <4>3. QED
          BY <1>1, <2>2, <4>1, <4>2 DEF Cooling
      <3> HIDE DEF new
      <3>4. QED
        BY <1>1, <1>2, <3>1, <3>2, <3>3, CallMoves DEF ChainInv, Candidate
    <2>3. QED
      BY <2>1, <2>2
  <1>4. QED
    BY <1>1, <1>3, BucketSameHolds, TrackerSameHolds
       DEF ChainInv, ChainTypes, TrackerSame, BucketSame

LEMMA StepToken == ASSUME Numbers, ChainInv, NEW c \in Calls, Acquire(c) \/ Wait(c) PROVE ChainInv'
  <1> DEFINE k == Candidate(c)
  <1>1. /\ TrackerSame /\ clock' = clock /\ promised' = promised
        /\ call[c].at \in {"acquire", "wait"}
    BY DEF Acquire, Wait, TrackerSame, At
  <1>2. k \in Candidates
    BY <1>1, CallType DEF ChainInv
  <1>3. /\ (Refill(k) /\ granted' = granted) \/ TakeToken(k)
        /\ TryNext(c) \/ \E place \in {"wait", "run"} : Goto(c, place)
    BY DEF Acquire, Wait
  <1>4. /\ call' \in [Calls -> ChainCall] /\ SparedInv'
        /\ \A d \in Calls : call'[d].at # "idle" => call'[d].chain # <<>>
    BY <1>1, <1>3, GotoMoves DEF ChainInv
  <1>5. bucket' \in [Candidates -> Bucket] /\ granted' \in [Candidates -> Seq(Nat)] /\ BucketInv'
    BY <1>1, <1>2, <1>3, BucketMoves DEF ChainInv
  <1>6. QED
    BY <1>1, <1>4, <1>5, TrackerSameHolds DEF ChainInv, ChainTypes, TrackerSame

LEMMA StepReturn == ASSUME ChainInv, NEW c \in Calls, AnswerImage(c) \/ Abort(c) PROVE ChainInv'
  <1>1. /\ TrackerSame /\ BucketSame /\ clock' = clock /\ promised' = promised
        /\ call[c].at # "idle" /\ (Return(c) \/ TryNext(c))
    BY DEF AnswerImage, Abort, TrackerSame, At
  <1>2. /\ call' \in [Calls -> ChainCall] /\ SparedInv'
        /\ \A d \in Calls : call'[d].at # "idle" => call'[d].chain # <<>>
    BY <1>1, GotoMoves DEF ChainInv
  <1>3. QED
    BY <1>1, <1>2, BucketSameHolds, TrackerSameHolds
       DEF ChainInv, ChainTypes, TrackerSame, BucketSame

(* A success ends the promise, for all who wait.                             *)
LEMMA StepSucceed == ASSUME ChainInv, NEW c \in Calls, Succeed(c) PROVE ChainInv'
  <1> DEFINE k == Candidate(c)
             new == [Fresh EXCEPT !.failed = entry[k].failed]
  <1>1. /\ BucketSame /\ clock' = clock /\ call[c].at = "run" /\ Return(c)
        /\ entry' = [entry EXCEPT ![k] = new] /\ promised' = [promised EXCEPT ![k] = 0]
        /\ clock \in Nat
    BY DEF Succeed, MarkSuccess, At, ChainInv, ChainTypes
  <1>2. k \in Candidates /\ Resting \in ChainCall /\ Resting.at = "idle"
    BY <1>1, CallType DEF ChainInv, Resting
  <1>3. /\ entry[k].failed \in Int /\ entry[k].failed <= clock
    BY <1>2 DEF ChainInv, ChainTypes, Entry, CooldownInv
  <1>4. new \in Entry /\ new.end = 0 /\ new.disabled = 0 /\ new.failed = entry[k].failed
    BY <1>3 DEF Fresh, Entry
  <1> HIDE DEF new, k
  <1>5. /\ entry' \in [Candidates -> Entry] /\ promised' \in [Candidates -> Nat]
        /\ entry'[k] = new /\ promised'[k] = 0
        /\ \A x \in Candidates \ {k} : entry'[x] = entry[x] /\ promised'[x] = promised[x]
    BY <1>1, <1>2, <1>4 DEF ChainInv, ChainTypes
  <1>6. CooldownInv'
    BY <1>1, <1>3, <1>4, <1>5 DEF ChainInv, CooldownInv, Ends
  <1>7. /\ call' \in [Calls -> ChainCall]
        /\ call'[c] = Resting /\ \A d \in Calls \ {c} : call'[d] = call[d]
    BY <1>1, <1>2 DEF Return, ChainInv, ChainTypes
  <1>8. \A d \in Calls : call[d].at # "idle" => Candidate(d) \in Candidates
    BY CallType DEF ChainInv
  <1>9. SparedInv'
    BY <1>1, <1>2, <1>5, <1>7, <1>8 DEF ChainInv, SparedInv, Candidate
  <1>10. QED
    BY SMTT(40), <1>1, <1>2, <1>5, <1>6, <1>7, <1>9, BucketSameHolds
       DEF ChainInv, ChainTypes, BucketSame

(* A failure makes a promise that the calls under way do not know of.        *)
LEMMA StepFail ==
    ASSUME Numbers, ChainInv, NEW c \in Calls, NEW reason \in {"billing", "other"}, Fail(c, reason)
    PROVE  ChainInv'
  <1> DEFINE k == Candidate(c)
             next == IF Last(c) THEN Resting
                     ELSE [call[c] EXCEPT !.at = "look", !.chain = Tail(@)]
             Late(d) == d # c /\ ~At(d, "idle") /\ Candidate(d) = k
             after(d) == CASE d = c -> next
                           [] Late(d) -> [call[d] EXCEPT !.spared = FALSE]
                           [] OTHER -> call[d]
  <1>1. /\ BucketSame /\ clock' = clock /\ call[c].at = "run" /\ MarkFailure(k, reason)
        /\ call' = [d \in Calls |-> after(d)]
    BY DEF Fail, At
  <1>2. /\ k \in Candidates /\ next \in ChainCall /\ next.at \in {"idle", "look"}
        /\ next.at # "idle" => next.chain # <<>>
    BY <1>1, CallType DEF ChainInv, Resting, ChainCall
  <1>3. /\ entry' \in [Candidates -> Entry] /\ promised' \in [Candidates -> Nat] /\ CooldownInv'
        /\ \A x \in Candidates \ {k} : promised'[x] = promised[x]
    BY <1>1, <1>2, FailureHolds DEF ChainInv
  <1> HIDE DEF next
  <1>4. ASSUME NEW d \in Calls \ {c}
        PROVE  /\ call'[d] \in ChainCall /\ call'[d].at = call[d].at
               /\ call'[d].chain = call[d].chain
               /\ call'[d].image = call[d].image
               /\ call'[d].spared => call[d].spared /\ ~Late(d)
    <2>1. call[d] \in ChainCall
      BY DEF ChainInv, ChainTypes
    <2>2. CASE Late(d)
      <3>1. call'[d] = [call[d] EXCEPT !.spared = FALSE]
        BY <1>1, <2>2
      <3>2. QED
        BY <2>1, <3>1 DEF ChainCall
    <2>3. CASE ~Late(d)
      <3>1. call'[d] = call[d]
        BY <1>1, <2>3
      <3>2. QED
        BY <2>1, <2>3, <3>1
    <2>4. QED
      BY <2>2, <2>3
  <1>5. call'[c] = next
    BY <1>1
  <1>6. call' \in [Calls -> ChainCall]
    BY <1>1, <1>2, <1>4, <1>5
  <1>7. \A d \in Calls : call'[d].at # "idle" => call'[d].chain # <<>>
    BY <1>2, <1>4, <1>5 DEF ChainInv, ChainTypes
  <1>8. \A d \in Calls : call[d].at # "idle" => Candidate(d) \in Candidates
    BY CallType DEF ChainInv
  <1>9. SparedInv'
    BY <1>1, <1>2, <1>3, <1>4, <1>5, <1>8 DEF ChainInv, SparedInv, Candidate, At
  <1>10. QED
    BY <1>1, <1>3, <1>6, <1>7, <1>9, BucketSameHolds DEF ChainInv, ChainTypes, BucketSame

LEMMA ChainInvStep == ASSUME FallbackAssumption, ChainInv, [ChainNext]_chainVars PROVE ChainInv'
  <1>1. Numbers
    BY NumbersHold
  <1>2. CASE UNCHANGED chainVars
    BY <1>2
       DEF chainVars, ChainInv, ChainTypes, BucketInv, Metered, CooldownInv, SparedInv, Candidate
  <1>3. QED
    BY <1>1, <1>2, StepTick, StepExecute, StepLook, StepToken, StepReturn, StepSucceed, StepFail
    DEF ChainNext

(* A candidate gets no more calls than its bucket allows over any time, no   *)
(* cooldown ends early, and none that a call could see is run against,       *)
(* however many calls share the candidates and whatever the cooldowns are.   *)
THEOREM CandidatesAreSparedCorrect ==
    ASSUME FallbackAssumption PROVE ChainSpec => []CandidatesAreSpared
  <1>1. ChainInv => RateIsKept
    BY DEF ChainInv, BucketInv, Metered, RateIsKept
  <1>2. ChainInv => CooldownHolds
    BY DEF ChainInv, CooldownInv, CooldownHolds
  <1>3. ChainInv => CoolingIsSpared
    <2> SUFFICES ASSUME ChainInv, NEW c \in Calls, At(c, "run"), ~call[c].image, call[c].spared,
                        clock < promised[Candidate(c)]
                 PROVE  FALSE
      BY DEF CoolingIsSpared
    <2>1. promised[Candidate(c)] <= clock
      BY DEF ChainInv, SparedInv, At
    <2>2. Candidate(c) \in Candidates
      BY CallType DEF ChainInv, At
    <2>3. promised[Candidate(c)] \in Nat /\ clock \in Nat
      BY <2>2 DEF ChainInv, ChainTypes
    <2>4. QED
      BY <2>1, <2>3
  <1>4. ChainInv => CandidatesAreSpared
    BY <1>1, <1>2, <1>3 DEF CandidatesAreSpared
  <1>5. QED
    BY <1>4, ChainInvInit, ChainInvStep, PTL DEF ChainSpec

-----------------------------------------------------------------------------
-----------------------------------------------------------------------------
(* MCPManager, and MediaStore below.                                         *)

MCPTypes ==
    /\ sessions \in Seq(Session) /\ Len(sessions) <= MaxSessions
    /\ server \in 0 .. Len(sessions) /\ closed \in BOOLEAN
    /\ caller \in [Callers -> Call]
    /\ \A c \in Callers : /\ caller[c].conn \in 0 .. Len(sessions)
                          /\ caller[c].fresh \in 0 .. Len(sessions)
    /\ loader \in [at: {"connecting", "putting", "done"}, fresh: 0 .. Len(sessions)]
    /\ closer \in {"no", "waiting", "locking", "done"} /\ calls \in 0 .. MaxCalls

(* The calls in flight are those that were counted.                           *)
IsCounted(c) == caller[c].at \notin {"idle", "begun", "locked"}
Counted == {c \in Callers : IsCounted(c)}
CountInv == inFlight = Cardinality(Counted)

(* What a call knows where it is: a session once it is counted, one that was  *)
(* lost from the moment it finds out, and a fresh one while it replaces it.   *)
CallInv ==
    \A c \in Callers :
        /\ IsCounted(c) <=> caller[c].conn # 0
        /\ caller[c].fresh # 0 <=> caller[c].at \in {"replacing", "closing"}
        /\ caller[c].at \in {"missing", "connecting", "replacing", "closing"} =>
              sessions[caller[c].conn].lost

(* Close has set the flag first; once it has stopped waiting, whatever is in  *)
(* flight is late; and it leaves an empty table.                              *)
CloseInv ==
    /\ closed <=> closer # "no"
    /\ closer \in {"locking", "done"} =>
          \A c \in Callers : IsCounted(c) => caller[c].late
    /\ closer = "done" => server = 0

(* Until the one connection is put in the table there are no others, and it   *)
(* stays in the table until Close.                                            *)
LoadInv ==
    /\ loader.fresh # 0 <=> loader.at = "putting"
    /\ loader.at = "putting" => ~sessions[loader.fresh].closed
    /\ loader.at # "done" => /\ server = 0 /\ \A c \in Callers : ~IsCounted(c)
                             /\ \A s \in DOMAIN sessions : s = loader.fresh
    /\ \A c \in Callers : IsCounted(c) /\ server = 0 => closed

(* One call at most looks for a new session, for the one in the table; what    *)
(* it replaces is not in the table any more.                                  *)
Connecting(c) == caller[c].at \in {"connecting", "replacing"}
BusyInv ==
    /\ \A c, d \in Callers : Connecting(c) /\ Connecting(d) => c = d
    /\ \A c \in Callers : Connecting(c) /\ server # 0 => server = caller[c].conn
    /\ \A c \in Callers : caller[c].at = "closing" => server # caller[c].conn

(* Nobody else knows what it finds, or closes it.                             *)
FreshInv ==
    \A c \in Callers : caller[c].at = "replacing" =>
        /\ caller[c].fresh # server /\ ~sessions[caller[c].fresh].closed
        /\ \A d \in Callers : /\ caller[d].conn # caller[c].fresh
                              /\ d # c => caller[d].fresh # caller[c].fresh

(* What is closed: not the session in the table, and none of a call but for   *)
(* what the property allows.                                                  *)
Excused(c, s) == sessions[s].closed => sessions[s].lost \/ caller[c].late
ClosedInv ==
    /\ server # 0 => ~sessions[server].closed
    /\ \A c \in Callers : IsCounted(c) => Excused(c, caller[c].conn)
    /\ \A c \in Callers : caller[c].at = "closing" => Excused(c, caller[c].fresh)

(* A session neither lost nor closed is in the table or on its way there.     *)
GoodInv ==
    \A s \in DOMAIN sessions : Good(s) =>
        \/ s = server \/ s = loader.fresh
        \/ \E c \in Callers : caller[c].at = "replacing" /\ s = caller[c].fresh

(* Where an open session is: the fresh one of a call that replaces another is  *)
(* not known to be open once it is in the table.                              *)
HeldInv ==
    \A s \in DOMAIN sessions :
        \/ sessions[s].closed \/ s = server \/ s = loader.fresh
        \/ \E c \in Callers : \/ caller[c].at = "replacing" /\ s = caller[c].fresh
                              \/ caller[c].at = "closing" /\ s = caller[c].conn

MCPInv == /\ MCPTypes /\ CountInv /\ CallInv /\ CloseInv /\ LoadInv /\ BusyInv /\ FreshInv
       /\ ClosedInv /\ GoodInv /\ HeldInv

-----------------------------------------------------------------------------
(* What closing, opening and losing a session does to the sessions.            *)

LEMMA CloseFacts ==
    ASSUME MCPTypes, NEW s \in DOMAIN sessions, CloseSession(s)
    PROVE  /\ sessions' \in Seq(Session) /\ Len(sessions') = Len(sessions)
           /\ DOMAIN sessions' = DOMAIN sessions
           /\ \A t \in DOMAIN sessions :
                 /\ sessions'[t].lost = sessions[t].lost
                 /\ sessions'[t].closed <=> t = s \/ sessions[t].closed
<1>1. sessions \in [1 .. Len(sessions) -> Session] /\ Len(sessions) \in Nat
  BY DEF MCPTypes
<1>2. sessions' = [t \in 1 .. Len(sessions) |->
                     IF t = s THEN [sessions[t] EXCEPT !.closed = TRUE] ELSE sessions[t]]
  BY <1>1 DEF CloseSession
<1>3. sessions' \in [1 .. Len(sessions) -> Session]
  BY <1>1, <1>2 DEF Session
<1>4. sessions' \in Seq(Session) /\ Len(sessions') = Len(sessions)
  BY <1>1, <1>3
<1>5. \A t \in DOMAIN sessions :
        /\ sessions'[t].lost = sessions[t].lost
        /\ sessions'[t].closed <=> t = s \/ sessions[t].closed
  BY <1>1, <1>2 DEF Session
<1>6. DOMAIN sessions' = DOMAIN sessions
  BY <1>1, <1>3
<1>7. QED
  BY <1>4, <1>5, <1>6

LEMMA OpenFacts ==
    ASSUME MCPTypes, sessions' = Opened
    PROVE  /\ sessions' \in Seq(Session) /\ Len(sessions') = Len(sessions) + 1
           /\ DOMAIN sessions' = DOMAIN sessions \cup {Len(sessions) + 1}
           /\ \A t \in DOMAIN sessions : sessions'[t] = sessions[t]
           /\ sessions'[Len(sessions) + 1] = NewSession
BY DEF MCPTypes, Opened, NewSession, Session

LEMMA LoseFacts ==
    ASSUME MCPTypes, Lose
    PROVE  /\ sessions' \in Seq(Session) /\ Len(sessions') = Len(sessions)
           /\ DOMAIN sessions' = DOMAIN sessions
           /\ \A t \in DOMAIN sessions :
                 /\ sessions[t].lost => sessions'[t].lost
                 /\ sessions'[t].closed = sessions[t].closed
<1>1. sessions \in [1 .. Len(sessions) -> Session] /\ Len(sessions) \in Nat
  BY DEF MCPTypes
<1>2. PICK s \in DOMAIN sessions : sessions' = [sessions EXCEPT ![s].lost = TRUE]
  BY DEF Lose
<1>3. sessions' = [t \in 1 .. Len(sessions) |->
                     IF t = s THEN [sessions[t] EXCEPT !.lost = TRUE] ELSE sessions[t]]
  BY <1>1, <1>2
<1>4. sessions' \in [1 .. Len(sessions) -> Session]
  BY <1>1, <1>3 DEF Session
<1>5. sessions' \in Seq(Session) /\ Len(sessions') = Len(sessions)
  BY <1>1, <1>4
<1>6. \A t \in DOMAIN sessions :
        /\ sessions[t].lost => sessions'[t].lost
        /\ sessions'[t].closed = sessions[t].closed
  BY <1>1, <1>3 DEF Session
<1>7. DOMAIN sessions' = DOMAIN sessions
  BY <1>1, <1>4
<1>8. QED
  BY <1>5, <1>6, <1>7

LEMMA Bounds ==
    ASSUME MCPAssumption, MCPTypes
    PROVE  /\ MaxSessions \in Nat /\ MaxCalls \in Nat /\ calls \in Nat
           /\ Len(sessions) \in Nat /\ DOMAIN sessions = 1 .. Len(sessions)
           /\ server \in 0 .. MaxSessions /\ 0 \in 0 .. MaxSessions
           /\ \A c \in Callers : /\ caller[c] \in Call /\ caller[c].conn \in Nat
                                 /\ caller[c].fresh \in Nat
           /\ loader.fresh \in Nat
BY DEF MCPAssumption, MCPTypes, Call

(* The count follows one caller.                                              *)
LEMMA CountedFinite == ASSUME MCPAssumption PROVE IsFiniteSet(Counted)
BY FS_Subset DEF MCPAssumption, Counted

LEMMA Counts ==
    ASSUME MCPAssumption, CountInv, NEW c \in Callers,
           \A d \in Callers \ {c} : IsCounted(d)' <=> IsCounted(d)
    PROVE  /\ (IsCounted(c)' <=> IsCounted(c)) /\ inFlight' = inFlight => CountInv'
           /\ IsCounted(c)' /\ ~IsCounted(c) /\ inFlight' = inFlight + 1 => CountInv'
           /\ ~IsCounted(c)' /\ IsCounted(c) /\ inFlight' = inFlight - 1 => CountInv'
<1>1. IsFiniteSet(Counted)
  BY CountedFinite
<1>2. CASE IsCounted(c)' <=> IsCounted(c)
  <2>1. Counted' = Counted
    BY <1>2 DEF Counted
  <2>2. QED
    BY <1>2, <2>1 DEF CountInv
<1>3. CASE IsCounted(c)' /\ ~IsCounted(c)
  <2>1. Counted' = Counted \cup {c} /\ c \notin Counted
    BY <1>3 DEF Counted
  <2>2. Cardinality(Counted') = Cardinality(Counted) + 1
    BY <1>1, <2>1, FS_AddElement
  <2>3. QED
    BY <1>3, <2>2 DEF CountInv
<1>4. CASE ~IsCounted(c)' /\ IsCounted(c)
  <2>1. Counted' = Counted \ {c} /\ c \in Counted
    BY <1>4 DEF Counted
  <2>2. Cardinality(Counted') = Cardinality(Counted) - 1
    BY <1>1, <2>1, FS_RemoveElement
  <2>3. QED
    BY <1>4, <2>2 DEF CountInv
<1>5. QED
  BY <1>2, <1>3, <1>4

-----------------------------------------------------------------------------
(* Each action keeps MCPInv.                                                     *)

LEMMA LoseKeeps ==
    ASSUME MCPAssumption, MCPInv, Lose
    PROVE  MCPInv'
<1> USE DEF MCPInv
<1>1. MCPTypes'
  BY LoseFacts, Bounds DEF Lose, MCPTypes, CallInv, IsCounted, LoadInv
<1>2. CountInv'
  BY DEF Lose, CountInv, Counted, IsCounted
<1>3. CallInv'
  BY LoseFacts, Bounds DEF Lose, CallInv, IsCounted, MCPTypes, LoadInv
<1>4. CloseInv'
  BY LoseFacts, Bounds DEF Lose, CloseInv, IsCounted
<1>5. LoadInv'
  BY LoseFacts, Bounds DEF Lose, LoadInv, IsCounted, CallInv, MCPTypes
<1>6. BusyInv'
  BY LoseFacts, Bounds DEF Lose, BusyInv, Connecting
<1>7. FreshInv'
  BY LoseFacts, Bounds DEF Lose, FreshInv, CallInv, IsCounted, LoadInv, MCPTypes
<1>8. ClosedInv'
  BY LoseFacts, Bounds DEF Lose, ClosedInv, Excused, IsCounted, CallInv, LoadInv, MCPTypes
<1>9. GoodInv'
  BY LoseFacts, Bounds DEF Lose, GoodInv, Good, CallInv, IsCounted, LoadInv, MCPTypes
<1>10. HeldInv'
  BY LoseFacts, Bounds DEF Lose, HeldInv, CallInv, IsCounted, LoadInv, MCPTypes
<1> QED
  BY <1>1, <1>2, <1>3, <1>4, <1>5, <1>6, <1>7, <1>8, <1>9, <1>10

LEMMA ConnectKeeps ==
    ASSUME MCPAssumption, MCPInv, Connect
    PROVE  MCPInv'
<1> USE DEF MCPInv
<1>1. MCPTypes'
  BY OpenFacts, Bounds DEF Connect, NewSession, MCPTypes, CallInv, IsCounted, LoadInv
<1>2. CountInv'
  BY DEF Connect, NewSession, Session, MCPAssumption, CountInv, Counted, IsCounted
<1>3. CallInv'
  BY OpenFacts, Bounds DEF Connect, NewSession, CallInv, IsCounted, MCPTypes, LoadInv
<1>4. CloseInv'
  BY OpenFacts, Bounds DEF Connect, NewSession, CloseInv, IsCounted
<1>5. LoadInv'
  BY OpenFacts, Bounds DEF Connect, NewSession, LoadInv, IsCounted, CallInv, MCPTypes
<1>6. BusyInv'
  BY OpenFacts, Bounds DEF Connect, NewSession, BusyInv, Connecting
<1>7. FreshInv'
  BY OpenFacts, Bounds DEF Connect, NewSession, FreshInv, CallInv, IsCounted, LoadInv, MCPTypes
<1>8. ClosedInv'
  BY OpenFacts, Bounds
     DEF Connect, NewSession, ClosedInv, Excused, IsCounted, CallInv, LoadInv, MCPTypes
<1>9. GoodInv'
  BY OpenFacts, Bounds
     DEF Connect, NewSession, GoodInv, Good, CallInv, IsCounted, LoadInv, MCPTypes
<1>10. HeldInv'
  BY OpenFacts, Bounds DEF Connect, NewSession, HeldInv, CallInv, IsCounted, LoadInv, MCPTypes
<1> QED
  BY <1>1, <1>2, <1>3, <1>4, <1>5, <1>6, <1>7, <1>8, <1>9, <1>10

LEMMA PutServerKeeps ==
    ASSUME MCPAssumption, MCPInv, PutServer
    PROVE  MCPInv'
<1> USE DEF MCPInv
<1>1. MCPTypes'
  BY CloseFacts, Bounds DEF PutServer, MCPTypes, CallInv, IsCounted, LoadInv
<1>2. CountInv'
  BY DEF PutServer, CountInv, Counted, IsCounted
<1>3. CallInv'
  BY CloseFacts, Bounds DEF PutServer, CallInv, IsCounted, MCPTypes, LoadInv
<1>4. CloseInv'
  BY CloseFacts, Bounds DEF PutServer, CloseInv, IsCounted
<1>5. LoadInv'
  BY CloseFacts, Bounds DEF PutServer, LoadInv, IsCounted, CallInv, MCPTypes
<1>6. BusyInv'
  BY CloseFacts, Bounds DEF PutServer, BusyInv, Connecting, LoadInv, IsCounted
<1>7. FreshInv'
  BY CloseFacts, Bounds DEF PutServer, FreshInv, CallInv, IsCounted, LoadInv, MCPTypes
<1>8. ClosedInv'
  BY CloseFacts, Bounds DEF PutServer, ClosedInv, Excused, IsCounted, CallInv, LoadInv, MCPTypes
<1>9. GoodInv'
  BY CloseFacts, Bounds DEF PutServer, GoodInv, Good, CallInv, IsCounted, LoadInv, MCPTypes
<1>10. HeldInv'
  BY CloseFacts, Bounds DEF PutServer, HeldInv, CallInv, IsCounted, LoadInv, MCPTypes
<1> QED
  BY <1>1, <1>2, <1>3, <1>4, <1>5, <1>6, <1>7, <1>8, <1>9, <1>10

LEMMA BeginCallKeeps ==
    ASSUME MCPAssumption, MCPInv, NEW c \in Callers, BeginCall(c)
    PROVE  MCPInv'
<1> USE DEF MCPInv
<1>0. caller[c].at = "idle"
  BY DEF BeginCall
<1>1. caller' = [caller EXCEPT ![c].at = "begun"]
  BY DEF BeginCall
<1>2. caller' \in [Callers -> Call]
  BY <1>1, Bounds DEF NotCalling, MCPTypes, Call
<1>3. /\ caller'[c].at = "begun" /\ caller'[c].conn = caller[c].conn
      /\ caller'[c].fresh = caller[c].fresh /\ caller'[c].again = caller[c].again
      /\ caller'[c].late = caller[c].late
      /\ \A d \in Callers \ {c} : caller'[d] = caller[d]
  BY <1>1 DEF NotCalling, MCPTypes, Call
<1>4. UNCHANGED <<sessions, server, closed, inFlight, loader, closer>> /\ calls < MaxCalls
      /\ calls' = calls + 1
  BY DEF BeginCall
<1>5. MCPTypes'
  BY <1>0, <1>3, <1>4, <1>2, Bounds DEF MCPTypes
<1>6. CountInv'
  BY <1>0, <1>3, <1>4, Counts DEF IsCounted, MCPTypes
<1>7. CallInv'
  BY <1>0, <1>3, <1>4 DEF CallInv, IsCounted, MCPTypes
<1>8. CloseInv'
  BY <1>0, <1>3, <1>4 DEF CloseInv, IsCounted
<1>9. LoadInv'
  BY <1>0, <1>3, <1>4 DEF LoadInv, IsCounted
<1>10. BusyInv'
  BY <1>0, <1>3, <1>4 DEF BusyInv, Connecting
<1>11. FreshInv'
  BY <1>0, <1>3, <1>4 DEF FreshInv
<1>12. ClosedInv'
  BY <1>0, <1>3, <1>4 DEF ClosedInv, Excused, IsCounted, CallInv, MCPTypes
<1>13. GoodInv'
  BY <1>0, <1>3, <1>4, Bounds DEF GoodInv, Good, CallInv
<1>14. HeldInv'
  BY <1>0, <1>3, <1>4, Bounds DEF HeldInv, CallInv
<1> QED
  BY <1>5, <1>6, <1>7, <1>8, <1>9, <1>10, <1>11, <1>12, <1>13, <1>14

LEMMA CheckAgainKeeps ==
    ASSUME MCPAssumption, MCPInv, NEW c \in Callers, CheckAgain(c)
    PROVE  MCPInv'
<1> USE DEF MCPInv
<1>0. caller[c].at = "begun"
  BY DEF CheckAgain
<1>1. CASE closed
  <2>1. caller' = [caller EXCEPT ![c] = NotCalling]
    BY <1>1 DEF CheckAgain
  <2>2. caller' \in [Callers -> Call]
    BY <2>1, Bounds DEF NotCalling, MCPTypes, Call
  <2>3. /\ caller'[c].at = "idle" /\ caller'[c].conn = 0
        /\ caller'[c].fresh = 0 /\ caller'[c].again = FALSE
        /\ caller'[c].late = FALSE
        /\ \A d \in Callers \ {c} : caller'[d] = caller[d]
    BY <2>1 DEF NotCalling, MCPTypes, Call
  <2>4. UNCHANGED <<sessions, server, closed, inFlight, loader, closer, calls>>
    BY <1>1 DEF CheckAgain
  <2>5. MCPTypes'
    BY <1>0, <1>1, <2>3, <2>4, <2>2, Bounds DEF MCPTypes
  <2>6. CountInv'
    BY <1>0, <1>1, <2>3, <2>4, Counts DEF IsCounted, MCPTypes
  <2>7. CallInv'
    BY <1>0, <1>1, <2>3, <2>4 DEF CallInv, IsCounted, MCPTypes
  <2>8. CloseInv'
    BY <1>0, <1>1, <2>3, <2>4 DEF CloseInv, IsCounted
  <2>9. LoadInv'
    BY <1>0, <1>1, <2>3, <2>4 DEF LoadInv, IsCounted
  <2>10. BusyInv'
    BY <1>0, <1>1, <2>3, <2>4 DEF BusyInv, Connecting
  <2>11. FreshInv'
    BY <1>0, <1>1, <2>3, <2>4, Bounds DEF FreshInv, CallInv
  <2>12. ClosedInv'
    BY <1>0, <1>1, <2>3, <2>4 DEF ClosedInv, Excused, IsCounted, CallInv, MCPTypes
  <2>13. GoodInv'
    BY <1>0, <1>1, <2>3, <2>4, Bounds DEF GoodInv, Good, CallInv
  <2>14. HeldInv'
    BY <1>0, <1>1, <2>3, <2>4, Bounds DEF HeldInv, CallInv
  <2> QED
    BY <2>5, <2>6, <2>7, <2>8, <2>9, <2>10, <2>11, <2>12, <2>13, <2>14
<1>2. CASE ~closed
  <2>1. caller' = [caller EXCEPT ![c].at = "locked"]
    BY <1>2 DEF CheckAgain
  <2>2. caller' \in [Callers -> Call]
    BY <2>1, Bounds DEF NotCalling, MCPTypes, Call
  <2>3. /\ caller'[c].at = "locked" /\ caller'[c].conn = caller[c].conn
        /\ caller'[c].fresh = caller[c].fresh /\ caller'[c].again = caller[c].again
        /\ caller'[c].late = caller[c].late
        /\ \A d \in Callers \ {c} : caller'[d] = caller[d]
    BY <2>1 DEF NotCalling, MCPTypes, Call
  <2>4. UNCHANGED <<sessions, server, closed, inFlight, loader, closer, calls>>
    BY <1>2 DEF CheckAgain
  <2>5. MCPTypes'
    BY <1>0, <1>2, <2>3, <2>4, <2>2, Bounds DEF MCPTypes
  <2>6. CountInv'
    BY <1>0, <1>2, <2>3, <2>4, Counts DEF IsCounted, MCPTypes
  <2>7. CallInv'
    BY <1>0, <1>2, <2>3, <2>4 DEF CallInv, IsCounted, MCPTypes
  <2>8. CloseInv'
    BY <1>0, <1>2, <2>3, <2>4 DEF CloseInv, IsCounted
  <2>9. LoadInv'
    BY <1>0, <1>2, <2>3, <2>4 DEF LoadInv, IsCounted
  <2>10. BusyInv'
    BY <1>0, <1>2, <2>3, <2>4 DEF BusyInv, Connecting
  <2>11. FreshInv'
    BY <1>0, <1>2, <2>3, <2>4 DEF FreshInv
  <2>12. ClosedInv'
    BY <1>0, <1>2, <2>3, <2>4 DEF ClosedInv, Excused, IsCounted, CallInv, MCPTypes
  <2>13. GoodInv'
    BY <1>0, <1>2, <2>3, <2>4, Bounds DEF GoodInv, Good, CallInv
  <2>14. HeldInv'
    BY <1>0, <1>2, <2>3, <2>4, Bounds DEF HeldInv, CallInv
  <2> QED
    BY <2>5, <2>6, <2>7, <2>8, <2>9, <2>10, <2>11, <2>12, <2>13, <2>14
<1> QED
  BY <1>1, <1>2 DEF CheckAgain

LEMMA CountCallKeeps ==
    ASSUME MCPAssumption, MCPInv, NEW c \in Callers, CountCall(c)
    PROVE  MCPInv'
<1> USE DEF MCPInv
<1>0. caller[c].at = "locked"
  BY DEF CountCall
<1>1. CASE server = 0
  <2>1. caller' = [caller EXCEPT ![c] = NotCalling]
    BY <1>1 DEF CountCall
  <2>2. caller' \in [Callers -> Call]
    BY <2>1, Bounds DEF NotCalling, MCPTypes, Call
  <2>3. /\ caller'[c].at = "idle" /\ caller'[c].conn = 0
        /\ caller'[c].fresh = 0 /\ caller'[c].again = FALSE
        /\ caller'[c].late = FALSE
        /\ \A d \in Callers \ {c} : caller'[d] = caller[d]
    BY <2>1 DEF NotCalling, MCPTypes, Call
  <2>4. UNCHANGED <<sessions, server, closed, inFlight, loader, closer, calls>>
    BY <1>1 DEF CountCall
  <2>5. MCPTypes'
    BY <1>0, <1>1, <2>3, <2>4, <2>2, Bounds DEF MCPTypes
  <2>6. CountInv'
    BY <1>0, <1>1, <2>3, <2>4, Counts DEF IsCounted, MCPTypes
  <2>7. CallInv'
    BY <1>0, <1>1, <2>3, <2>4 DEF CallInv, IsCounted, MCPTypes
  <2>8. CloseInv'
    BY <1>0, <1>1, <2>3, <2>4 DEF CloseInv, IsCounted
  <2>9. LoadInv'
    BY <1>0, <1>1, <2>3, <2>4 DEF LoadInv, IsCounted
  <2>10. BusyInv'
    BY <1>0, <1>1, <2>3, <2>4 DEF BusyInv, Connecting
  <2>11. FreshInv'
    BY <1>0, <1>1, <2>3, <2>4 DEF FreshInv
  <2>12. ClosedInv'
    BY <1>0, <1>1, <2>3, <2>4 DEF ClosedInv, Excused, IsCounted, CallInv, MCPTypes
  <2>13. GoodInv'
    BY <1>0, <1>1, <2>3, <2>4, Bounds DEF GoodInv, Good, CallInv
  <2>14. HeldInv'
    BY <1>0, <1>1, <2>3, <2>4, Bounds DEF HeldInv, CallInv
  <2> QED
    BY <2>5, <2>6, <2>7, <2>8, <2>9, <2>10, <2>11, <2>12, <2>13, <2>14
<1>2. CASE server # 0
  <2>1. caller' = [caller EXCEPT ![c] = [@ EXCEPT !.at = "calling", !.conn = server,
                             !.late = (closer = "locking")]]
    BY <1>2 DEF CountCall
  <2>2. caller' \in [Callers -> Call]
    <3>1. [caller[c] EXCEPT !.at = "calling", !.conn = server,
                             !.late = (closer = "locking")]
            \in Call
      BY <1>2, Bounds DEF MCPTypes, Call
    <3> QED
      BY <2>1, <3>1 DEF MCPTypes
  <2>3. /\ caller'[c].at = "calling" /\ caller'[c].conn = server
        /\ caller'[c].fresh = caller[c].fresh /\ caller'[c].again = caller[c].again
        /\ caller'[c].late = (closer = "locking")
        /\ \A d \in Callers \ {c} : caller'[d] = caller[d]
    BY <2>1 DEF NotCalling, MCPTypes, Call
  <2>4. UNCHANGED <<sessions, server, closed, loader, closer, calls>> /\ inFlight' = inFlight + 1
    BY <1>2 DEF CountCall
  <2>5. MCPTypes'
    BY <1>0, <1>2, <2>3, <2>4, <2>2, Bounds DEF MCPTypes
  <2>6. CountInv'
    BY <1>0, <1>2, <2>3, <2>4, Counts DEF IsCounted, MCPTypes
  <2>7. CallInv'
    BY <1>0, <1>2, <2>3, <2>4 DEF CallInv, IsCounted, MCPTypes
  <2>8. CloseInv'
    BY <1>0, <1>2, <2>3, <2>4 DEF CloseInv, IsCounted, MCPTypes
  <2>9. LoadInv'
    BY <1>0, <1>2, <2>3, <2>4 DEF LoadInv, IsCounted, CallInv
  <2>10. BusyInv'
    BY <1>0, <1>2, <2>3, <2>4 DEF BusyInv, Connecting
  <2>11. FreshInv'
    <3>1. ASSUME NEW e \in Callers, caller'[e].at = "replacing"
          PROVE  caller'[e].fresh # server' /\ ~sessions'[caller'[e].fresh].closed
      BY <1>0, <2>3, <2>4, <3>1 DEF FreshInv
    <3>2. ASSUME NEW e \in Callers, caller'[e].at = "replacing", NEW d \in Callers
          PROVE  caller'[d].conn # caller'[e].fresh
                 /\ (d # e => caller'[d].fresh # caller'[e].fresh)
      BY <1>0, <2>3, <2>4, <3>2 DEF FreshInv
    <3> QED
      BY <3>1, <3>2 DEF FreshInv
  <2>12. ClosedInv'
    BY <1>0, <1>2, <2>3, <2>4 DEF ClosedInv, Excused, IsCounted, CallInv, MCPTypes
  <2>13. GoodInv'
    BY <1>0, <1>2, <2>3, <2>4, Bounds DEF GoodInv, Good, CallInv
  <2>14. HeldInv'
    BY <1>0, <1>2, <2>3, <2>4, Bounds DEF HeldInv, CallInv
  <2> QED
    BY <2>5, <2>6, <2>7, <2>8, <2>9, <2>10, <2>11, <2>12, <2>13, <2>14
<1> QED
  BY <1>1, <1>2 DEF CountCall

LEMMA AnsweredKeeps ==
    ASSUME MCPAssumption, MCPInv, NEW c \in Callers, Answered(c)
    PROVE  MCPInv'
<1> USE DEF MCPInv
<1>0. caller[c].at = "calling"
  BY DEF Answered
<1>1. caller' = [caller EXCEPT ![c] = NotCalling]
  BY DEF Answered, CallEnds
<1>2. caller' \in [Callers -> Call]
  BY <1>1, Bounds DEF NotCalling, MCPTypes, Call
<1>3. /\ caller'[c].at = "idle" /\ caller'[c].conn = 0
      /\ caller'[c].fresh = 0 /\ caller'[c].again = FALSE
      /\ caller'[c].late = FALSE
      /\ \A d \in Callers \ {c} : caller'[d] = caller[d]
  BY <1>1 DEF NotCalling, MCPTypes, Call
<1>4. UNCHANGED <<sessions, server, closed, loader, closer, calls>> /\ inFlight' = inFlight - 1
  BY DEF Answered, CallEnds
<1>5. MCPTypes'
  BY <1>0, <1>3, <1>4, <1>2, Bounds DEF MCPTypes
<1>6. CountInv'
  BY <1>0, <1>3, <1>4, Counts DEF IsCounted, MCPTypes
<1>7. CallInv'
  BY <1>0, <1>3, <1>4 DEF CallInv, IsCounted, MCPTypes
<1>8. CloseInv'
  BY <1>0, <1>3, <1>4 DEF CloseInv, IsCounted
<1>9. LoadInv'
  BY <1>0, <1>3, <1>4 DEF LoadInv, IsCounted
<1>10. BusyInv'
  BY <1>0, <1>3, <1>4 DEF BusyInv, Connecting
<1>11. FreshInv'
  BY <1>0, <1>3, <1>4, Bounds DEF FreshInv, CallInv
<1>12. ClosedInv'
  BY <1>0, <1>3, <1>4 DEF ClosedInv, Excused, IsCounted, CallInv, MCPTypes
<1>13. GoodInv'
  BY <1>0, <1>3, <1>4, Bounds DEF GoodInv, Good, CallInv
<1>14. HeldInv'
  BY <1>0, <1>3, <1>4, Bounds DEF HeldInv, CallInv
<1> QED
  BY <1>5, <1>6, <1>7, <1>8, <1>9, <1>10, <1>11, <1>12, <1>13, <1>14

LEMMA SessionMissingKeeps ==
    ASSUME MCPAssumption, MCPInv, NEW c \in Callers, SessionMissing(c)
    PROVE  MCPInv'
<1> USE DEF MCPInv
<1>0. caller[c].at = "calling" /\ sessions[caller[c].conn].lost
  BY DEF SessionMissing
<1>1. caller' = [caller EXCEPT ![c].at = "missing"]
  BY DEF SessionMissing
<1>2. caller' \in [Callers -> Call]
  BY <1>1, Bounds DEF NotCalling, MCPTypes, Call
<1>3. /\ caller'[c].at = "missing" /\ caller'[c].conn = caller[c].conn
      /\ caller'[c].fresh = caller[c].fresh /\ caller'[c].again = caller[c].again
      /\ caller'[c].late = caller[c].late
      /\ \A d \in Callers \ {c} : caller'[d] = caller[d]
  BY <1>1 DEF NotCalling, MCPTypes, Call
<1>4. UNCHANGED <<sessions, server, closed, inFlight, loader, closer, calls>>
  BY DEF SessionMissing
<1>5. MCPTypes'
  BY <1>0, <1>3, <1>4, <1>2, Bounds DEF MCPTypes
<1>6. CountInv'
  BY <1>0, <1>3, <1>4, Counts DEF IsCounted, MCPTypes
<1>7. CallInv'
  BY <1>0, <1>3, <1>4 DEF CallInv, IsCounted, MCPTypes
<1>8. CloseInv'
  BY <1>0, <1>3, <1>4 DEF CloseInv, IsCounted
<1>9. LoadInv'
  BY <1>0, <1>3, <1>4 DEF LoadInv, IsCounted
<1>10. BusyInv'
  BY <1>0, <1>3, <1>4 DEF BusyInv, Connecting
<1>11. FreshInv'
  BY <1>0, <1>3, <1>4 DEF FreshInv
<1>12. ClosedInv'
  BY <1>0, <1>3, <1>4 DEF ClosedInv, Excused, IsCounted, CallInv, MCPTypes
<1>13. GoodInv'
  BY <1>0, <1>3, <1>4, Bounds DEF GoodInv, Good, CallInv
<1>14. HeldInv'
  BY <1>0, <1>3, <1>4, Bounds DEF HeldInv, CallInv
<1> QED
  BY <1>5, <1>6, <1>7, <1>8, <1>9, <1>10, <1>11, <1>12, <1>13, <1>14

LEMMA LookAgainKeeps ==
    ASSUME MCPAssumption, MCPInv, NEW c \in Callers, LookAgain(c)
    PROVE  MCPInv'
<1> USE DEF MCPInv
<1>0. caller[c].at = "missing" /\ ~Reconnecting(caller[c].conn)
  BY DEF LookAgain
<1>1. CASE closed \/ server = 0
  <2>1. caller' = [caller EXCEPT ![c] = NotCalling]
    BY <1>1 DEF LookAgain, CallEnds
  <2>2. caller' \in [Callers -> Call]
    BY <2>1, Bounds DEF NotCalling, MCPTypes, Call
  <2>3. /\ caller'[c].at = "idle" /\ caller'[c].conn = 0
        /\ caller'[c].fresh = 0 /\ caller'[c].again = FALSE
        /\ caller'[c].late = FALSE
        /\ \A d \in Callers \ {c} : caller'[d] = caller[d]
    BY <2>1 DEF NotCalling, MCPTypes, Call
  <2>4. UNCHANGED <<sessions, server, closed, loader, closer, calls>> /\ inFlight' = inFlight - 1
    BY <1>1 DEF LookAgain, CallEnds
  <2>5. MCPTypes'
    BY <1>0, <1>1, <2>3, <2>4, <2>2, Bounds DEF MCPTypes
  <2>6. CountInv'
    BY <1>0, <1>1, <2>3, <2>4, Counts DEF IsCounted, MCPTypes
  <2>7. CallInv'
    BY <1>0, <1>1, <2>3, <2>4 DEF CallInv, IsCounted, MCPTypes
  <2>8. CloseInv'
    BY <1>0, <1>1, <2>3, <2>4 DEF CloseInv, IsCounted
  <2>9. LoadInv'
    BY <1>0, <1>1, <2>3, <2>4 DEF LoadInv, IsCounted
  <2>10. BusyInv'
    BY <1>0, <1>1, <2>3, <2>4 DEF BusyInv, Connecting
  <2>11. FreshInv'
    BY <1>0, <1>1, <2>3, <2>4, Bounds DEF FreshInv, CallInv
  <2>12. ClosedInv'
    BY <1>0, <1>1, <2>3, <2>4 DEF ClosedInv, Excused, IsCounted, CallInv, MCPTypes
  <2>13. GoodInv'
    BY <1>0, <1>1, <2>3, <2>4, Bounds DEF GoodInv, Good, CallInv
  <2>14. HeldInv'
    BY <1>0, <1>1, <2>3, <2>4, Bounds DEF HeldInv, CallInv
  <2> QED
    BY <2>5, <2>6, <2>7, <2>8, <2>9, <2>10, <2>11, <2>12, <2>13, <2>14
<1>2. CASE ~closed /\ server # 0 /\ server # caller[c].conn
  <2>1. caller' = [caller EXCEPT ![c] = [@ EXCEPT !.at = "calling", !.conn = server,
                             !.fresh = 0, !.again = TRUE]]
    BY <1>2 DEF LookAgain, With
  <2>2. caller' \in [Callers -> Call]
    <3>1. [caller[c] EXCEPT !.at = "calling", !.conn = server,
                             !.fresh = 0, !.again = TRUE]
            \in Call
      BY <1>2, Bounds DEF MCPTypes, Call
    <3> QED
      BY <2>1, <3>1 DEF MCPTypes
  <2>3. /\ caller'[c].at = "calling" /\ caller'[c].conn = server
        /\ caller'[c].fresh = 0 /\ caller'[c].again = TRUE
        /\ caller'[c].late = caller[c].late
        /\ \A d \in Callers \ {c} : caller'[d] = caller[d]
    BY <2>1 DEF NotCalling, MCPTypes, Call
  <2>4. UNCHANGED <<sessions, server, closed, inFlight, loader, closer, calls>>
    BY <1>2 DEF LookAgain, With
  <2>5. MCPTypes'
    BY <1>0, <1>2, <2>3, <2>4, <2>2, Bounds DEF MCPTypes
  <2>6. CountInv'
    BY <1>0, <1>2, <2>3, <2>4, Counts DEF IsCounted, MCPTypes
  <2>7. CallInv'
    BY <1>0, <1>2, <2>3, <2>4 DEF CallInv, IsCounted, MCPTypes
  <2>8. CloseInv'
    BY <1>0, <1>2, <2>3, <2>4 DEF CloseInv, IsCounted, MCPTypes
  <2>9. LoadInv'
    BY <1>0, <1>2, <2>3, <2>4 DEF LoadInv, IsCounted
  <2>10. BusyInv'
    BY <1>0, <1>2, <2>3, <2>4 DEF BusyInv, Connecting
  <2>11. FreshInv'
    BY <1>0, <1>2, <2>3, <2>4, Bounds DEF FreshInv, CallInv
  <2>12. ClosedInv'
    BY <1>0, <1>2, <2>3, <2>4 DEF ClosedInv, Excused, IsCounted, CallInv, MCPTypes
  <2>13. GoodInv'
    BY <1>0, <1>2, <2>3, <2>4, Bounds DEF GoodInv, Good, CallInv
  <2>14. HeldInv'
    BY <1>0, <1>2, <2>3, <2>4, Bounds DEF HeldInv, CallInv
  <2> QED
    BY <2>5, <2>6, <2>7, <2>8, <2>9, <2>10, <2>11, <2>12, <2>13, <2>14
<1>3. CASE ~closed /\ server # 0 /\ server = caller[c].conn
  <2>1. caller' = [caller EXCEPT ![c].at = "connecting"]
    BY <1>3 DEF LookAgain
  <2>2. caller' \in [Callers -> Call]
    BY <2>1, Bounds DEF NotCalling, MCPTypes, Call
  <2>3. /\ caller'[c].at = "connecting" /\ caller'[c].conn = caller[c].conn
        /\ caller'[c].fresh = caller[c].fresh /\ caller'[c].again = caller[c].again
        /\ caller'[c].late = caller[c].late
        /\ \A d \in Callers \ {c} : caller'[d] = caller[d]
    BY <2>1 DEF NotCalling, MCPTypes, Call
  <2>4. UNCHANGED <<sessions, server, closed, inFlight, loader, closer, calls>>
    BY <1>3 DEF LookAgain
  <2>5. \A d \in Callers : ~Connecting(d)
    BY <1>3, <2>3, <2>4, <1>0 DEF Reconnecting, BusyInv, Connecting
  <2>6. MCPTypes'
    BY <1>0, <1>3, <2>3, <2>4, <2>5, <2>2, Bounds DEF MCPTypes
  <2>7. CountInv'
    BY <1>0, <1>3, <2>3, <2>4, <2>5, Counts DEF IsCounted, MCPTypes
  <2>8. CallInv'
    BY <1>0, <1>3, <2>3, <2>4, <2>5 DEF CallInv, IsCounted, MCPTypes
  <2>9. CloseInv'
    BY <1>0, <1>3, <2>3, <2>4, <2>5 DEF CloseInv, IsCounted
  <2>10. LoadInv'
    BY <1>0, <1>3, <2>3, <2>4, <2>5 DEF LoadInv, IsCounted
  <2>11. BusyInv'
    BY <1>0, <1>3, <2>3, <2>4, <2>5 DEF BusyInv, Connecting
  <2>12. FreshInv'
    BY <1>0, <1>3, <2>3, <2>4, <2>5 DEF FreshInv
  <2>13. ClosedInv'
    BY <1>0, <1>3, <2>3, <2>4, <2>5 DEF ClosedInv, Excused, IsCounted, CallInv, MCPTypes
  <2>14. GoodInv'
    BY <1>0, <1>3, <2>3, <2>4, <2>5, Bounds DEF GoodInv, Good, CallInv
  <2>15. HeldInv'
    BY <1>0, <1>3, <2>3, <2>4, <2>5, Bounds DEF HeldInv, CallInv
  <2> QED
    BY <2>6, <2>7, <2>8, <2>9, <2>10, <2>11, <2>12, <2>13, <2>14, <2>15
<1> QED
  BY <1>1, <1>2, <1>3 DEF LookAgain

LEMMA ReconnectKeeps ==
    ASSUME MCPAssumption, MCPInv, NEW c \in Callers, Reconnect(c)
    PROVE  MCPInv'
<1> USE DEF MCPInv
<1>0. caller[c].at = "connecting"
  BY DEF Reconnect
<1>1. CASE /\ Len(sessions) < MaxSessions /\ sessions' = Opened /\ UNCHANGED inFlight
           /\ caller' = [caller EXCEPT ![c] = [@ EXCEPT !.at = "replacing",
                                                       !.fresh = Len(sessions) + 1]]
  <2>1. caller' = [caller EXCEPT ![c] = [@ EXCEPT !.at = "replacing",
                             !.fresh = Len(sessions) + 1]]
    BY <1>1 DEF Reconnect
  <2>2. caller' \in [Callers -> Call]
    <3>1. [caller[c] EXCEPT !.at = "replacing",
                             !.fresh = Len(sessions) + 1]
            \in Call
      <4>1. Len(sessions) + 1 \in 0 .. MaxSessions
        BY <1>1, Bounds
      <4> QED
        BY <4>1, Bounds DEF Call
    <3> QED
      BY <2>1, <3>1 DEF MCPTypes
  <2>3. /\ caller'[c].at = "replacing" /\ caller'[c].conn = caller[c].conn
        /\ caller'[c].fresh = Len(sessions) + 1 /\ caller'[c].again = caller[c].again
        /\ caller'[c].late = caller[c].late
        /\ \A d \in Callers \ {c} : caller'[d] = caller[d]
    BY <2>1 DEF NotCalling, MCPTypes, Call
  <2>4. UNCHANGED <<server, closed, inFlight, loader, closer, calls>>
    BY <1>1 DEF Reconnect
  <2>5. /\ sessions' \in Seq(Session) /\ Len(sessions') = Len(sessions) + 1
        /\ DOMAIN sessions' = DOMAIN sessions \cup {Len(sessions) + 1}
        /\ \A t \in DOMAIN sessions : sessions'[t] = sessions[t]
        /\ ~sessions'[Len(sessions) + 1].lost /\ ~sessions'[Len(sessions) + 1].closed
    BY <1>1, <2>3, <2>4, OpenFacts DEF NewSession
  <2>6. Connecting(c) /\ IsCounted(c) /\ \A d \in Callers : Connecting(d) => d = c
    BY <1>1, <2>3, <2>4, <1>0 DEF BusyInv, Connecting, IsCounted
  <2>7. loader.at = "done" /\ (server # 0 => server = caller[c].conn)
        /\ sessions[caller[c].conn].lost
    BY <1>1, <2>3, <2>4, <1>0, <2>6 DEF LoadInv, BusyInv, CallInv, MCPTypes
  <2>8. MCPTypes'
    BY <1>0, <1>1, <2>3, <2>4, <2>5, <2>6, <2>7, <2>2, Bounds DEF MCPTypes
  <2>9. CountInv'
    BY <1>0, <1>1, <2>3, <2>4, <2>5, <2>6, <2>7, Counts DEF IsCounted, MCPTypes
  <2>10. CallInv'
    BY <1>0, <1>1, <2>3, <2>4, <2>5, <2>6, <2>7 DEF CallInv, IsCounted, MCPTypes
  <2>11. CloseInv'
    BY <1>0, <1>1, <2>3, <2>4, <2>5, <2>6, <2>7 DEF CloseInv, IsCounted
  <2>12. LoadInv'
    BY <1>0, <1>1, <2>3, <2>4, <2>5, <2>6, <2>7 DEF LoadInv, IsCounted
  <2>13. BusyInv'
    BY <1>0, <1>1, <2>3, <2>4, <2>5, <2>6, <2>7 DEF BusyInv, Connecting
  <2>14. FreshInv'
    <3>1. ASSUME NEW e \in Callers, caller'[e].at = "replacing"
          PROVE  caller'[e].fresh # server' /\ ~sessions'[caller'[e].fresh].closed
      BY <1>0, <2>3, <2>4, <2>5, <2>6, <3>1, Bounds DEF Connecting, MCPTypes
    <3>2. ASSUME NEW e \in Callers, caller'[e].at = "replacing", NEW d \in Callers
          PROVE  caller'[d].conn # caller'[e].fresh
                 /\ (d # e => caller'[d].fresh # caller'[e].fresh)
      BY <1>0, <2>3, <2>4, <2>6, <3>2, Bounds DEF Connecting, MCPTypes
    <3> QED
      BY <3>1, <3>2 DEF FreshInv
  <2>15. ClosedInv'
    BY <1>0, <1>1, <2>3, <2>4, <2>5, <2>6, <2>7, Bounds
       DEF ClosedInv, Excused, IsCounted, CallInv, MCPTypes
  <2>16. GoodInv'
    BY <1>0, <1>1, <2>3, <2>4, <2>5, <2>6, <2>7, Bounds
       DEF GoodInv, Good, CallInv, MCPTypes, LoadInv, Connecting
  <2>17. HeldInv'
    BY <1>0, <1>1, <2>3, <2>4, <2>5, <2>6, <2>7, Bounds DEF HeldInv, CallInv
  <2> QED
    BY <2>8, <2>9, <2>10, <2>11, <2>12, <2>13, <2>14, <2>15, <2>16, <2>17
<1>2. CASE CallEnds(c) /\ UNCHANGED sessions
  <2>1. caller' = [caller EXCEPT ![c] = NotCalling]
    BY <1>2 DEF Reconnect, CallEnds
  <2>2. caller' \in [Callers -> Call]
    BY <2>1, Bounds DEF NotCalling, MCPTypes, Call
  <2>3. /\ caller'[c].at = "idle" /\ caller'[c].conn = 0
        /\ caller'[c].fresh = 0 /\ caller'[c].again = FALSE
        /\ caller'[c].late = FALSE
        /\ \A d \in Callers \ {c} : caller'[d] = caller[d]
    BY <2>1 DEF NotCalling, MCPTypes, Call
  <2>4. UNCHANGED <<sessions, server, closed, loader, closer, calls>> /\ inFlight' = inFlight - 1
    BY <1>2 DEF Reconnect, CallEnds
  <2>5. MCPTypes'
    BY <1>0, <1>2, <2>3, <2>4, <2>2, Bounds DEF MCPTypes
  <2>6. CountInv'
    BY <1>0, <1>2, <2>3, <2>4, Counts DEF IsCounted, MCPTypes
  <2>7. CallInv'
    BY <1>0, <1>2, <2>3, <2>4 DEF CallInv, IsCounted, MCPTypes
  <2>8. CloseInv'
    BY <1>0, <1>2, <2>3, <2>4 DEF CloseInv, IsCounted
  <2>9. LoadInv'
    BY <1>0, <1>2, <2>3, <2>4 DEF LoadInv, IsCounted
  <2>10. BusyInv'
    BY <1>0, <1>2, <2>3, <2>4 DEF BusyInv, Connecting
  <2>11. FreshInv'
    BY <1>0, <1>2, <2>3, <2>4, Bounds DEF FreshInv, CallInv
  <2>12. ClosedInv'
    BY <1>0, <1>2, <2>3, <2>4 DEF ClosedInv, Excused, IsCounted, CallInv, MCPTypes
  <2>13. GoodInv'
    BY <1>0, <1>2, <2>3, <2>4, Bounds DEF GoodInv, Good, CallInv
  <2>14. HeldInv'
    BY <1>0, <1>2, <2>3, <2>4, Bounds DEF HeldInv, CallInv
  <2> QED
    BY <2>5, <2>6, <2>7, <2>8, <2>9, <2>10, <2>11, <2>12, <2>13, <2>14
<1> QED
  BY <1>1, <1>2 DEF Reconnect, CallEnds

LEMMA ReplaceKeeps ==
    ASSUME MCPAssumption, MCPInv, NEW c \in Callers, Replace(c)
    PROVE  MCPInv'
<1> USE DEF MCPInv
<1>0. caller[c].at = "replacing"
  BY DEF Replace
<1>1. CASE closed \/ server = 0
  <2>1. caller' = [caller EXCEPT ![c] = NotCalling]
    BY <1>1 DEF Replace, CallEnds
  <2>2. caller' \in [Callers -> Call]
    BY <2>1, Bounds DEF NotCalling, MCPTypes, Call
  <2>3. /\ caller'[c].at = "idle" /\ caller'[c].conn = 0
        /\ caller'[c].fresh = 0 /\ caller'[c].again = FALSE
        /\ caller'[c].late = FALSE
        /\ \A d \in Callers \ {c} : caller'[d] = caller[d]
    BY <2>1 DEF NotCalling, MCPTypes, Call
  <2>4. UNCHANGED <<closed, loader, closer, calls>> /\ CloseSession(caller[c].fresh)
        /\ UNCHANGED server /\ inFlight' = inFlight - 1
    BY <1>1 DEF Replace, CallEnds
  <2>5. /\ sessions' \in Seq(Session) /\ Len(sessions') = Len(sessions)
        /\ DOMAIN sessions' = DOMAIN sessions
        /\ \A t \in DOMAIN sessions :
              /\ sessions'[t].lost = sessions[t].lost
              /\ sessions'[t].closed <=> t = caller[c].fresh \/ sessions[t].closed
    BY <1>1, <2>3, <2>4, <1>0, Bounds, CloseFacts DEF MCPTypes, CallInv
  <2>6. MCPTypes'
    BY <1>0, <1>1, <2>3, <2>4, <2>5, <2>2, Bounds DEF MCPTypes
  <2>7. CountInv'
    BY <1>0, <1>1, <2>3, <2>4, <2>5, Counts DEF IsCounted, MCPTypes
  <2>8. CallInv'
    BY <1>0, <1>1, <2>3, <2>4, <2>5 DEF CallInv, IsCounted, MCPTypes
  <2>9. CloseInv'
    BY <1>0, <1>1, <2>3, <2>4, <2>5 DEF CloseInv, IsCounted
  <2>10. LoadInv'
    BY <1>0, <1>1, <2>3, <2>4, <2>5 DEF LoadInv, IsCounted
  <2>11. BusyInv'
    BY <1>0, <1>1, <2>3, <2>4, <2>5 DEF BusyInv, Connecting
  <2>12. FreshInv'
    BY <1>0, <2>3 DEF FreshInv, BusyInv, Connecting
  <2>13. ClosedInv'
    <3>1. server' # 0 => ~sessions'[server'].closed
      BY <1>0, <2>4, <2>5, Bounds DEF ClosedInv, FreshInv, MCPTypes
    <3>2. ASSUME NEW d \in Callers \ {c}, NEW s \in DOMAIN sessions, Excused(d, s),
                 s # caller[c].fresh
          PROVE  Excused(d, s)'
      BY <2>3, <2>5, <3>2 DEF Excused
    <3>3. ASSUME NEW d \in Callers, IsCounted(d)'
          PROVE  Excused(d, caller[d].conn)'
      BY <1>0, <2>3, <2>5, <3>2, <3>3, Bounds
         DEF ClosedInv, IsCounted, CallInv, FreshInv, MCPTypes
    <3>4. ASSUME NEW d \in Callers, caller'[d].at = "closing"
          PROVE  Excused(d, caller[d].fresh)'
      BY <1>0, <2>3, <2>5, <3>2, <3>4, Bounds DEF ClosedInv, CallInv, FreshInv, MCPTypes
    <3> QED
      BY <3>1, <3>3, <3>4 DEF ClosedInv
  <2>14. GoodInv'
    <3> SUFFICES ASSUME NEW s \in DOMAIN sessions, Good(s)'
                 PROVE  \/ s = server' \/ s = loader'.fresh
                        \/ \E e \in Callers : caller'[e].at = "replacing" /\ s = caller'[e].fresh
      BY <2>5 DEF GoodInv
    <3>1. Good(s) /\ s # caller[c].fresh
      BY <2>5 DEF Good
    <3> QED
      BY <2>3, <2>4, <3>1 DEF GoodInv
  <2>15. HeldInv'
    BY <1>0, <1>1, <2>3, <2>4, <2>5, Bounds DEF HeldInv, CallInv
  <2> QED
    BY <2>6, <2>7, <2>8, <2>9, <2>10, <2>11, <2>12, <2>13, <2>14, <2>15
<1>2. CASE ~closed /\ server # 0
  <2>1. caller' = [caller EXCEPT ![c].at = "closing"]
    BY <1>2 DEF Replace, BusyInv, Connecting
  <2>2. caller' \in [Callers -> Call]
    BY <2>1, Bounds DEF NotCalling, MCPTypes, Call
  <2>3. /\ caller'[c].at = "closing" /\ caller'[c].conn = caller[c].conn
        /\ caller'[c].fresh = caller[c].fresh /\ caller'[c].again = caller[c].again
        /\ caller'[c].late = caller[c].late
        /\ \A d \in Callers \ {c} : caller'[d] = caller[d]
    BY <2>1 DEF NotCalling, MCPTypes, Call
  <2>4. UNCHANGED <<sessions, closed, inFlight, loader, closer, calls>> /\ server' = caller[c].fresh
        /\ server = caller[c].conn
    BY <1>2 DEF Replace, BusyInv, Connecting
  <2>5. /\ IsCounted(c) /\ Connecting(c) /\ loader.at = "done" /\ loader.fresh = 0
        /\ \A d \in Callers : Connecting(d) => d = c
    BY <1>2, <2>3, <2>4, <1>0 DEF IsCounted, Connecting, LoadInv, BusyInv
  <2>6. sessions[caller[c].conn].lost /\ caller[c].fresh \in DOMAIN sessions
    BY <1>2, <2>3, <2>4, <1>0, Bounds DEF CallInv, MCPTypes
  <2>7. MCPTypes'
    BY <1>0, <1>2, <2>3, <2>4, <2>5, <2>6, <2>2, Bounds DEF MCPTypes, CallInv
  <2>8. CountInv'
    BY <1>0, <1>2, <2>3, <2>4, <2>5, <2>6, Counts DEF IsCounted, MCPTypes
  <2>9. CallInv'
    BY <1>0, <1>2, <2>3, <2>4, <2>5, <2>6 DEF CallInv, IsCounted, MCPTypes
  <2>10. CloseInv'
    BY <1>0, <1>2, <2>3, <2>4, <2>5, <2>6 DEF CloseInv, IsCounted, MCPTypes
  <2>11. LoadInv'
    <3>1. caller[c].fresh # 0
      BY <1>0 DEF CallInv
    <3> QED
      BY <2>3, <2>4, <2>5, <3>1 DEF LoadInv, IsCounted
  <2>12. BusyInv'
    BY <1>0, <2>3, <2>4, <2>5 DEF BusyInv, Connecting, FreshInv
  <2>13. FreshInv'
    BY <1>0, <1>2, <2>3, <2>4, <2>5, <2>6 DEF FreshInv, Connecting
  <2>14. ClosedInv'
    <3>1. ~sessions[caller[c].fresh].closed
      BY <1>0 DEF FreshInv
    <3>2. \A d \in Callers : IsCounted(d)' <=> IsCounted(d)
      BY <1>0, <2>3, <2>5 DEF IsCounted
    <3>3. \A d \in Callers : IsCounted(d)' => Excused(d, caller[d].conn)'
      BY <2>3, <2>4, <3>2 DEF ClosedInv, Excused
    <3>4. \A d \in Callers : caller'[d].at = "closing" => Excused(d, caller[d].fresh)'
      BY <2>3, <2>4, <3>1 DEF ClosedInv, Excused
    <3> QED
      BY <2>4, <3>1, <3>3, <3>4 DEF ClosedInv
  <2>15. GoodInv'
    BY <1>0, <1>2, <2>3, <2>4, <2>5, <2>6, Bounds DEF GoodInv, Good, CallInv
  <2>16. HeldInv'
    BY <1>0, <1>2, <2>3, <2>4, <2>5, <2>6, Bounds DEF HeldInv, CallInv
  <2> QED
    BY <2>7, <2>8, <2>9, <2>10, <2>11, <2>12, <2>13, <2>14, <2>15, <2>16
<1> QED
  BY <1>1, <1>2 DEF Replace

LEMMA CloseStaleKeeps ==
    ASSUME MCPAssumption, MCPInv, NEW c \in Callers, CloseStale(c)
    PROVE  MCPInv'
<1> USE DEF MCPInv
<1>0. caller[c].at = "closing"
  BY DEF CloseStale
<1>1. caller' = [caller EXCEPT ![c] = [@ EXCEPT !.at = "calling", !.conn = caller[c].fresh,
                           !.fresh = 0, !.again = TRUE]]
  BY DEF CloseStale, With
<1>2. caller' \in [Callers -> Call]
  <2>1. [caller[c] EXCEPT !.at = "calling", !.conn = caller[c].fresh,
                           !.fresh = 0, !.again = TRUE]
          \in Call
    BY Bounds DEF MCPTypes, Call
  <2> QED
    BY <1>1, <2>1 DEF MCPTypes
<1>3. /\ caller'[c].at = "calling" /\ caller'[c].conn = caller[c].fresh
      /\ caller'[c].fresh = 0 /\ caller'[c].again = TRUE
      /\ caller'[c].late = caller[c].late
      /\ \A d \in Callers \ {c} : caller'[d] = caller[d]
  BY <1>1 DEF NotCalling, MCPTypes, Call
<1>4. UNCHANGED <<server, closed, inFlight, loader, closer, calls>>
      /\ CloseSession(caller[c].conn)
  BY DEF CloseStale, With
<1>5. /\ sessions' \in Seq(Session) /\ Len(sessions') = Len(sessions)
      /\ DOMAIN sessions' = DOMAIN sessions
      /\ \A t \in DOMAIN sessions :
            /\ sessions'[t].lost = sessions[t].lost
            /\ sessions'[t].closed <=> t = caller[c].conn \/ sessions[t].closed
  BY <1>3, <1>4, <1>0, Bounds, CloseFacts DEF MCPTypes, CallInv, IsCounted
<1>6. sessions[caller[c].conn].lost /\ caller[c].conn \in DOMAIN sessions
  BY <1>3, <1>4, <1>0, Bounds DEF CallInv, MCPTypes, IsCounted
<1>7. MCPTypes'
  BY <1>0, <1>3, <1>4, <1>5, <1>6, <1>2, Bounds DEF MCPTypes
<1>8. CountInv'
  BY <1>0, <1>3, <1>4, <1>5, <1>6, Counts DEF IsCounted, MCPTypes
<1>9. CallInv'
  BY <1>0, <1>3, <1>4, <1>5, <1>6 DEF CallInv, IsCounted, MCPTypes
<1>10. CloseInv'
  BY <1>0, <1>3, <1>4, <1>5, <1>6 DEF CloseInv, IsCounted
<1>11. LoadInv'
  BY <1>0, <1>3, <1>4, <1>5, <1>6 DEF LoadInv, IsCounted
<1>12. BusyInv'
  BY <1>0, <1>3, <1>4, <1>5, <1>6 DEF BusyInv, Connecting
<1>13. FreshInv'
  <2>1. ASSUME NEW e \in Callers, caller'[e].at = "replacing"
        PROVE  caller'[e].fresh # server' /\ ~sessions'[caller'[e].fresh].closed
    BY <1>0, <1>3, <1>4, <1>5, <1>6, <2>1, Bounds DEF FreshInv, MCPTypes, CallInv
  <2>2. ASSUME NEW e \in Callers, caller'[e].at = "replacing", NEW d \in Callers
        PROVE  caller'[d].conn # caller'[e].fresh /\ (d # e => caller'[d].fresh # caller'[e].fresh)
    BY <1>0, <1>3, <2>2, Bounds DEF FreshInv, CallInv
  <2> QED
    BY <2>1, <2>2 DEF FreshInv
<1>14. ClosedInv'
  <2>1. server' # 0 => ~sessions'[server'].closed
    BY <1>0, <1>4, <1>5, <1>6, Bounds DEF ClosedInv, BusyInv, MCPTypes
  <2>2. ASSUME NEW d \in Callers, NEW s \in DOMAIN sessions, Excused(d, s)
        PROVE  Excused(d, s)'
    BY <1>3, <1>5, <1>6, <2>2 DEF Excused
  <2>3. ASSUME NEW d \in Callers, IsCounted(d)'
        PROVE  Excused(d, caller[d].conn)'
    BY <1>0, <1>3, <2>2, <2>3, Bounds DEF ClosedInv, IsCounted, CallInv, MCPTypes
  <2>4. ASSUME NEW d \in Callers, caller'[d].at = "closing"
        PROVE  Excused(d, caller[d].fresh)'
    BY <1>3, <2>2, <2>4, Bounds DEF ClosedInv, CallInv, MCPTypes
  <2> QED
    BY <2>1, <2>3, <2>4 DEF ClosedInv
<1>15. GoodInv'
  BY <1>0, <1>3, <1>4, <1>5, <1>6, Bounds DEF GoodInv, Good, CallInv, MCPTypes
<1>16. HeldInv'
  BY <1>0, <1>3, <1>4, <1>5, <1>6, Bounds DEF HeldInv, CallInv, MCPTypes
<1> QED
  BY <1>7, <1>8, <1>9, <1>10, <1>11, <1>12, <1>13, <1>14, <1>15, <1>16

LEMMA BeginCloseKeeps ==
    ASSUME MCPAssumption, MCPInv, BeginClose
    PROVE  MCPInv'
<1> USE DEF MCPInv
<1>1. MCPTypes'
  BY Bounds DEF BeginClose, MCPTypes
<1>2. CountInv'
  BY DEF BeginClose, CountInv, Counted, IsCounted
<1>3. CallInv'
  BY DEF BeginClose, CallInv, IsCounted, MCPTypes
<1>4. CloseInv'
  BY DEF BeginClose, CloseInv, IsCounted
<1>5. LoadInv'
  BY DEF BeginClose, LoadInv, IsCounted
<1>6. BusyInv'
  BY DEF BeginClose, BusyInv, Connecting
<1>7. FreshInv'
  BY DEF BeginClose, FreshInv
<1>8. ClosedInv'
  BY DEF BeginClose, ClosedInv, Excused, IsCounted
<1>9. GoodInv'
  BY DEF BeginClose, GoodInv, Good
<1>10. HeldInv'
  BY DEF BeginClose, HeldInv
<1> QED
  BY <1>1, <1>2, <1>3, <1>4, <1>5, <1>6, <1>7, <1>8, <1>9, <1>10

LEMMA WaitedKeeps ==
    ASSUME MCPAssumption, MCPInv, Waited
    PROVE  MCPInv'
<1> USE DEF MCPInv
<1>0. \A c \in Callers : ~IsCounted(c)
  <2>1. Counted = {}
    BY CountedFinite, FS_EmptySet DEF Waited, CountInv
  <2> QED
    BY <2>1 DEF Counted
<1>1. MCPTypes'
  BY Bounds DEF Waited, MCPTypes
<1>2. CountInv'
  BY DEF Waited, CountInv, Counted, IsCounted
<1>3. CallInv'
  BY DEF Waited, CallInv, IsCounted, MCPTypes
<1>4. CloseInv'
  BY <1>0 DEF Waited, CloseInv, IsCounted
<1>5. LoadInv'
  BY DEF Waited, LoadInv, IsCounted
<1>6. BusyInv'
  BY DEF Waited, BusyInv, Connecting
<1>7. FreshInv'
  BY DEF Waited, FreshInv
<1>8. ClosedInv'
  BY DEF Waited, ClosedInv, Excused, IsCounted
<1>9. GoodInv'
  BY DEF Waited, GoodInv, Good
<1>10. HeldInv'
  BY DEF Waited, HeldInv
<1> QED
  BY <1>1, <1>2, <1>3, <1>4, <1>5, <1>6, <1>7, <1>8, <1>9, <1>10

LEMMA CloseAllKeeps ==
    ASSUME MCPAssumption, MCPInv, CloseAll
    PROVE  MCPInv'
<1> USE DEF MCPInv
<1>1. MCPTypes'
  BY CloseFacts, Bounds DEF CloseAll, Unlocked, MCPTypes, CallInv, IsCounted, LoadInv
<1>2. CountInv'
  BY DEF CloseAll, Unlocked, CountInv, Counted, IsCounted
<1>3. CallInv'
  BY CloseFacts, Bounds DEF CloseAll, Unlocked, CallInv, IsCounted, MCPTypes, LoadInv
<1>4. CloseInv'
  BY CloseFacts, Bounds DEF CloseAll, Unlocked, CloseInv, IsCounted
<1>5. LoadInv'
  BY CloseFacts, Bounds DEF CloseAll, Unlocked, LoadInv, IsCounted, CallInv, MCPTypes, CloseInv
<1>6. BusyInv'
  BY DEF CloseAll, BusyInv, Connecting, CallInv, IsCounted
<1>7. FreshInv'
  BY CloseFacts, Bounds DEF CloseAll, Unlocked, FreshInv, CallInv, IsCounted, LoadInv, MCPTypes
<1>8. ClosedInv'
  BY CloseFacts, Bounds
     DEF CloseAll, Unlocked, ClosedInv, Excused, IsCounted, CallInv, LoadInv, MCPTypes, CloseInv
<1>9. GoodInv'
  BY CloseFacts, Bounds
     DEF CloseAll, Unlocked, GoodInv, Good, CallInv, IsCounted, LoadInv, MCPTypes
<1>10. HeldInv'
  BY CloseFacts, Bounds DEF CloseAll, Unlocked, HeldInv, CallInv, IsCounted, LoadInv, MCPTypes
<1> QED
  BY <1>1, <1>2, <1>3, <1>4, <1>5, <1>6, <1>7, <1>8, <1>9, <1>10

-----------------------------------------------------------------------------
(* The specification keeps MCPInv.                                               *)

LEMMA MCPInvInit ==
    ASSUME MCPAssumption, MCPInit
    PROVE  MCPInv
<1> USE DEF MCPInit, NotCalling
<1>1. MCPTypes
  <2>1. sessions \in Seq(Session) /\ Len(sessions) = 0 /\ MaxSessions \in Nat /\ MaxCalls \in Nat
    BY DEF MCPAssumption
  <2>2. NotCalling \in Call
    BY <2>1 DEF Call
  <2>3. caller \in [Callers -> Call] /\ \A c \in Callers : caller[c].conn = 0 /\ caller[c].fresh = 0
    BY <2>2
  <2>4. 0 \in 0 .. Len(sessions) /\ 0 \in 0 .. MaxCalls /\ Len(sessions) <= MaxSessions
    BY <2>1
  <2>5. loader \in [at: {"connecting", "putting", "done"}, fresh: 0 .. Len(sessions)]
    BY <2>4
  <2> QED
    BY <2>1, <2>3, <2>4, <2>5 DEF MCPTypes
<1>2. CountInv
  <2>1. Counted = {}
    BY DEF Counted, IsCounted
  <2> QED
    BY <2>1, FS_EmptySet DEF CountInv
<1>3. CallInv /\ CloseInv /\ LoadInv /\ BusyInv /\ FreshInv
  BY DEF CallInv, CloseInv, LoadInv, BusyInv, Connecting, FreshInv, IsCounted
<1>4. ClosedInv /\ GoodInv /\ HeldInv
  BY DEF ClosedInv, GoodInv, HeldInv, IsCounted
<1> QED
  BY <1>1, <1>2, <1>3, <1>4 DEF MCPInv

LEMMA MCPInvNext ==
    ASSUME MCPAssumption, MCPInv, [MCPNext]_mcpVars
    PROVE  MCPInv'
<1>1. CASE Lose
  BY <1>1, LoseKeeps
<1>2. CASE Connect
  BY <1>2, ConnectKeeps
<1>3. CASE PutServer
  BY <1>3, PutServerKeeps
<1>4. CASE Close
  BY <1>4, BeginCloseKeeps, WaitedKeeps, CloseAllKeeps DEF Close
<1>5. ASSUME NEW c \in Callers, CallTool(c)
      PROVE  MCPInv'
  <2>1. CASE BeginCall(c) \/ CheckAgain(c) \/ CountCall(c)
    BY <2>1, BeginCallKeeps, CheckAgainKeeps, CountCallKeeps
  <2>2. CASE Answered(c) \/ SessionMissing(c) \/ LookAgain(c)
    BY <2>2, AnsweredKeeps, SessionMissingKeeps, LookAgainKeeps
  <2>3. CASE Reconnect(c) \/ Replace(c) \/ CloseStale(c)
    BY <2>3, ReconnectKeeps, ReplaceKeeps, CloseStaleKeeps
  <2> QED
    BY <1>5, <2>1, <2>2, <2>3 DEF CallTool
<1>6. CASE UNCHANGED mcpVars
  BY <1>6
     DEF mcpVars, MCPInv, MCPTypes, CountInv, Counted, CallInv, CloseInv, LoadInv, BusyInv,
         Connecting,
              FreshInv, ClosedInv, Excused, GoodInv, Good, HeldInv, IsCounted
<1> QED
  BY <1>1, <1>2, <1>3, <1>4, <1>5, <1>6 DEF MCPNext

LEMMA MCPAlways == ASSUME MCPAssumption PROVE MCPSpec => []MCPInv
<1>1. MCPInit => MCPInv
  BY MCPInvInit
<1>2. MCPInv /\ [MCPNext]_mcpVars => MCPInv'
  BY MCPInvNext
<1> QED
  BY <1>1, <1>2, PTL DEF MCPSpec

(* What MCPInv implies.                                                          *)

LEMMA HeldHolds == ASSUME MCPAssumption, MCPInv PROVE SessionsAreHeld
BY DEF MCPInv, HeldInv, CloseInv, SessionsAreHeld

LEMMA ClosedHolds == ASSUME MCPAssumption, MCPInv PROVE ClosedUnderNobody
BY DEF MCPInv, ClosedInv, Excused, IsCounted, ClosedUnderNobody

LEMMA OnceHolds == ASSUME MCPAssumption, MCPInv PROVE ReplacedOnce
<1> SUFFICES ASSUME NEW s \in DOMAIN sessions, NEW t \in DOMAIN sessions, Good(s), Good(t)
             PROVE  s = t
  BY DEF ReplacedOnce
<1> USE DEF MCPInv
<1>1. DOMAIN sessions = 1 .. Len(sessions)
  BY Bounds
<1>2. CASE loader.fresh \in {s, t}
  BY <1>1, <1>2 DEF LoadInv
<1>3. CASE loader.fresh \notin {s, t}
  <2>1. \A c \in Callers : caller[c].at = "replacing" => server \notin {s, t}
    BY <1>1 DEF BusyInv, Connecting, CallInv, Good
  <2> QED
    BY <1>3, <2>1 DEF GoodInv, BusyInv, Connecting
<1> QED
  BY <1>2, <1>3

LEMMA TypeHolds == ASSUME MCPAssumption, MCPInv PROVE MCPTypeOK
<1>1. Counted \subseteq Callers /\ IsFiniteSet(Callers)
  BY DEF Counted, MCPAssumption
<1>2. Cardinality(Counted) \in Nat /\ Cardinality(Callers) \in Nat
      /\ Cardinality(Counted) <= Cardinality(Callers)
  BY <1>1, FS_Subset, FS_CardinalityType, CountedFinite
<1> QED
  BY <1>2 DEF MCPInv, MCPTypes, CountInv, MCPTypeOK

-----------------------------------------------------------------------------
(* The manager's state stays within its types: no more calls are counted in   *)
(* flight than there are callers, and none is counted off that was not        *)
(* counted (Manager.wg never goes below zero, where Done would panic).        *)
THEOREM MCPTypeCorrect == ASSUME MCPAssumption PROVE MCPSpec => []MCPTypeOK
<1>1. MCPInv => MCPTypeOK
  BY TypeHolds
<1> QED
  BY <1>1, MCPAlways, PTL

(* However calls, lost sessions, replacements and Close fall: every session   *)
(* left open has somebody to close it, none is closed under a call but for a  *)
(* lost one and for the calls counted while Close was past its wait, and a    *)
(* lost session is replaced once.                                             *)
THEOREM ToolSessionsAreKeptCorrect ==
    ASSUME MCPAssumption PROVE MCPSpec => []ToolSessionsAreKept
<1>1. MCPInv => ToolSessionsAreKept
  BY HeldHolds, ClosedHolds, OnceHolds DEF ToolSessionsAreKept
<1> QED
  BY <1>1, MCPAlways, PTL

-----------------------------------------------------------------------------
(* The media store.  Numbers are given in order, no path that is referred to  *)
(* is about to be deleted unless a Store raced, and no borrowed path is        *)
(* eligible for deletion by its last reference.                               *)
Referred == {refs[r].path : r \in DOMAIN refs}

MediaInv ==
    /\ DOMAIN refs \subseteq 1 .. stored
    /\ Referred \cap Doomed \subseteq raced
    /\ \A p \in borrowed : ~states[p].eligible

MediaSafe == MediaTypeOK /\ MediaInv /\ MediaIsKept

(* The references of a path among some are finitely many. *)
LEMMA OfType ==
    ASSUME MediaAssumption, MediaTypeOK, NEW p, NEW some \in SUBSET DOMAIN refs
    PROVE  /\ IsFiniteSet(Of(p, some)) /\ Cardinality(Of(p, some)) \in Nat
           /\ IsFiniteSet(Of(p, DOMAIN refs)) /\ Cardinality(Of(p, DOMAIN refs)) \in Nat
           /\ Cardinality(Of(p, some)) = 0 <=> Of(p, some) = {}
  <1>1. IsFiniteSet(1 .. MaxRefs)
    BY FS_Interval DEF MediaAssumption
  <1>2. Of(p, some) \subseteq 1 .. MaxRefs /\ Of(p, DOMAIN refs) \subseteq 1 .. MaxRefs
    BY DEF Of, MediaTypeOK
  <1>3. QED
    BY <1>1, <1>2, FS_Subset, FS_CardinalityType, FS_EmptySet

LEMMA InitMedia ==
    ASSUME MediaAssumption, MediaInit
    PROVE  MediaSafe
  <1>1. DOMAIN refs = {}
    BY DEF MediaInit
  <1>2. MediaTypeOK
    BY <1>1 DEF MediaInit, MediaTypeOK, MediaAssumption, Nobody
  <1>3. MediaInv
    BY <1>1 DEF MediaInit, MediaInv, Referred, Doomed, Nobody
  <1>4. \A p \in Paths : Cardinality(Of(p, DOMAIN refs)) = 0
    <2>1. \A p : Of(p, DOMAIN refs) = {}
      BY <1>1 DEF Of
    <2>2. QED
      BY <2>1, FS_EmptySet
  <1>5. MediaIsKept
    BY <1>1, <1>4 DEF MediaInit, MediaIsKept, ReferredIsThere, BorrowedIsKept, CountsAgree,
       Doomed, Nobody
  <1>6. QED
    BY <1>2, <1>3, <1>5 DEF MediaSafe

(* Stat chooses a file and a policy for a reference to come.                 *)
LEMMA StatMedia ==
    ASSUME MediaSafe, NEW s \in Scopes, Stat(s)
    PROVE  MediaSafe'
  <1>1. PICK p \in disk, policy \in Policies :
            storing' = [storing EXCEPT ![s] = [path |-> p, policy |-> policy, scope |-> s]]
    BY DEF Stat
  <1>2. [path |-> p, policy |-> policy, scope |-> s] \in Ref
    BY DEF MediaSafe, MediaTypeOK, Ref
  <1>3. storing' \in [Scopes -> Ref \cup {NotStoring}]
    BY <1>1, <1>2 DEF MediaSafe, MediaTypeOK
  <1>4. MediaTypeOK'
    BY <1>3 DEF MediaSafe, MediaTypeOK, Stat
  <1>5. MediaInv'
    BY DEF MediaSafe, MediaInv, Stat, Referred, Doomed
  <1>6. MediaIsKept'
    BY DEF MediaSafe, MediaIsKept, Stat, ReferredIsThere, BorrowedIsKept, CountsAgree, Of, Doomed
  <1>7. QED
    BY <1>4, <1>5, <1>6 DEF MediaSafe

(* A new reference adds one to the count of its path, which may be on its     *)
(* way out: that is the race the store does not exclude.                     *)
LEMMA RegisterMedia ==
    ASSUME MediaAssumption, MediaSafe, NEW s \in Scopes, Register(s)
    PROVE  MediaSafe'
  <1> DEFINE new == storing[s]
             q == new.path
             n == stored + 1
  <1>1. /\ new \in Ref /\ q \in Paths /\ new.policy \in Policies
        /\ stored \in Nat /\ n \in 1 .. MaxRefs /\ n \notin DOMAIN refs
        /\ DOMAIN refs \subseteq 1 .. MaxRefs
    BY DEF MediaSafe, MediaTypeOK, MediaInv, MediaAssumption, Register, Ref
  <1>2. /\ DOMAIN refs' = DOMAIN refs \cup {n} /\ refs'[n] = new
        /\ \A r \in DOMAIN refs : refs'[r] = refs[r]
        /\ stored' = n
    BY <1>1 DEF Register
  <1>3. /\ \A p \in Paths \ {q} : states'[p] = states[p]
        /\ states'[q] = [count |-> states[q].count + 1,
                         eligible |-> Eligible(states[q], new.policy)]
        /\ states' = [states EXCEPT ![q] = [count |-> states[q].count + 1,
                         eligible |-> Eligible(states[q], new.policy)]]
    BY <1>1 DEF Register, MediaSafe, MediaTypeOK
  <1>4. \A p : Of(p, DOMAIN refs)' = IF p = q THEN Of(p, DOMAIN refs) \cup {n}
                                             ELSE Of(p, DOMAIN refs)
    BY <1>2 DEF Of
  <1>5. \A p \in Paths : states'[p].count = Cardinality(Of(p, DOMAIN refs)')
    <2> SUFFICES ASSUME NEW p \in Paths
                 PROVE  states'[p].count = Cardinality(Of(p, DOMAIN refs)')
      OBVIOUS
    <2>1. states[p].count = Cardinality(Of(p, DOMAIN refs))
      BY DEF MediaSafe, MediaIsKept, CountsAgree
    <2>2. IsFiniteSet(Of(p, DOMAIN refs)) /\ n \notin Of(p, DOMAIN refs)
      BY <1>1, OfType DEF MediaSafe, Of
    <2>3. Cardinality(Of(p, DOMAIN refs) \cup {n}) = Cardinality(Of(p, DOMAIN refs)) + 1
      BY <2>2, FS_AddElement
    <2>4. CASE p = q
      BY <2>1, <2>3, <2>4, <1>3, <1>4
    <2>5. CASE p # q
      BY <2>1, <2>5, <1>3, <1>4
    <2>6. QED
      BY <2>4, <2>5
  <1>6. states[q].count + 1 \in 0 .. MaxRefs
    <2>1. ASSUME NEW p \in Paths PROVE Cardinality(Of(p, DOMAIN refs)') <= MaxRefs
      <3>1. Of(p, DOMAIN refs)' \subseteq 1 .. MaxRefs
        BY <1>1, <1>2 DEF Of
      <3>2. IsFiniteSet(1 .. MaxRefs) /\ Cardinality(1 .. MaxRefs) = MaxRefs
        BY FS_Interval DEF MediaAssumption
      <3>3. QED
        BY <3>1, <3>2, FS_Subset
    <2>2. states[q].count \in Nat /\ states'[q].count = states[q].count + 1
      BY <1>1, <1>3 DEF MediaSafe, MediaTypeOK
    <2>3. states'[q].count <= MaxRefs
      BY <1>1, <1>5, <2>1
    <2>4. QED
      BY <2>2, <2>3 DEF MediaAssumption
  <1>7. Eligible(states[q], new.policy) \in BOOLEAN
    BY <1>1 DEF Eligible, MediaSafe, MediaTypeOK
  <1>8. borrowed' = IF new.policy = "forget_only" THEN borrowed \cup {q}
                    ELSE IF states[q].count = 0 THEN borrowed \ {q} ELSE borrowed
    BY DEF Register
  <1>9. /\ raced \subseteq raced' /\ raced' \subseteq raced \cup {q}
        /\ (q \in Doomed \/ q \notin disk => q \in raced')
        /\ Doomed' = Doomed /\ disk' = disk
    BY DEF Register, Doomed
  <1>10. MediaTypeOK'
    <2>1. states' \in [Paths -> [count: 0 .. MaxRefs, eligible: BOOLEAN]]
      BY <1>1, <1>3, <1>6, <1>7 DEF MediaSafe, MediaTypeOK
    <2>2. storing' \in [Scopes -> Ref \cup {NotStoring}]
      BY DEF MediaSafe, MediaTypeOK, Register
    <2>3. {borrowed', raced'} \subseteq SUBSET Paths
      BY <1>1, <1>8, <1>9 DEF MediaSafe, MediaTypeOK
    <2>4. DOMAIN refs' \subseteq 1 .. MaxRefs /\ \A r \in DOMAIN refs' : refs'[r] \in Ref
      BY <1>1, <1>2 DEF MediaSafe, MediaTypeOK
    <2>5. stored' \in 0 .. MaxRefs
      BY <1>1, <1>2
    <2>6. QED
      BY <1>9, <2>1, <2>2, <2>3, <2>4, <2>5 DEF MediaSafe, MediaTypeOK, Register
  <1>11. MediaInv'
    <2>1. DOMAIN refs' \subseteq 1 .. stored'
      BY <1>1, <1>2 DEF MediaSafe, MediaInv
    <2>2. Referred' \cap Doomed' \subseteq raced'
      BY <1>2, <1>9 DEF MediaSafe, MediaInv, Referred
    <2>3. ASSUME NEW p \in borrowed' PROVE ~states'[p].eligible
      <3>1. p \in Paths
        BY <2>3, <1>10 DEF MediaTypeOK
      <3>2. CASE p # q
        BY <3>1, <3>2, <2>3, <1>3, <1>8 DEF MediaSafe, MediaInv
      <3>3. CASE p = q
        <4>1. ~Eligible(states[q], new.policy)
          <5>1. CASE new.policy = "forget_only"
            BY <5>1 DEF Eligible
          <5>2. CASE new.policy # "forget_only"
            BY <5>2, <3>3, <2>3, <1>8 DEF MediaSafe, MediaInv, Eligible
          <5>3. QED
            BY <5>1, <5>2
        <4>2. QED
          BY <4>1, <3>3, <1>3
      <3>4. QED
        BY <3>2, <3>3
    <2>4. QED
      BY <2>1, <2>2, <2>3 DEF MediaInv
  <1>12. MediaIsKept'
    <2>1. ReferredIsThere'
      BY <1>2, <1>9 DEF MediaSafe, MediaIsKept, ReferredIsThere
    <2>2. BorrowedIsKept'
      BY <1>8, <1>9 DEF MediaSafe, MediaIsKept, BorrowedIsKept
    <2>3. CountsAgree'
      BY <1>5 DEF CountsAgree
    <2>4. QED
      BY <2>1, <2>2, <2>3 DEF MediaIsKept
  <1>13. QED
    BY <1>10, <1>11, <1>12 DEF MediaSafe

(* A release takes out references, and dooms the files of the paths that      *)
(* have none left and no borrower: the counts are right, so that a path whose *)
(* last one it thinks it takes has none left.                                *)
LEMMA ReleasedMedia ==
    ASSUME MediaAssumption, MediaSafe, NEW a \in Releasers, NEW some \in SUBSET DOMAIN refs,
           doomed[a] = {}, Released(a, some)
    PROVE  MediaSafe'
  <1>1. /\ DOMAIN refs' = DOMAIN refs \ some
        /\ \A r \in DOMAIN refs \ some : refs'[r] = refs[r]
    BY DEF Released
  <1>2. \A p \in Paths :
            states'[p] = IF LastGoes(p, some) THEN Nobody
                         ELSE [states[p] EXCEPT !.count = @ - Cardinality(Of(p, some))]
    BY DEF Released
  <1>3. \A p : Of(p, DOMAIN refs)' = Of(p, DOMAIN refs) \ Of(p, some)
    BY <1>1 DEF Of
  <1>4. ASSUME NEW p \in Paths
        PROVE  LET c == Cardinality(Of(p, some)) IN
               /\ c \in Nat /\ states[p].count \in 0 .. MaxRefs /\ c <= states[p].count
               /\ Cardinality(Of(p, DOMAIN refs)') = states[p].count - c
               /\ LastGoes(p, some) => c = states[p].count /\ Of(p, DOMAIN refs)' = {}
    <2>1. Of(p, some) \subseteq Of(p, DOMAIN refs)
      BY DEF Of
    <2>2. /\ IsFiniteSet(Of(p, some)) /\ Cardinality(Of(p, some)) \in Nat
          /\ IsFiniteSet(Of(p, DOMAIN refs)) /\ Cardinality(Of(p, DOMAIN refs)) \in Nat
      BY OfType DEF MediaSafe
    <2>3. states[p].count = Cardinality(Of(p, DOMAIN refs)) /\ states[p].count \in 0 .. MaxRefs
      BY DEF MediaSafe, MediaIsKept, CountsAgree, MediaTypeOK
    <2>4. Cardinality(Of(p, some)) <= Cardinality(Of(p, DOMAIN refs))
      BY <2>1, <2>2, FS_Subset
    <2>5. Cardinality(Of(p, DOMAIN refs) \ Of(p, some))
              = Cardinality(Of(p, DOMAIN refs)) - Cardinality(Of(p, some))
      <3>1. Of(p, DOMAIN refs) \cap Of(p, some) = Of(p, some)
        BY <2>1
      <3>2. QED
        BY <3>1, <2>2, FS_Difference
    <2>6. LastGoes(p, some) => Cardinality(Of(p, some)) = states[p].count
      BY <2>2, <2>3, <2>4 DEF LastGoes
    <2>7. LastGoes(p, some) => Of(p, DOMAIN refs)' = {}
      BY <2>1, <2>2, <2>3, <2>6, <1>3, FS_Subset
    <2>8. QED
      BY <2>2, <2>3, <2>4, <2>5, <2>6, <2>7, <1>3
  <1>5. \A p \in Paths : states'[p].count = Cardinality(Of(p, DOMAIN refs)')
    <2> SUFFICES ASSUME NEW p \in Paths
                 PROVE  states'[p].count = Cardinality(Of(p, DOMAIN refs)')
      OBVIOUS
    <2>1. CASE LastGoes(p, some)
      <3>1. states'[p] = Nobody
        BY <2>1, <1>2
      <3>2. Of(p, DOMAIN refs)' = {}
        BY <2>1, <1>4
      <3>3. QED
        BY <3>1, <3>2, FS_EmptySet DEF Nobody
    <2>2. CASE ~LastGoes(p, some)
      <3>1. states[p] \in [count: 0 .. MaxRefs, eligible: BOOLEAN]
        BY DEF MediaSafe, MediaTypeOK
      <3>2. states'[p].count = states[p].count - Cardinality(Of(p, some))
        BY <2>2, <3>1, <1>2
      <3>3. QED
        BY <3>2, <1>4
    <2>3. QED
      BY <2>1, <2>2
  <1>6. doomed' = [doomed EXCEPT ![a] =
                      {p \in Paths : LastGoes(p, some) /\ states[p].eligible}]
    BY DEF Released
  <1>7. \A p \in Doomed' : p \in Doomed \/ (p \in Paths /\ LastGoes(p, some) /\ states[p].eligible)
    BY <1>6 DEF Doomed, MediaSafe, MediaTypeOK
  <1>8. UNCHANGED <<storing, disk, stored, borrowed, raced>>
    BY DEF Released
  <1>9. MediaTypeOK'
    <2>1. ASSUME NEW p \in Paths
          PROVE  states'[p] \in [count: 0 .. MaxRefs, eligible: BOOLEAN]
      <3>1. states[p] \in [count: 0 .. MaxRefs, eligible: BOOLEAN]
        BY DEF MediaSafe, MediaTypeOK
      <3>2. CASE LastGoes(p, some)
        <4>1. states'[p] = Nobody
          BY <3>2, <1>2
        <4>2. QED
          BY <4>1 DEF Nobody, MediaAssumption
      <3>3. CASE ~LastGoes(p, some)
        <4> DEFINE c == Cardinality(Of(p, some))
        <4>1. c \in Nat /\ c <= states[p].count
          BY <1>4
        <4>2. states'[p] = [states[p] EXCEPT !.count = states[p].count - c]
          BY <3>3, <1>2
        <4> HIDE DEF c
        <4>3. states[p].count - c \in 0 .. MaxRefs
          BY <3>1, <4>1 DEF MediaAssumption
        <4>4. QED
          BY <3>1, <4>2, <4>3
      <3>4. QED
        BY <3>2, <3>3
    <2>2. states' \in [Paths -> [count: 0 .. MaxRefs, eligible: BOOLEAN]]
      BY <2>1 DEF Released
    <2>3. doomed' \in [Releasers -> SUBSET Paths]
      BY <1>6 DEF MediaSafe, MediaTypeOK
    <2>4. QED
      BY <1>1, <1>8, <2>2, <2>3 DEF MediaSafe, MediaTypeOK
  <1>10. Referred' \subseteq Referred
    BY <1>1 DEF Referred
  <1>11. ASSUME NEW p \in Paths, LastGoes(p, some)
         PROVE  p \notin Referred'
    <2>1. Of(p, DOMAIN refs)' = {}
      BY <1>11, <1>4
    <2>2. QED
      BY <2>1 DEF Of, Referred
  <1>12. MediaInv'
    <2>1. DOMAIN refs' \subseteq 1 .. stored'
      BY <1>1, <1>8 DEF MediaSafe, MediaInv
    <2>2. Referred' \cap Doomed' \subseteq raced'
      BY <1>7, <1>8, <1>10, <1>11 DEF MediaSafe, MediaInv
    <2>3. ASSUME NEW p \in borrowed' PROVE ~states'[p].eligible
      <3>1. p \in Paths /\ ~states[p].eligible
            /\ states[p] \in [count: 0 .. MaxRefs, eligible: BOOLEAN]
        BY <1>8 DEF MediaSafe, MediaInv, MediaTypeOK
      <3>2. CASE LastGoes(p, some)
        <4>1. states'[p] = Nobody
          BY <3>1, <3>2, <1>2
        <4>2. QED
          BY <4>1 DEF Nobody
      <3>3. CASE ~LastGoes(p, some)
        <4>1. states'[p].eligible = states[p].eligible
          BY <3>1, <3>3, <1>2
        <4>2. QED
          BY <3>1, <4>1
      <3>4. QED
        BY <3>2, <3>3
    <2>4. QED
      BY <2>1, <2>2, <2>3 DEF MediaInv
  <1>13. MediaIsKept'
    <2>1. ReferredIsThere'
      BY <1>1, <1>8 DEF MediaSafe, MediaIsKept, ReferredIsThere
    <2>2. BorrowedIsKept'
      BY <1>7, <1>8 DEF MediaSafe, MediaInv, MediaIsKept, BorrowedIsKept
    <2>3. CountsAgree'
      BY <1>5 DEF CountsAgree
    <2>4. QED
      BY <2>1, <2>2, <2>3 DEF MediaIsKept
  <1>14. QED
    BY <1>9, <1>12, <1>13 DEF MediaSafe

(* What os.Remove takes away has no reference and no borrower, or it raced.   *)
LEMMA RemoveMedia ==
    ASSUME MediaSafe, NEW a \in Releasers, Remove(a)
    PROVE  MediaSafe'
  <1>1. PICK p \in doomed[a] : /\ doomed' = [doomed EXCEPT ![a] = @ \ {p}]
                               /\ disk' = disk \ {p}
    BY DEF Remove
  <1>2. p \in Doomed /\ Doomed' \subseteq Doomed
    BY <1>1 DEF Doomed, MediaSafe, MediaTypeOK
  <1>3. UNCHANGED <<refs, states, storing, stored, borrowed, raced>>
    BY DEF Remove
  <1>4. MediaTypeOK'
    <2>1. doomed' \in [Releasers -> SUBSET Paths]
      BY <1>1 DEF MediaSafe, MediaTypeOK
    <2>2. QED
      BY <1>1, <1>3, <2>1 DEF MediaSafe, MediaTypeOK
  <1>5. MediaInv'
    BY <1>2, <1>3 DEF MediaSafe, MediaInv, Referred
  <1>6. MediaIsKept'
    <2>1. ReferredIsThere'
      BY <1>1, <1>2, <1>3 DEF MediaSafe, MediaInv, MediaIsKept, ReferredIsThere, Referred
    <2>2. BorrowedIsKept'
      BY <1>1, <1>2, <1>3 DEF MediaSafe, MediaIsKept, BorrowedIsKept
    <2>3. CountsAgree'
      BY <1>3 DEF MediaSafe, MediaIsKept, CountsAgree, Of
    <2>4. QED
      BY <2>1, <2>2, <2>3 DEF MediaIsKept
  <1>7. QED
    BY <1>4, <1>5, <1>6 DEF MediaSafe

LEMMA NextMedia ==
    ASSUME MediaAssumption, MediaSafe, [MediaNext]_mediaVars
    PROVE  MediaSafe'
  <1>1. ASSUME NEW s \in Scopes, Stat(s) PROVE MediaSafe'
    BY <1>1, StatMedia
  <1>2. ASSUME NEW s \in Scopes, Register(s) PROVE MediaSafe'
    BY <1>2, RegisterMedia
  <1>3. ASSUME NEW s \in Scopes, ReleaseAll(s) PROVE MediaSafe'
    <2> DEFINE some == {r \in DOMAIN refs : refs[r].scope = s}
    <2>1. s \in Releasers /\ some \in SUBSET DOMAIN refs /\ doomed[s] = {} /\ Released(s, some)
      BY <1>3 DEF ReleaseAll, Releasers
    <2>2. QED
      BY <2>1, ReleasedMedia
  <1>4. ASSUME CleanExpired PROVE MediaSafe'
    <2>1. PICK newest \in DOMAIN refs : Released("cleaner", {r \in DOMAIN refs : r <= newest})
      BY <1>4 DEF CleanExpired
    <2> DEFINE some == {r \in DOMAIN refs : r <= newest}
    <2>2. /\ "cleaner" \in Releasers /\ some \in SUBSET DOMAIN refs
          /\ doomed["cleaner"] = {} /\ Released("cleaner", some)
      BY <1>4, <2>1 DEF CleanExpired, Releasers
    <2>3. QED
      BY <2>2, ReleasedMedia
  <1>5. ASSUME NEW a \in Releasers, Remove(a) PROVE MediaSafe'
    BY <1>5, RemoveMedia
  <1>6. ASSUME UNCHANGED mediaVars PROVE MediaSafe'
    BY <1>6 DEF mediaVars, MediaSafe, MediaTypeOK, MediaInv, MediaIsKept, ReferredIsThere,
       BorrowedIsKept, CountsAgree, Of, Referred, Doomed
  <1>7. QED
    BY <1>1, <1>2, <1>3, <1>4, <1>5, <1>6 DEF MediaNext

LEMMA MediaAlways == ASSUME MediaAssumption PROVE MediaSpec => []MediaSafe
  BY InitMedia, NextMedia, PTL DEF MediaSpec

(* The store's state stays within its types: a count never leaves the range   *)
(* from zero to the number of references.                                     *)
THEOREM MediaTypeCorrect == ASSUME MediaAssumption PROVE MediaSpec => []MediaTypeOK
  <1>1. MediaSafe => MediaTypeOK
    BY DEF MediaSafe
  <1>2. QED
    BY <1>1, MediaAlways, PTL

(* A reference has its file, a borrowed file is not deleted and the counts    *)
(* are those of the references (pkg/media/store.go), however stores, releases *)
(* of scopes, the cleaner and the deletions after the lock interleave.        *)
THEOREM MediaIsKeptCorrect == ASSUME MediaAssumption PROVE MediaSpec => []MediaIsKept
  <1>1. MediaSafe => MediaIsKept
    BY DEF MediaSafe
  <1>2. QED
    BY <1>1, MediaAlways, PTL

-----------------------------------------------------------------------------
-----------------------------------------------------------------------------
(* Launcher.                                                                 *)

(* A client's request, as LauncherTypeOK has it.                             *)
Requests == [do: {"none", "start", "autostart", "stop", "restart", "status"},
             at: {"idle", "read", "act", "mark", "end", "wait", "refuse", "fail", "spawn"},
             pid: 0 .. MaxProcs, prev: Handle]

LauncherTypes ==
    /\ proc \in [Pids -> {"none", "spawned", "bound", "up", "closing", "dead", "reaped"}]
    /\ told \in SUBSET Pids /\ waiting \in SUBSET Pids /\ probing \in SUBSET Pids
    /\ loose \in SUBSET Pids
    /\ pidfile \in 0 .. MaxProcs /\ cmd \in Handle /\ owned \in BOOLEAN /\ on \in BOOLEAN
    /\ status \in {"stopped", "starting", "restarting", "running", "error"}
    /\ request \in [Clients -> Requests]
    /\ requestsLeft \in 0 .. MaxRequests /\ attached \in 0 .. MaxRequests

(* Every attachment has used up a request.                                   *)
Busy == {c \in Clients : request[c] # Idle}
RequestsInv == attached + requestsLeft + Cardinality(Busy) <= MaxRequests

(* While the launcher runs, the child it will stop is the one it tracks.     *)
StopsItsChild ==
    \A p \in Live : p \in told \cup loose \/ (on /\ owned /\ p = cmd.pid)

LauncherInv == LauncherTypes /\ RequestsInv /\ TrackedIsNotStopped /\ StopsItsChild

LEMMA LauncherFacts ==
    ASSUME LauncherAssumption
    PROVE  /\ NoCmd \in Handle /\ NoCmd.pid = 0 /\ Idle \in Requests /\ ~Alive(0)
           /\ \A p \in Pids : p # 0 /\ p \in 0 .. MaxProcs /\ Own(p) \in Handle /\ Own(p).pid = p
           /\ MaxRequests \in Nat /\ MaxProcs \in Nat /\ 0 \in 0 .. MaxRequests
           /\ 0 \in 0 .. MaxProcs
           /\ \A p : Alive(p) => p # 0 /\ Exists(p)
  <1>1. MaxRequests \in Nat /\ MaxProcs \in Nat /\ 0 \in 0 .. MaxRequests /\ 0 \in 0 .. MaxProcs
    BY DEF LauncherAssumption
  <1>2. NoCmd \in Handle /\ NoCmd.pid = 0
    BY <1>1 DEF NoCmd, Handle
  <1>3. Idle \in Requests
    BY <1>1, <1>2 DEF Idle, Requests
  <1>4. \A p \in Pids : p # 0 /\ p \in 0 .. MaxProcs /\ Own(p) \in Handle /\ Own(p).pid = p
    BY <1>1 DEF Pids, Own, Handle
  <1>5. ~Alive(0) /\ \A p : Alive(p) => p # 0 /\ Exists(p)
    BY DEF Alive, Exists
  <1>6. QED
    BY <1>1, <1>2, <1>3, <1>4, <1>5

LEMMA BusyFinite ==
    ASSUME LauncherAssumption
    PROVE  IsFiniteSet(Busy) /\ Cardinality(Busy) \in Nat
  <1>1. Busy \subseteq Clients
    BY DEF Busy
  <1>2. QED
    BY <1>1, FS_Subset, FS_CardinalityType DEF LauncherAssumption

(* A handler that answers makes room for one attachment; one that goes on     *)
(* does not.                                                                 *)
LEMMA AnswerCounts ==
    ASSUME LauncherAssumption, LauncherInv, NEW c \in Clients, request[c].at # "idle", Answer(c)
    PROVE  /\ request' \in [Clients -> Requests]
           /\ requestsLeft' = requestsLeft /\ attached' = attached => RequestsInv'
           /\ requestsLeft' = requestsLeft /\ attached' = attached + 1 =>
                  RequestsInv' /\ attached + 1 \in 0 .. MaxRequests
           /\ attached + 1 \in 0 .. MaxRequests
  <1>1. request' = [request EXCEPT ![c] = Idle] /\ request \in [Clients -> Requests]
    BY DEF Answer, LauncherInv, LauncherTypes
  <1>2. request' \in [Clients -> Requests]
    BY <1>1, LauncherFacts
  <1>3. c \in Busy /\ Busy' = Busy \ {c}
    BY <1>1 DEF Busy, Idle
  <1>4. /\ IsFiniteSet(Busy) /\ Cardinality(Busy) \in Nat /\ Cardinality(Busy') \in Nat
        /\ Cardinality(Busy') = Cardinality(Busy) - 1
    <2>1. IsFiniteSet(Busy) /\ Cardinality(Busy) \in Nat
      BY BusyFinite
    <2>2. IsFiniteSet(Busy \ {c}) /\ Cardinality(Busy \ {c}) = Cardinality(Busy) - 1
      BY <1>3, <2>1, FS_RemoveElement
    <2>3. Cardinality(Busy \ {c}) \in Nat
      BY <2>2, FS_CardinalityType
    <2>4. QED
      BY <1>3, <2>1, <2>2, <2>3
  <1>5. /\ attached + requestsLeft + Cardinality(Busy) <= MaxRequests
        /\ attached \in 0 .. MaxRequests /\ requestsLeft \in 0 .. MaxRequests
        /\ MaxRequests \in Nat
    BY LauncherFacts DEF LauncherInv, LauncherTypes, RequestsInv
  <1>6. Cardinality(Busy') = Cardinality(Busy)'
    OBVIOUS
  <1>7. QED
    BY <1>2, <1>4, <1>5 DEF RequestsInv

LEMMA ProceedCounts ==
    ASSUME LauncherAssumption, LauncherInv, NEW c \in Clients, request[c].at # "idle",
           NEW r \in Requests, r.at # "idle", request' = [request EXCEPT ![c] = r],
           UNCHANGED <<requestsLeft, attached>>
    PROVE  request' \in [Clients -> Requests] /\ RequestsInv'
  <1>1. request \in [Clients -> Requests] /\ r # Idle /\ request[c] # Idle
    BY DEF LauncherInv, LauncherTypes, Idle
  <1>2. request' \in [Clients -> Requests] /\ Busy' = Busy
    BY <1>1 DEF Busy
  <1>3. QED
    BY <1>2 DEF LauncherInv, RequestsInv

(* A step that starts no process.                                            *)
LEMMA LauncherKeeps ==
    ASSUME LauncherAssumption, LauncherInv, LauncherTypes', RequestsInv',
           \A p \in Pids : Alive(p)' => Alive(p),
           told \subseteq told', loose \subseteq loose', on' => on,
           on' /\ Alive(cmd.pid)' => status' \in {"starting", "restarting", "running"},
           \A p \in Live : on /\ owned /\ p = cmd.pid =>
               p \in told' \cup loose' \/ (on' /\ owned' /\ p = cmd'.pid)
    PROVE  LauncherInv'
  <1>1. Live' \subseteq Live
    BY DEF Live, Children, Alive
  <1>2. TrackedIsNotStopped'
    BY DEF TrackedIsNotStopped
  <1>3. StopsItsChild'
    BY <1>1 DEF LauncherInv, StopsItsChild
  <1>4. QED
    BY <1>2, <1>3 DEF LauncherInv

(* The step that starts one.                                                 *)
LEMMA SpawnKeeps ==
    ASSUME LauncherAssumption, LauncherInv, NEW initial \in {"starting", "restarting"},
           Spawn(initial), request' \in [Clients -> Requests], RequestsInv',
           UNCHANGED <<told, pidfile, on, requestsLeft, attached>>, on
    PROVE  LauncherInv'
  <1>1. PICK p \in Pids \ {External} :
            /\ proc' = [proc EXCEPT ![p] = "spawned"]
            /\ cmd' = Own(p) /\ owned' = TRUE /\ status' = initial /\ Loosen
            /\ waiting' = waiting \cup {p} /\ probing' = probing \cup {p}
    BY DEF Spawn
  <1>2. Live \subseteq Pids
    BY DEF Live, Children
  <1>3. loose' = loose \cup Live
    BY <1>1 DEF Loosen
  <1>4. LauncherTypes'
    BY <1>1, <1>2, <1>3, LauncherFacts DEF LauncherInv, LauncherTypes
  <1>5. TrackedIsNotStopped'
    BY <1>1 DEF TrackedIsNotStopped
  <1>6. \A q \in Pids \ {p} : q \in Live' => q \in Live
    BY <1>1 DEF Live, Children, Alive, LauncherInv, LauncherTypes
  <1>7. Live' \subseteq Pids /\ cmd'.pid = p
    BY <1>1, LauncherFacts DEF Live, Children
  <1>8. StopsItsChild'
    BY <1>1, <1>3, <1>6, <1>7 DEF StopsItsChild
  <1>9. QED
    BY <1>4, <1>5, <1>8 DEF LauncherInv

-----------------------------------------------------------------------------
(* What processes do by themselves.                                          *)
LEMMA ProcessKeeps ==
    ASSUME LauncherAssumption, LauncherInv, NEW p \in Pids,
           Bind(p) \/ WritePid(p) \/ Terminate(p) \/ Exit(p) \/ Die(p) \/ Reap(p)
    PROVE  LauncherInv'
  <1>1. /\ UNCHANGED <<cmd, owned, status, waiting, probing, request, on, requestsLeft,
                       attached, loose, told>>
        /\ \E state \in {"bound", "up", "closing", "dead", "reaped"} :
               /\ proc' = [proc EXCEPT ![p] = state]
               /\ proc[p] \in {"spawned", "bound", "up", "closing"} \/ state = "reaped"
        /\ proc[p] # "none"
        /\ pidfile' \in {pidfile, p, 0}
    BY LauncherFacts DEF Bind, WritePid, Terminate, Exit, Die, Reap, Alive, ProcessOnly
  <1>2. LauncherTypes'
    BY <1>1, LauncherFacts DEF LauncherInv, LauncherTypes
  <1>3. RequestsInv'
    BY <1>1 DEF LauncherInv, RequestsInv, Busy
  <1>4. \A q \in Pids : Alive(q)' => Alive(q)
    BY <1>1, LauncherFacts DEF Alive, LauncherInv, LauncherTypes
  <1>5. Alive(cmd.pid)' => Alive(cmd.pid)
    <2>1. cmd.pid \in Pids \/ cmd.pid = 0
      BY DEF LauncherInv, LauncherTypes, Handle, Pids, LauncherAssumption
    <2>2. QED
      BY <1>1, <1>4, <2>1 DEF Alive
  <1>6. QED
    BY <1>1, <1>2, <1>3, <1>4, <1>5, LauncherKeeps DEF LauncherInv, TrackedIsNotStopped

(* The goroutines of a start: they compare what is tracked with their own.   *)
LEMMA GoroutineKeeps ==
    ASSUME LauncherAssumption, LauncherInv, NEW p \in Pids,
           WaitReturned(p) \/ Probe(p) \/ ProbeEnds(p)
    PROVE  LauncherInv'
  <1>1. /\ UNCHANGED <<proc, told, request, on, requestsLeft, attached, loose, owned>> /\ on
        /\ waiting' \in SUBSET Pids /\ probing' \in SUBSET Pids
        /\ \/ UNCHANGED <<cmd, status>>
           \/ cmd' = cmd /\ status' = "running"
           \/ /\ cmd = Own(p) /\ proc[p] = "reaped" /\ cmd' = NoCmd
              /\ status' \in {"stopped", status}
    BY DEF WaitReturned, Probe, ProbeEnds, GoroutineOnly, LauncherInv, LauncherTypes
  <1>2. pidfile' \in 0 .. MaxProcs
    BY LauncherFacts
       DEF WaitReturned, Probe, ProbeEnds, LauncherInv, LauncherTypes
  <1>3. LauncherTypes'
    BY <1>1, <1>2, LauncherFacts DEF LauncherInv, LauncherTypes
  <1>4. RequestsInv'
    BY <1>1 DEF LauncherInv, RequestsInv, Busy
  <1>5. \A q : Alive(q)' <=> Alive(q)
    BY <1>1 DEF Alive
  <1>6. Alive(cmd.pid)' <=> Alive(cmd'.pid)
    BY <1>1 DEF Alive
  <1>7. cmd # cmd' => ~Alive(cmd.pid)
    BY <1>1, LauncherFacts DEF Alive
  <1>8. on' /\ Alive(cmd.pid)' => status' \in {"starting", "restarting", "running"}
    BY <1>1, <1>6, LauncherFacts DEF LauncherInv, TrackedIsNotStopped
  <1>9. \A q \in Live : on /\ owned /\ q = cmd.pid => on' /\ owned' /\ q = cmd'.pid
    BY <1>1, <1>7 DEF Live
  <1>10. QED
    BY <1>1, <1>3, <1>4, <1>5, <1>8, <1>9, LauncherKeeps

-----------------------------------------------------------------------------
(* The handlers.                                                             *)

LEMMA AskKeeps ==
    ASSUME LauncherAssumption, LauncherInv, NEW c \in Clients,
           NEW do \in {"start", "autostart", "stop", "restart", "status"}, Ask(c, do)
    PROVE  LauncherInv'
  <1> DEFINE at == CASE do \in {"start", "autostart", "status"} -> "read"
                     [] do = "stop" -> "act"
                     [] do = "restart" -> "mark"
             r == [request[c] EXCEPT !.do = do, !.at = at]
  <1>1. /\ on /\ request[c] = Idle /\ requestsLeft > 0 /\ requestsLeft' = requestsLeft - 1
        /\ request' = [request EXCEPT ![c].do = do, ![c].at = at]
        /\ UNCHANGED <<proc, waiting, probing, told, pidfile, cmd, owned, status, on, attached,
                       loose>>
    BY DEF Ask, NoSpawn
  <1>2. at \in {"read", "act", "mark"}
    OBVIOUS
  <1> HIDE DEF at
  <1>3. request[c] \in Requests /\ request \in [Clients -> Requests]
    BY DEF LauncherInv, LauncherTypes
  <1>4. r \in Requests /\ r.at = at /\ r # Idle
    BY <1>2, <1>3 DEF Requests, Idle
  <1>5. request' = [request EXCEPT ![c] = r]
    BY <1>1, <1>3 DEF Requests
  <1> HIDE DEF r
  <1>6. request' \in [Clients -> Requests] /\ Busy' = Busy \cup {c} /\ c \notin Busy
    <2>1. /\ request' \in [Clients -> Requests] /\ request'[c] # Idle
          /\ \A d \in Clients \ {c} : request'[d] = request[d]
      BY <1>3, <1>4, <1>5
    <2>2. c \notin Busy
      BY <1>1 DEF Busy
    <2>3. \A d \in Clients : request'[d] # Idle <=> d \in Busy \cup {c}
      BY <2>1 DEF Busy
    <2>4. Busy' = {d \in Clients : request'[d] # Idle} /\ Busy \subseteq Clients
      BY DEF Busy
    <2>5. Busy' = Busy \cup {c}
      BY <2>3, <2>4
    <2>6. QED
      BY <2>1, <2>2, <2>5
  <1>7. /\ Cardinality(Busy') = Cardinality(Busy) + 1 /\ Cardinality(Busy) \in Nat
    BY <1>6, BusyFinite, FS_AddElement
  <1>8. RequestsInv'
    BY <1>1, <1>7, LauncherFacts DEF LauncherInv, LauncherTypes, RequestsInv
  <1>9. LauncherTypes'
    BY <1>1, <1>6, LauncherFacts DEF LauncherInv, LauncherTypes
  <1>10. (\A q : Alive(q)' <=> Alive(q)) /\ (Alive(cmd.pid)' <=> Alive(cmd.pid))
    BY <1>1 DEF Alive
  <1>11. QED
    BY <1>1, <1>8, <1>9, <1>10, LauncherKeeps DEF LauncherInv, TrackedIsNotStopped

(* Handlers that neither start a process nor attach to one.                  *)
LEMMA HandlerKeeps ==
    ASSUME LauncherAssumption, LauncherInv, on, UNCHANGED <<on, proc, waiting, probing,
               requestsLeft, attached, loose>>,
           request' \in [Clients -> Requests], RequestsInv', pidfile' \in {pidfile, Found},
           \/ UNCHANGED <<told, cmd, owned, status>>
           \/ StopLocked
           \/ UNCHANGED <<told, cmd, owned>> /\ status' \in {"running", "restarting"}
           \/ /\ UNCHANGED told /\ ~Alive(cmd.pid) /\ cmd' = NoCmd /\ owned' \in BOOLEAN
              /\ status' \in {status, "error"}
    PROVE  LauncherInv'
  <1>1. cmd.pid \in Pids \/ ~Exists(cmd.pid)
    BY LauncherFacts DEF LauncherInv, LauncherTypes, Handle, Pids, Exists
  <1>2. LauncherTypes'
    BY <1>1, LauncherFacts DEF LauncherInv, LauncherTypes, StopLocked, Found
  <1>3. \A q : Alive(q)' <=> Alive(q)
    BY DEF Alive
  <1>4. Alive(cmd.pid)' <=> Alive(cmd'.pid)
    BY DEF Alive
  <1>5. on' /\ Alive(cmd.pid)' => status' \in {"starting", "restarting", "running"}
    BY <1>4, LauncherFacts DEF LauncherInv, TrackedIsNotStopped, StopLocked
  <1>6. /\ told \subseteq told'
        /\ \A q \in Live : on /\ owned /\ q = cmd.pid =>
               q \in told' \/ (on' /\ owned' /\ q = cmd'.pid)
    BY DEF Live, StopLocked
  <1>7. QED
    BY <1>2, <1>3, <1>5, <1>6, LauncherKeeps

(* Handlers that forget what is tracked, and know that it may live.          *)
LEMMA LooseKeeps ==
    ASSUME LauncherAssumption, LauncherInv, on, UNCHANGED <<on, proc, waiting, probing,
               requestsLeft, told, pidfile>>,
           request' \in [Clients -> Requests], RequestsInv', Loosen,
           cmd' \in Handle, owned' \in BOOLEAN, attached' \in 0 .. MaxRequests,
           \/ cmd' = NoCmd /\ status' \in {status, "stopped", "error"}
           \/ status' = "running"
    PROVE  LauncherInv'
  <1>1. Live \subseteq Pids /\ loose' = loose \cup Live
    BY DEF Live, Children, Loosen
  <1>2. LauncherTypes'
    BY <1>1 DEF LauncherInv, LauncherTypes
  <1>3. (\A q : Alive(q)' <=> Alive(q)) /\ (Alive(cmd.pid)' <=> Alive(cmd'.pid))
    BY DEF Alive
  <1>4. on' /\ Alive(cmd.pid)' => status' \in {"starting", "restarting", "running"}
    BY <1>3, LauncherFacts
  <1>5. QED
    BY <1>1, <1>2, <1>3, <1>4, LauncherKeeps

LEMMA ReadKeeps ==
    ASSUME LauncherAssumption, LauncherInv, NEW c \in Clients, Read(c)
    PROVE  LauncherInv'
  <1> DEFINE r == [request[c] EXCEPT !.at = "act", !.pid = Found]
  <1>1. /\ on /\ request[c].at = "read" /\ pidfile' = Found
        /\ request' = [request EXCEPT ![c].at = "act", ![c].pid = Found]
        /\ UNCHANGED <<proc, waiting, probing, told, cmd, owned, status, on, requestsLeft,
                       attached, loose>>
    BY DEF Read, CleanPidFile, NoSpawn
  <1>2. /\ request[c] \in Requests /\ request \in [Clients -> Requests]
        /\ Found \in 0 .. MaxProcs
    BY LauncherFacts DEF LauncherInv, LauncherTypes, Found
  <1>3. r \in Requests /\ r.at = "act"
    BY <1>2 DEF Requests
  <1>4. request' = [request EXCEPT ![c] = r]
    BY <1>1, <1>2 DEF Requests
  <1> HIDE DEF r
  <1>5. request' \in [Clients -> Requests] /\ RequestsInv'
    BY <1>1, <1>3, <1>4, ProceedCounts
  <1>6. QED
    BY <1>1, <1>5, HandlerKeeps

LEMMA StartHandlerKeeps ==
    ASSUME LauncherAssumption, LauncherInv, NEW c \in Clients, Start(c)
    PROVE  LauncherInv'
  <1>1. /\ on /\ request[c].at = "act" /\ Answer(c)
        /\ UNCHANGED <<told, pidfile, on, requestsLeft>>
    BY DEF Start, RequestAt
  <1>2. /\ request' \in [Clients -> Requests]
        /\ (attached' = attached => RequestsInv')
        /\ (attached' = attached + 1 => RequestsInv' /\ attached' \in 0 .. MaxRequests)
        /\ request[c].pid \in 0 .. MaxProcs
    <2>1. request[c].at # "idle" /\ requestsLeft' = requestsLeft
      BY <1>1
    <2>2. request[c].pid \in 0 .. MaxProcs
      BY DEF LauncherInv, LauncherTypes, Requests
    <2>3. QED
      BY <1>1, <2>1, <2>2, AnswerCounts
  <1>3. CASE Attach(request[c].pid) /\ NoSpawn
    <2>1. /\ cmd' = [pid |-> request[c].pid, number |-> attached + 1]
          /\ attached' = attached + 1 /\ owned' = FALSE /\ status' = "running" /\ Loosen
      BY <1>3 DEF Attach
    <2>2. cmd' \in Handle
      BY <1>2, <2>1 DEF Handle
    <2>3. QED
      BY <1>1, <1>2, <1>3, <2>1, <2>2, LooseKeeps DEF NoSpawn
  <1>4. CASE NoSpawn /\ UNCHANGED <<cmd, owned, status, attached, loose>>
    BY <1>1, <1>2, <1>4, HandlerKeeps DEF NoSpawn
  <1>5. CASE Spawn("starting") /\ UNCHANGED attached
    BY <1>1, <1>2, <1>5, SpawnKeeps
  <1>6. CASE /\ cmd' = NoCmd /\ Loosen /\ NoSpawn /\ UNCHANGED <<owned, attached>>
             /\ status' \in {status, "stopped"}
    <2>1. owned' \in BOOLEAN /\ attached' \in 0 .. MaxRequests /\ cmd' \in Handle
      BY <1>6, LauncherFacts DEF LauncherInv, LauncherTypes
    <2>2. QED
      BY <1>1, <1>2, <1>6, <2>1, LooseKeeps DEF NoSpawn
  <1>7. QED
    BY <1>3, <1>4, <1>5, <1>6 DEF Start

LEMMA StatusKeeps ==
    ASSUME LauncherAssumption, LauncherInv, NEW c \in Clients, Status(c)
    PROVE  LauncherInv'
  <1>1. /\ on /\ request[c].at = "act" /\ Answer(c)
        /\ UNCHANGED <<told, pidfile, on, requestsLeft, proc, waiting, probing>>
    BY DEF Status, RequestAt, NoSpawn
  <1>2. /\ request' \in [Clients -> Requests]
        /\ (attached' = attached => RequestsInv')
        /\ (attached' = attached + 1 => RequestsInv' /\ attached' \in 0 .. MaxRequests)
        /\ request[c].pid \in 0 .. MaxProcs
    <2>1. request[c].at # "idle" /\ requestsLeft' = requestsLeft
      BY <1>1
    <2>2. request[c].pid \in 0 .. MaxProcs
      BY DEF LauncherInv, LauncherTypes, Requests
    <2>3. QED
      BY <1>1, <2>1, <2>2, AnswerCounts
  <1>3. CASE Attach(request[c].pid)
    <2>1. /\ cmd' = [pid |-> request[c].pid, number |-> attached + 1]
          /\ attached' = attached + 1 /\ owned' = FALSE /\ status' = "running" /\ Loosen
      BY <1>3 DEF Attach
    <2>2. cmd' \in Handle
      BY <1>2, <2>1 DEF Handle
    <2>3. QED
      BY <1>1, <1>2, <2>1, <2>2, LooseKeeps
  <1>4. CASE UNCHANGED <<cmd, owned, attached, loose>> /\ status' \in {"running", status}
    BY <1>1, <1>2, <1>4, HandlerKeeps
  <1>5. CASE /\ ~Alive(cmd.pid) /\ cmd' = NoCmd /\ owned' = FALSE
             /\ UNCHANGED <<status, attached, loose>>
    BY <1>1, <1>2, <1>5, HandlerKeeps
  <1>6. QED
    BY <1>3, <1>4, <1>5, LauncherFacts DEF Status

LEMMA StopHandlerKeeps ==
    ASSUME LauncherAssumption, LauncherInv, NEW c \in Clients, Stop(c)
    PROVE  LauncherInv'
  <1>1. /\ on /\ request[c].at = "act" /\ Answer(c) /\ StopLocked
        /\ UNCHANGED <<pidfile, on, requestsLeft, proc, waiting, probing, attached, loose>>
    BY DEF Stop, RequestAt, NoSpawn
  <1>2. request' \in [Clients -> Requests] /\ RequestsInv'
    BY <1>1, AnswerCounts
  <1>3. QED
    BY <1>1, <1>2, HandlerKeeps

(* RestartGateway.                                                           *)
LEMMA RestartStepCounts ==
    ASSUME LauncherAssumption, LauncherInv, NEW c \in Clients, request[c].at # "idle",
           NEW at \in {"wait", "spawn", "refuse", "fail"}, StepTo(c, at),
           UNCHANGED <<requestsLeft, attached>>
    PROVE  request' \in [Clients -> Requests] /\ RequestsInv'
  <1> DEFINE r == [request[c] EXCEPT !.at = at]
  <1>1. request[c] \in Requests /\ request \in [Clients -> Requests]
    BY DEF LauncherInv, LauncherTypes
  <1>2. r \in Requests /\ r.at = at /\ request' = [request EXCEPT ![c] = r]
    BY <1>1 DEF Requests, StepTo
  <1> HIDE DEF r
  <1>3. QED
    BY <1>2, ProceedCounts

LEMMA RestartKeeps ==
    ASSUME LauncherAssumption, LauncherInv, NEW c \in Clients,
           \/ RestartMark(c) \/ RestartEnd(c) \/ RestartKill(c) \/ RestartWait(c)
           \/ RestartGivesUp(c) \/ RestartRefused(c) \/ RestartFails(c) \/ RestartSpawn(c)
    PROVE  LauncherInv'
  <1>1. request[c] \in Requests /\ request \in [Clients -> Requests] /\ cmd \in Handle
    BY DEF LauncherInv, LauncherTypes
  <1>2. CASE RestartMark(c)
    <2> DEFINE r == [request[c] EXCEPT !.at = "end", !.prev = cmd]
    <2>1. r \in Requests /\ r.at = "end"
      BY <1>1 DEF Requests
    <2>2. request' = [request EXCEPT ![c] = r]
      BY <1>1, <1>2 DEF RestartMark, Requests
    <2> HIDE DEF r
    <2>3. request[c].at = "mark" /\ on /\ status' = "restarting"
          /\ UNCHANGED <<told, pidfile, cmd, owned, on, requestsLeft, attached, loose,
                         proc, waiting, probing>>
      BY <1>2 DEF RestartMark, RequestAt, NoSpawn
    <2>4. request' \in [Clients -> Requests] /\ RequestsInv'
      BY <2>1, <2>2, <2>3, ProceedCounts
    <2>5. QED
      BY <2>3, <2>4, HandlerKeeps
  <1>3. CASE RestartEnd(c)
    <2>1. /\ request[c].at = "end" /\ on
          /\ UNCHANGED <<pidfile, cmd, owned, status, on, requestsLeft, attached, loose,
                         proc, waiting, probing>>
          /\ \E at \in {"wait", "spawn", "refuse"} : StepTo(c, at)
          /\ \/ told' = told
             \/ Exists(request[c].prev.pid) /\ told' = told \cup {request[c].prev.pid}
      BY <1>3 DEF RestartEnd, RequestAt, NoSpawn
    <2>2. request' \in [Clients -> Requests] /\ RequestsInv'
      BY <2>1, RestartStepCounts
    <2>3. told' \in SUBSET Pids /\ told \subseteq told'
      <3>1. request[c].prev.pid \in 0 .. MaxProcs /\ told \in SUBSET Pids
        BY <1>1 DEF Requests, Handle, LauncherInv, LauncherTypes
      <3>2. Exists(request[c].prev.pid) => request[c].prev.pid \in Pids
        BY <3>1, LauncherFacts DEF Pids, Exists, LauncherInv, LauncherTypes
      <3>3. QED
        BY <2>1, <3>1, <3>2
    <2>4. LauncherTypes'
      BY <2>1, <2>2, <2>3 DEF LauncherInv, LauncherTypes
    <2>5. (\A q : Alive(q)' <=> Alive(q)) /\ (Alive(cmd.pid)' <=> Alive(cmd.pid))
      BY <2>1 DEF Alive
    <2>6. QED
      BY <2>1, <2>2, <2>3, <2>4, <2>5, LauncherKeeps DEF LauncherInv, TrackedIsNotStopped
  <1>4. CASE RestartKill(c)
    <2> DEFINE p == request[c].prev.pid
    <2>1. /\ on
          /\ proc' = [proc EXCEPT ![p] = "dead"]
          /\ UNCHANGED <<told, pidfile, cmd, owned, status, waiting, probing, request, on,
                         requestsLeft, attached, loose>>
      BY <1>4 DEF RestartKill, RequestAt
    <2>2. request' \in [Clients -> Requests] /\ RequestsInv'
      BY <1>1, <2>1 DEF LauncherInv, RequestsInv, Busy
    <2>3. LauncherTypes'
      BY <2>1, <2>2 DEF LauncherInv, LauncherTypes
    <2>4. (\A q \in Pids : Alive(q)' => Alive(q)) /\ (Alive(cmd.pid)' => Alive(cmd.pid))
      <3>1. cmd.pid = 0 \/ cmd.pid \in Pids
        BY <1>1, LauncherFacts DEF Handle, Pids
      <3>2. \A q \in Pids : proc'[q] \in {proc[q], "dead"}
        BY <2>1 DEF LauncherInv, LauncherTypes
      <3>3. QED
        BY <2>1, <3>1, <3>2 DEF Alive
    <2>5. QED
      BY <2>1, <2>2, <2>3, <2>4, LauncherKeeps DEF LauncherInv, TrackedIsNotStopped
  <1>5. CASE RestartWait(c) \/ RestartGivesUp(c)
    <2>1. /\ request[c].at # "idle" /\ on /\ \E at \in {"spawn", "fail"} : StepTo(c, at)
          /\ UNCHANGED <<told, pidfile, cmd, owned, status, on, requestsLeft, attached, loose,
                         proc, waiting, probing>>
      BY <1>5 DEF RestartWait, RestartGivesUp, RequestAt, NoSpawn
    <2>2. request' \in [Clients -> Requests] /\ RequestsInv'
      BY <2>1, RestartStepCounts
    <2>3. QED
      BY <2>1, <2>2, HandlerKeeps
  <1>6. CASE RestartRefused(c)
    <2>1. /\ request[c].at # "idle" /\ on /\ Answer(c) /\ status' \in {"running", status}
          /\ UNCHANGED <<told, pidfile, cmd, owned, on, requestsLeft, attached, loose, proc,
                         waiting, probing>>
      BY <1>6 DEF RestartRefused, RequestAt, NoSpawn
    <2>2. request' \in [Clients -> Requests] /\ RequestsInv'
      BY <2>1, AnswerCounts
    <2>3. QED
      BY <2>1, <2>2, HandlerKeeps
  <1>7. CASE RestartFails(c)
    <2>1. /\ request[c].at # "idle" /\ on /\ Answer(c)
          /\ UNCHANGED <<told, pidfile, owned, on, requestsLeft, attached, loose, proc,
                         waiting, probing>>
          /\ \/ UNCHANGED <<cmd, status>>
             \/ cmd' = cmd /\ status' = "running"
             \/ ~Alive(cmd.pid) /\ cmd' = NoCmd /\ status' = "error"
      BY <1>7, LauncherFacts DEF RestartFails, RequestAt, NoSpawn
    <2>2. request' \in [Clients -> Requests] /\ RequestsInv' /\ owned' \in BOOLEAN
      BY <2>1, AnswerCounts DEF LauncherInv, LauncherTypes
    <2>3. QED
      BY <2>1, <2>2, HandlerKeeps
  <1>8. CASE RestartSpawn(c)
    <2>1. /\ request[c].at # "idle" /\ on /\ Answer(c)
          /\ UNCHANGED <<told, pidfile, on, requestsLeft, attached>>
          /\ \/ Spawn("restarting")
             \/ cmd' = NoCmd /\ status' = "error" /\ Loosen /\ NoSpawn /\ UNCHANGED owned
      BY <1>8 DEF RestartSpawn, RequestAt
    <2>2. request' \in [Clients -> Requests] /\ RequestsInv'
      BY <2>1, AnswerCounts
    <2>3. CASE Spawn("restarting")
      BY <2>1, <2>2, <2>3, SpawnKeeps
    <2>4. CASE cmd' = NoCmd /\ status' = "error" /\ Loosen /\ NoSpawn /\ UNCHANGED owned
      <3>1. owned' \in BOOLEAN /\ attached' \in 0 .. MaxRequests /\ cmd' \in Handle
        BY <2>1, <2>4, LauncherFacts DEF LauncherInv, LauncherTypes
      <3>2. QED
        BY <2>1, <2>2, <2>4, <3>1, LooseKeeps DEF NoSpawn
    <2>5. QED
      BY <2>1, <2>3, <2>4
  <1>9. QED
    BY <1>2, <1>3, <1>4, <1>5, <1>6, <1>7, <1>8

LEMMA ShutdownKeeps ==
    ASSUME LauncherAssumption, LauncherInv, Shutdown
    PROVE  LauncherInv'
  <1>1. /\ on /\ on' = FALSE /\ requestsLeft' = 0 /\ waiting' = {} /\ probing' = {}
        /\ request' = [c \in Clients |-> Idle]
        /\ UNCHANGED <<proc, pidfile, attached, loose>>
        /\ IF owned THEN StopLocked ELSE UNCHANGED <<told, cmd, owned, status>>
    BY DEF Shutdown
  <1>2. cmd.pid \in Pids \/ ~Exists(cmd.pid)
    BY LauncherFacts DEF LauncherInv, LauncherTypes, Handle, Pids, Exists
  <1>3. LauncherTypes'
    BY <1>1, <1>2, LauncherFacts DEF LauncherInv, LauncherTypes, StopLocked
  <1>4. RequestsInv'
    <2>1. Busy' = {}
      BY <1>1 DEF Busy
    <2>2. Cardinality(Busy') = 0
      BY <2>1, FS_EmptySet
    <2>3. QED
      BY <1>1, <2>2, LauncherFacts DEF RequestsInv, LauncherInv, LauncherTypes
  <1>5. \A q : Alive(q)' <=> Alive(q)
    BY <1>1 DEF Alive
  <1>6. /\ told \subseteq told'
        /\ \A q \in Live : on /\ owned /\ q = cmd.pid => q \in told'
    BY <1>1, LauncherFacts DEF Live, StopLocked, IsGateway
  <1>7. QED
    BY <1>1, <1>3, <1>4, <1>5, <1>6, LauncherKeeps

LEMMA LauncherInvAlways ==
    ASSUME LauncherAssumption
    PROVE  LauncherSpec => []LauncherInv
  <1>1. ASSUME LauncherInit PROVE LauncherInv
    <2>1. LauncherTypes
      <3>1. External \in 0 .. MaxProcs /\ MaxRequests \in 0 .. MaxRequests
        BY LauncherFacts DEF External
      <3>2. QED
        BY <1>1, <3>1, LauncherFacts DEF LauncherInit, LauncherTypes
    <2>2. RequestsInv
      <3>1. Busy = {}
        BY <1>1 DEF LauncherInit, Busy
      <3>2. Cardinality(Busy) = 0
        BY <3>1, FS_EmptySet
      <3>3. QED
        BY <1>1, <3>2, LauncherFacts DEF LauncherInit, RequestsInv
    <2>3. TrackedIsNotStopped
      BY <1>1, LauncherFacts DEF LauncherInit, TrackedIsNotStopped
    <2>4. StopsItsChild
      BY <1>1 DEF LauncherInit, StopsItsChild, Live, Children
    <2>5. QED
      BY <2>1, <2>2, <2>3, <2>4 DEF LauncherInv
  <1>2. ASSUME LauncherInv, [LauncherNext]_launchVars PROVE LauncherInv'
    <2>1. CASE UNCHANGED launchVars
      <3>1. (\A q : Alive(q)' <=> Alive(q)) /\ (Alive(cmd.pid)' <=> Alive(cmd.pid))
        BY <2>1 DEF launchVars, Alive
      <3>2. LauncherTypes' /\ RequestsInv'
        BY <1>2, <2>1 DEF launchVars, LauncherInv, LauncherTypes, RequestsInv, Busy
      <3>3. QED
        BY <1>2, <2>1, <3>1, <3>2, LauncherKeeps DEF launchVars, LauncherInv, TrackedIsNotStopped
    <2>2. QED
      BY <1>2, <2>1, ProcessKeeps, GoroutineKeeps, AskKeeps, ReadKeeps, StartHandlerKeeps,
         StopHandlerKeeps, StatusKeeps, RestartKeeps, ShutdownKeeps DEF LauncherNext
  <1>3. QED
    BY <1>1, <1>2, PTL DEF LauncherSpec

(* Every variable of the launcher keeps its type; in particular attaching is  *)
(* bounded by the requests.                                                  *)
THEOREM LauncherTypeCorrect ==
    ASSUME LauncherAssumption
    PROVE  LauncherSpec => []LauncherTypeOK
  <1>1. ASSUME LauncherInv PROVE LauncherTypeOK
    BY <1>1 DEF LauncherInv, LauncherTypes, LauncherTypeOK, Requests
  <1>2. QED
    BY <1>1, LauncherInvAlways, PTL

(* A live process the launcher tracks is never shown as stopped, and a child  *)
(* that outlives the launcher was told to stop, unless it lived when a        *)
(* handler attached or started another.                                       *)
THEOREM LauncherKeepsTrackCorrect ==
    ASSUME LauncherAssumption
    PROVE  LauncherSpec => []LauncherKeepsTrack
  <1>1. ASSUME LauncherInv PROVE LauncherKeepsTrack
    BY <1>1 DEF LauncherInv, StopsItsChild, LauncherKeepsTrack, ChildrenAreStopped
  <1>2. QED
    BY <1>1, LauncherInvAlways, PTL
=============================================================================
