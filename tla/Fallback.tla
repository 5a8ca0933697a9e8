------------------------------- MODULE Fallback -------------------------------
(* The fallback chain all turns share: calls that try their candidates in      *)
(* order, the cooldowns failures set and the token buckets that limit the rate *)
(* (pkg/providers/fallback.go, cooldown.go, ratelimiter.go).  A chain has two   *)
(* candidates or more (pipeline_llm.go calls a single one directly).  Time is   *)
(* in ticks, and a tick refills a whole number of tokens; why a candidate       *)
(* failed is abstracted to the lack of credit ("billing") and other reasons.    *)
EXTENDS Integers, Sequences

CONSTANTS
    Calls,        \* LLM calls at the same time
    Candidates,   \* stable keys of candidates
    Chains,       \* the orders in which calls try them
    Standard,     \* cooldown after the n-th failure in a row, the last for all later
    Billing,      \* the same for the n-th failure for lack of credit
    Window,       \* the failure window
    Burst, Rate,  \* a bucket's size and the tokens it gains per tick
    MaxTime,      \* bound: ticks
    MaxChainCalls \* bound: calls

(* What the code's numbers have in common: cooldowns grow and none is longer   *)
(* than the window (1 h and 24 h in 24 h).                                     *)
FallbackAssumption ==
    /\ Chains \subseteq Seq(Candidates) \ {<<>>}
    /\ {Window, Burst, Rate, MaxTime, MaxChainCalls} \subseteq Nat
    /\ \A lengths \in {Standard, Billing} :
          /\ lengths \in Seq(0 .. Window) /\ lengths # <<>>
          /\ \A i, j \in DOMAIN lengths : i <= j => lengths[i] <= lengths[j]
    /\ Burst > 0

VARIABLES
    clock,
    entry,     \* CooldownTracker.entries
    bucket,    \* RateLimiterRegistry.limiters: tokens and lastTick
    call,      \* where each call is
    left,      \* calls left
    promised,  \* history: the latest end of a cooldown set since a candidate's last success
    granted    \* history: when calls of a candidate were let through

chainVars == <<clock, entry, bucket, call, left, promised, granted>>

Fresh == [errors |-> 0, billing |-> 0, end |-> 0, disabled |-> 0, failed |-> 0 - 1]
Resting == [at |-> "idle", chain |-> <<>>, image |-> FALSE, spared |-> TRUE]

ChainTypeOK ==
    /\ clock \in 0 .. MaxTime /\ left \in 0 .. MaxChainCalls
    /\ entry \in [Candidates -> [errors: 0 .. 2 * MaxChainCalls, billing: 0 .. 2 * MaxChainCalls,
                                 end: 0 .. MaxTime + Window, disabled: 0 .. MaxTime + Window,
                                 failed: -1 .. MaxTime]]
    /\ bucket \in [Candidates -> [tokens: 0 .. Burst + Rate * MaxTime, tick: 0 .. MaxTime]]
    /\ \A c \in Calls : call[c].at \in {"idle", "look", "acquire", "wait", "run"}
    /\ promised \in [Candidates -> 0 .. MaxTime + Window]
    /\ \A k \in Candidates : granted[k] \in Seq(0 .. MaxTime)

ChainInit ==
    /\ clock = 0 /\ left = MaxChainCalls
    /\ entry = [k \in Candidates |-> Fresh]
    /\ bucket = [k \in Candidates |-> [tokens |-> Burst, tick |-> 0]]
    /\ call = [c \in Calls |-> Resting]
    /\ promised = [k \in Candidates |-> 0] /\ granted = [k \in Candidates |-> <<>>]

Tick ==
    /\ clock < MaxTime /\ clock' = clock + 1
    /\ UNCHANGED <<entry, bucket, call, left, promised, granted>>

-----------------------------------------------------------------------------
At(c, place) == call[c].at = place
Candidate(c) == Head(call[c].chain)
Last(c) == Len(call[c].chain) = 1

(* IsAvailable.                                                              *)
Cooling(k) == clock < entry[k].disabled \/ clock < entry[k].end

Goto(c, place) == call' = [call EXCEPT ![c].at = place]

(* Try the next candidate, or return that all of them were tried.            *)
TryNext(c) ==
    call' = [call EXCEPT ![c] =
                IF Last(c) THEN Resting
                ELSE [call[c] EXCEPT !.at = "look", !.chain = Tail(@)]]
Return(c) == call' = [call EXCEPT ![c] = Resting]

TrackerSame == UNCHANGED <<entry, promised>>
BucketSame == UNCHANGED <<bucket, granted>>

(* ExecuteCandidate, or ExecuteImageCandidate for messages with pictures.    *)
Execute(c, chain, image) ==
    /\ At(c, "idle") /\ left > 0 /\ left' = left - 1
    /\ call' = [call EXCEPT ![c] = [at |-> "look", chain |-> chain, image |-> image,
                                    spared |-> TRUE]]
    /\ TrackerSame /\ BucketSame /\ UNCHANGED clock

(* A candidate in cooldown is skipped; calls with pictures do not look.      *)
Look(c) ==
    /\ At(c, "look")
    /\ IF ~call[c].image /\ Cooling(Candidate(c)) THEN TryNext(c)
       ELSE call' = [call EXCEPT ![c].at = "acquire", ![c].spared = TRUE]
    /\ TrackerSame /\ BucketSame /\ UNCHANGED <<clock, left>>

(* refillLocked.                                                             *)
RefilledUncapped(k) == bucket[k].tokens + (clock - bucket[k].tick) * Rate

Refilled(k) ==
    LET tokens == bucket[k].tokens + (clock - bucket[k].tick) * Rate
    IN  IF tokens < Burst THEN tokens ELSE Burst

Refill(k) == bucket' = [bucket EXCEPT ![k] = [tokens |-> Refilled(k), tick |-> clock]]

TakeToken(k) ==
    /\ Refilled(k) >= 1
    /\ bucket' = [bucket EXCEPT ![k] = [tokens |-> Refilled(k) - 1, tick |-> clock]]
    /\ granted' = [granted EXCEPT ![k] = Append(@, clock)]

(* TryAcquire; a saturated candidate is skipped unless it is the chain's     *)
(* last, whatever became of those before it.                                 *)
Acquire(c) ==
    LET k == Candidate(c)
    IN  /\ At(c, "acquire") /\ TrackerSame /\ UNCHANGED <<clock, left>>
        /\ \/ TakeToken(k) /\ Goto(c, "run")
           \/ /\ Refilled(k) < 1 /\ Refill(k) /\ UNCHANGED granted
              /\ IF Last(c) THEN Goto(c, "wait") ELSE TryNext(c)

(* Wait: another call may be faster when the timer has fired.  The cooldown   *)
(* is not looked at again.                                                    *)
Wait(c) ==
    /\ At(c, "wait") /\ TakeToken(Candidate(c)) /\ Goto(c, "run")
    /\ TrackerSame /\ UNCHANGED <<clock, left>>

-----------------------------------------------------------------------------
(* The provider's answer.                                                    *)

MarkSuccess(k) ==
    /\ entry' = [entry EXCEPT ![k] = [Fresh EXCEPT !.failed = entry[k].failed]]
    /\ promised' = [promised EXCEPT ![k] = 0]

CooldownOf(lengths, n) == lengths[IF n <= Len(lengths) THEN n ELSE Len(lengths)]

(* MarkFailure: its counts start anew once the last failure is long ago.     *)
MarkFailure(k, reason) ==
    LET old == entry[k]
        outside == old.failed >= 0 /\ clock - old.failed > Window
        errors == (IF outside THEN 0 ELSE old.errors) + 1
        billing == (IF outside THEN 0 ELSE old.billing) + (IF reason = "billing" THEN 1 ELSE 0)
        end == clock + (IF reason = "billing" THEN CooldownOf(Billing, billing)
                                              ELSE CooldownOf(Standard, errors))
    IN  /\ entry' = [entry EXCEPT ![k] =
              [errors |-> errors, billing |-> billing, failed |-> clock,
               end |-> IF reason = "billing" THEN old.end ELSE end,
               disabled |-> IF reason = "billing" THEN end ELSE old.disabled]]
        /\ promised' = [promised EXCEPT ![k] = IF end > @ THEN end ELSE @]

Succeed(c) ==
    /\ At(c, "run") /\ ~call[c].image /\ Return(c) /\ MarkSuccess(Candidate(c))
    /\ BucketSame /\ UNCHANGED <<clock, left>>

(* A failure worth another candidate; whoever has looked goes on against it. *)
Fail(c, reason) ==
    LET k == Candidate(c)
        next == IF Last(c) THEN Resting
                ELSE [call[c] EXCEPT !.at = "look", !.chain = Tail(@)]
        Late(d) == d # c /\ ~At(d, "idle") /\ Candidate(d) = k
    IN  /\ At(c, "run") /\ ~call[c].image /\ MarkFailure(k, reason)
        /\ call' = [d \in Calls |-> CASE d = c -> next
                                      [] Late(d) -> [call[d] EXCEPT !.spared = FALSE]
                                      [] OTHER -> call[d]]
        /\ BucketSame /\ UNCHANGED <<clock, left>>

(* An answer to a call with pictures leaves no mark on the candidate.        *)
AnswerImage(c) ==
    /\ At(c, "run") /\ call[c].image
    /\ Return(c) \/ TryNext(c)
    /\ TrackerSame /\ BucketSame /\ UNCHANGED <<clock, left>>

(* The caller cancels, or the failure is one that no other candidate would   *)
(* mend: nothing is marked.                                                  *)
Abort(c) ==
    /\ call[c].at \in {"look", "wait", "run"} /\ Return(c)
    /\ TrackerSame /\ BucketSame /\ UNCHANGED <<clock, left>>

-----------------------------------------------------------------------------
ChainNext ==
    \/ Tick
    \/ \E c \in Calls :
          \/ \E chain \in Chains, image \in BOOLEAN : Execute(c, chain, image)
          \/ Look(c) \/ Acquire(c) \/ Wait(c) \/ Succeed(c) \/ AnswerImage(c) \/ Abort(c)
          \/ \E reason \in {"billing", "other"} : Fail(c, reason)

ChainSpec == ChainInit /\ [][ChainNext]_chainVars

-----------------------------------------------------------------------------
(* Properties.                                                               *)

(* "max 3 requests per minute", whatever calls run at once and however long  *)
(* a bucket was idle: between any two calls a candidate gets no more than the *)
(* burst and what was refilled meanwhile.                                     *)
RateIsKept ==
    \A k \in Candidates : \A i, j \in DOMAIN granted[k] :
        i <= j => j - i + 1 <= Burst + Rate * (granted[k][j] - granted[k][i])

(* A cooldown holds until its end or the candidate's next success: a later    *)
(* failure, of another kind or counted anew after the failure window, does    *)
(* not make the candidate available earlier.                                  *)
CooldownHolds ==
    \A k \in Candidates :
        clock < promised[k] => promised[k] \in {entry[k].end, entry[k].disabled}

(* No call runs against a candidate before the end of its cooldown, unless    *)
(* the candidate failed for another call after this one had looked, while it   *)
(* waited for a token or for the answer.                                      *)
CoolingIsSpared ==
    \A c \in Calls :
        At(c, "run") /\ ~call[c].image /\ clock < promised[Candidate(c)] => ~call[c].spared

(* What the chain promises of its candidates.                                *)
CandidatesAreSpared == RateIsKept /\ CooldownHolds /\ CoolingIsSpared
=============================================================================
