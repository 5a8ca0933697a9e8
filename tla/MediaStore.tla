------------------------------- MODULE MediaStore -------------------------------
(* The media store: references to files, counted by path.  A release takes    *)
(* the references out under the store's lock and deletes the files after it,   *)
(* so that a Store of the same path may come between.                         *)
EXTENDS Integers, FiniteSets

CONSTANTS
    Paths,   \* files, all there at first
    Scopes,
    MaxRefs  \* bound: references

MediaAssumption == MaxRefs \in Nat

VARIABLES
    refs,     \* live references, numbered as they come: [path, policy, scope]
    states,   \* pathStates: references of a path, whether the last deletes it
    storing,  \* Store between os.Stat and the lock, by its scope
    doomed,   \* files a release is about to delete
    disk,     \* files there are
    stored,   \* references so far
    borrowed, \* history: paths stored as forget_only since they last had no reference
    raced     \* history: paths stored while their deletion was under way

mediaVars == <<refs, states, storing, doomed, disk, stored, borrowed, raced>>

Policies == {"delete_on_cleanup", "forget_only"}
Ref == [path: Paths, policy: Policies, scope: Scopes]
NotStoring == [path |-> "none", policy |-> "none", scope |-> "none"]
Nobody == [count |-> 0, eligible |-> FALSE]

(* Who deletes: the cleaner and a ReleaseAll of each scope.                   *)
Releasers == Scopes \cup {"cleaner"}

MediaTypeOK ==
    /\ DOMAIN refs \subseteq 1 .. MaxRefs /\ \A r \in DOMAIN refs : refs[r] \in Ref
    /\ states \in [Paths -> [count: 0 .. MaxRefs, eligible: BOOLEAN]]
    /\ storing \in [Scopes -> Ref \cup {NotStoring}]
    /\ doomed \in [Releasers -> SUBSET Paths]
    /\ {disk, borrowed, raced} \subseteq SUBSET Paths /\ stored \in 0 .. MaxRefs

MediaInit ==
    /\ refs = <<>> /\ states = [p \in Paths |-> Nobody]
    /\ storing = [s \in Scopes |-> NotStoring] /\ doomed = [a \in Releasers |-> {}]
    /\ disk = Paths /\ stored = 0 /\ borrowed = {} /\ raced = {}

-----------------------------------------------------------------------------
(* Store, which looks for the file before it takes the lock.                  *)

Stat(s) ==
    /\ storing[s] = NotStoring
    /\ \E p \in disk, policy \in Policies :
          storing' = [storing EXCEPT ![s] = [path |-> p, policy |-> policy, scope |-> s]]
    /\ UNCHANGED <<refs, states, doomed, disk, stored, borrowed, raced>>

EligibleAnew(state, policy) ==
    policy = "delete_on_cleanup"

(* The first reference of a path decides whether the last one deletes it; a  *)
(* forget_only one after it only forbids.                                    *)
Eligible(state, policy) ==
    IF state.count = 0 THEN policy = "delete_on_cleanup"
    ELSE state.eligible /\ policy # "forget_only"

Doomed == UNION {doomed[a] : a \in Releasers}

Register(s) ==
    LET new == storing[s] IN
    /\ new # NotStoring /\ stored < MaxRefs
    /\ stored' = stored + 1 /\ storing' = [storing EXCEPT ![s] = NotStoring]
    /\ refs' = [r \in DOMAIN refs \cup {stored + 1} |->
                   IF r = stored + 1 THEN new ELSE refs[r]]
    /\ states' = [states EXCEPT ![new.path] =
                     [count |-> @.count + 1, eligible |-> Eligible(@, new.policy)]]
    /\ borrowed' = IF new.policy = "forget_only" THEN borrowed \cup {new.path}
                   ELSE IF states[new.path].count = 0 THEN borrowed \ {new.path}
                   ELSE borrowed
    /\ raced' = IF new.path \in Doomed \/ new.path \notin disk
                THEN raced \cup {new.path} ELSE raced
    /\ UNCHANGED <<doomed, disk>>

-----------------------------------------------------------------------------
(* releaseRefLocked for some references, under one lock; what deletes a path *)
(* is its last one.                                                          *)

Of(p, some) == {r \in some : refs[r].path = p}
LastGoes(p, some) == Of(p, some) # {} /\ Cardinality(Of(p, some)) >= states[p].count

Released(a, some) ==
    /\ refs' = [r \in DOMAIN refs \ some |-> refs[r]]
    /\ states' = [p \in Paths |->
                     IF LastGoes(p, some) THEN Nobody
                     ELSE [states[p] EXCEPT !.count = @ - Cardinality(Of(p, some))]]
    /\ doomed' = [doomed EXCEPT ![a] =
                     {p \in Paths : LastGoes(p, some) /\ states[p].eligible}]
    /\ UNCHANGED <<storing, disk, stored, borrowed, raced>>

ReleaseAll(s) ==
    /\ doomed[s] = {} /\ \E r \in DOMAIN refs : refs[r].scope = s
    /\ Released(s, {r \in DOMAIN refs : refs[r].scope = s})

(* CleanExpired: the references older than MaxAge.                           *)
CleanExpired ==
    /\ doomed["cleaner"] = {}
    /\ \E newest \in DOMAIN refs : Released("cleaner", {r \in DOMAIN refs : r <= newest})

(* os.Remove, without the lock.                                              *)
Remove(a) ==
    /\ \E p \in doomed[a] : /\ doomed' = [doomed EXCEPT ![a] = @ \ {p}]
                            /\ disk' = disk \ {p}
    /\ UNCHANGED <<refs, states, storing, stored, borrowed, raced>>

MediaNext ==
    \/ \E s \in Scopes : Stat(s) \/ Register(s) \/ ReleaseAll(s)
    \/ CleanExpired \/ \E a \in Releasers : Remove(a)

MediaSpec == MediaInit /\ [][MediaNext]_mediaVars

-----------------------------------------------------------------------------
(* A reference resolves to a file that is there, and nothing deletes a file  *)
(* that was borrowed (store.go: "once a path is borrowed externally, never   *)
(* let this lifecycle auto-delete it"): references of other scopes and       *)
(* policies come and go over it.  Only a Store that raced with the deletion  *)
(* of its own path breaks either.                                            *)
ReferredIsThere == \A r \in DOMAIN refs : refs[r].path \in disk \cup raced
BorrowedIsKept == borrowed \cap Doomed \subseteq raced /\ borrowed \subseteq disk \cup raced

(* The counts are those of the references, without which a path would be     *)
(* deleted early or never.                                                   *)
CountsAgree == \A p \in Paths : states[p].count = Cardinality(Of(p, DOMAIN refs))

MediaIsKept == ReferredIsThere /\ BorrowedIsKept /\ CountsAgree
=============================================================================
