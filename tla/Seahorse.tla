-------------------------------- MODULE Seahorse --------------------------------
(* The context of one session as the Seahorse context manager keeps it in     *)
(* SQLite, beside the history the session store keeps in JSONL: a row for each *)
(* message, and context items, each a message or a summary that stands for     *)
(* some.  The session's worker adds messages and summarises old ones while a   *)
(* goroutine condenses summaries; only the adding takes the session's lock.    *)
(* Each transaction is a step.  Token counts are left out: where they decide,  *)
(* the model may go either way.                                               *)
EXTENDS Integers, Sequences, FiniteSets, FiniteSetsExt, Functions

CONSTANTS
    OrdinalStep,        \* the gap between the ordinals of new items, 100
    FreshTailCount,     \* the newest items, which are left alone, 32
    LeafMinFanout,      \* messages a leaf summary needs, 8
    CondensedMinFanout, \* summaries taken of a depth that is not in front, 4
    OldSummaries,       \* leaf summaries the context begins with
    MaxSaid, MaxSummaries, MaxWipes, MaxMishaps \* bounds

SeahorseAssumption ==
    /\ {OrdinalStep, LeafMinFanout, CondensedMinFanout} \subseteq Nat \ {0}
    /\ {FreshTailCount, OldSummaries, MaxSaid, MaxSummaries, MaxWipes, MaxMishaps}
           \subseteq Nat
    /\ OldSummaries <= MaxSummaries /\ OldSummaries * LeafMinFanout <= MaxSaid

VARIABLES
    log,       \* the messages in the session's JSONL file
    rows,      \* table messages: the rows of the conversation
    items,     \* table context_items, by ordinal
    worker,    \* the session's worker: its turn, /clear, and Bootstrap before them
    condenser, \* compactCondensed, as the worker and as the goroutine call it
    said, made, wipes, mishaps, \* messages, summaries, calls of /clear, faults
    missed,    \* history: messages whose way into the context failed
    again,     \* history: messages Bootstrap added behind themselves or later ones
    wiped,     \* history: messages there had been when /clear was done
    overlap,   \* history: one condenser chose while the other was at work
    clash      \* history: one replaced a range that had changed since it read it

seaVars == <<log, rows, items, worker, condenser, said, made, wipes, mishaps, missed,
             again, wiped, overlap, clash>>

MessageIds == 1 .. MaxSaid
MessageDepth == -1

(* A message stands for itself and has no summary ID.                         *)
Item == [id: 0 .. MaxSummaries, depth: MessageDepth .. MaxSummaries,
         over: SUBSET MessageIds]
MessageItem(m) == [id |-> 0, depth |-> MessageDepth, over |-> {m}]

AtRest == [at |-> "idle", next |-> "idle", mark |-> 0, todo |-> <<>>, added |-> <<>>,
           span |-> <<0, 0>>, over |-> {}]
Off == [at |-> "off", id |-> 0, picks |-> {}, span |-> <<0, 0>>, each |-> FALSE,
        moved |-> FALSE]
Condensers == {"worker", "goroutine"}

ContextTypeOK ==
    /\ log \in Seq(MessageIds) /\ rows \in Seq(MessageIds)
    /\ DOMAIN items \subseteq Nat /\ Range(items) \subseteq Item
    /\ worker.at \in {"boot", "idle", "on", "rows", "leaf", "launch", "under", "condense",
                      "clearing"}
    /\ worker.next \in {"idle", "on", "launch", "under"}
    /\ worker.todo \in Seq(MessageIds) /\ worker.added \in Seq(MessageIds)
    /\ \A c \in Condensers : /\ condenser[c].at \in {"off", "pick", "llm", "swap"}
                             /\ condenser[c].picks \subseteq Item
    /\ said \in 0 .. MaxSaid /\ made \in 0 .. MaxSummaries
    /\ {missed, again, wiped} \subseteq SUBSET MessageIds
    /\ {overlap, clash} \subseteq BOOLEAN

(* A session whose messages so far are all in leaf summaries, or a new one.  *)
OldMessages == OldSummaries * LeafMinFanout
OldSummary(k) == [id |-> k, depth |-> 0,
                  over |-> (k - 1) * LeafMinFanout + 1 .. k * LeafMinFanout]

SeahorseInit ==
    /\ log = [m \in 1 .. OldMessages |-> m] /\ rows = log /\ worker = AtRest
    /\ items = [o \in {k * OrdinalStep : k \in 1 .. OldSummaries} |->
                   OldSummary(o \div OrdinalStep)]
    /\ condenser = [c \in Condensers |-> Off]
    /\ said = OldMessages /\ made = OldSummaries /\ wipes = 0 /\ mishaps = 0
    /\ missed = {} /\ again = {} /\ wiped = {} /\ overlap = FALSE /\ clash = FALSE

-----------------------------------------------------------------------------
(* The context items.                                                         *)

Ordinals == DOMAIN items
IsSummary(o) == items[o].depth # MessageDepth
Between(a, b) == {o \in Ordinals : a <= o /\ o <= b}
IdsIn(picks) == {i.id : i \in picks}
Covered == UNION {items[o].over : o \in Ordinals}

(* All but the newest FreshTailCount items.                                   *)
Evictable == {o \in Ordinals : Cardinality({p \in Ordinals : p > o}) >= FreshTailCount}

(* appendContextItems                                                         *)
WithMessages(new) ==
    LET end == IF Ordinals = {} THEN 0 ELSE Max(Ordinals)
    IN  [o \in Ordinals \cup {end + k * OrdinalStep : k \in DOMAIN new} |->
            IF o <= end THEN items[o] ELSE MessageItem(new[(o - end) \div OrdinalStep])]

(* resequenceContextItemsTx: the others are numbered from the start, the new  *)
(* summary comes last.                                                        *)
Resequenced(others, sum) ==
    LET Place(o) == Cardinality({p \in DOMAIN others : p <= o}) * OrdinalStep
        end == (Cardinality(DOMAIN others) + 1) * OrdinalStep
    IN  [place \in {Place(o) : o \in DOMAIN others} \cup {end} |->
            IF place = end THEN sum
            ELSE others[CHOOSE o \in DOMAIN others : Place(o) = place]]

(* The summary goes to the midpoint of what it replaces.                      *)
Inserted(others, midpoint, sum) ==
    IF midpoint \in DOMAIN others THEN Resequenced(others, sum)
    ELSE [o \in DOMAIN others \cup {midpoint} |->
             IF o = midpoint THEN sum ELSE others[o]]

RangeReplacedShort(span, sum) ==
    Inserted(Restrict(items, Ordinals \ Between(span[1], span[2] - 1)),
             (span[1] + span[2]) \div 2, sum)

(* ReplaceContextRangeWithSummary: by ordinals read before.                   *)
RangeReplaced(span, sum) ==
    Inserted(Restrict(items, Ordinals \ Between(span[1], span[2])),
             (span[1] + span[2]) \div 2, sum)

(* ReplaceContextItemsWithSummary: by summary IDs.                            *)
EachReplaced(ids, sum) ==
    LET found == {o \in Ordinals : IsSummary(o) /\ items[o].id \in ids}
    IN  IF found = {} THEN items
        ELSE Inserted(Restrict(items, Ordinals \ found),
                      (Min(found) + Max(found)) \div 2, sum)

-----------------------------------------------------------------------------
(* The session's worker: turns, and Engine.Ingest, which adds the rows one by *)
(* one and the items together.                                                *)

TurnSame == UNCHANGED worker
RowsSame == UNCHANGED rows
CondenserSame == UNCHANGED <<condenser, overlap, clash>>
CountersSame == UNCHANGED <<said, made, wipes, mishaps>>
GhostsSame == UNCHANGED <<missed, again, wiped>>

TurnBegins ==
    /\ worker.at = "idle"
    /\ worker' = [AtRest EXCEPT !.at = "on", !.mark = Len(log)]
    /\ CondenserSame /\ CountersSame /\ GhostsSame /\ UNCHANGED <<log, rows, items>>

TurnEnds ==
    /\ worker.at = "on" /\ worker' = AtRest
    /\ CondenserSame /\ CountersSame /\ GhostsSame /\ UNCHANGED <<log, rows, items>>

(* restoreSession puts the history back; the context manager is not told.    *)
TurnAborts ==
    /\ worker.at = "on" /\ worker' = AtRest
    /\ log' = SubSeq(log, 1, worker.mark)
    /\ CondenserSame /\ CountersSame /\ GhostsSame /\ UNCHANGED <<rows, items>>

(* AddFullMessage, then ingestMessage.                                       *)
Say ==
    /\ worker.at = "on" /\ said < MaxSaid
    /\ said' = said + 1 /\ log' = Append(log, said + 1)
    /\ worker' = [worker EXCEPT !.at = "rows", !.next = "on", !.todo = <<said + 1>>]
    /\ CondenserSame /\ GhostsSame /\ UNCHANGED <<rows, items, made, wipes, mishaps>>

AddRow ==
    /\ worker.at = "rows" /\ worker.todo # <<>>
    /\ rows' = Append(rows, Head(worker.todo))
    /\ worker' = [worker EXCEPT !.todo = Tail(@), !.added = Append(@, Head(worker.todo))]
    /\ CondenserSame /\ CountersSame /\ GhostsSame /\ UNCHANGED <<log, items>>

Ingested == [worker EXCEPT !.at = worker.next, !.todo = <<>>, !.added = <<>>]
Pending == Range(worker.todo) \cup Range(worker.added)

AppendItems ==
    /\ worker.at = "rows" /\ worker.todo = <<>>
    /\ items' = WithMessages(worker.added) /\ worker' = Ingested
    /\ CondenserSame /\ CountersSame /\ GhostsSame /\ UNCHANGED <<log, rows>>

(* A transaction fails: the rows before it stay, nothing is tried again.     *)
IngestFails ==
    /\ worker.at = "rows" /\ mishaps < MaxMishaps
    /\ mishaps' = mishaps + 1 /\ worker' = Ingested /\ missed' = missed \cup Pending
    /\ CondenserSame
    /\ UNCHANGED <<log, rows, items, said, made, wipes, again, wiped>>

-----------------------------------------------------------------------------
(* compactLeaf, in Compact and in CompactUntilUnder, which takes the fresh   *)
(* tail too: the start of the first run of LeafMinFanout messages, as far as *)
(* the tokens of a chunk go.                                                 *)

LeafChunks(region) ==
    LET long == {run \in region \X region :
                    /\ \A o \in Between(run[1], run[2]) : ~IsSummary(o)
                    /\ Cardinality(Between(run[1], run[2])) >= LeafMinFanout}
    IN  {run \in long : \A other \in long : run[1] <= other[1]}

LeafBegins(region, next) ==
    /\ made < MaxSummaries
    /\ \E span \in LeafChunks(region) :
          worker' = [worker EXCEPT !.at = "leaf", !.next = next, !.span = span,
                       !.over = UNION {items[o].over : o \in Between(span[1], span[2])}]
    /\ CondenserSame /\ CountersSame /\ GhostsSame /\ UNCHANGED <<log, rows, items>>

(* Compact at the end of a turn, after the tools or when the prompt is long. *)
CompactBegins == worker.at = "on" /\ LeafBegins(Evictable, "launch")

(* No run is long enough, or the tokens of a few messages fill a chunk.      *)
CompactSkipsLeaf ==
    /\ worker.at = "on" /\ worker' = [worker EXCEPT !.at = "launch"]
    /\ CondenserSame /\ CountersSame /\ GhostsSame /\ UNCHANGED <<log, rows, items>>

(* The model has answered; the ordinals are those from before.               *)
LeafEnds ==
    /\ worker.at = "leaf" /\ made < MaxSummaries
    /\ made' = made + 1
    /\ items' = RangeReplaced(worker.span,
                              [id |-> made + 1, depth |-> 0, over |-> worker.over])
    /\ worker' = [worker EXCEPT !.at = worker.next, !.span = <<0, 0>>, !.over = {}]
    /\ CondenserSame /\ GhostsSame /\ UNCHANGED <<log, rows, said, wipes, mishaps>>

LeafFails ==
    /\ worker.at = "leaf"
    /\ worker' = [worker EXCEPT !.at = "on", !.span = <<0, 0>>, !.over = {}]
    /\ CondenserSame /\ CountersSame /\ GhostsSame /\ UNCHANGED <<log, rows, items>>

(* Compact's second half: over its budget it starts the goroutine, unless    *)
(* one runs for the conversation.                                            *)
Launch ==
    /\ worker.at = "launch" /\ worker' = [worker EXCEPT !.at = "on"]
    /\ \/ condenser["goroutine"].at = "off"
          /\ condenser' = [condenser EXCEPT !["goroutine"].at = "pick"]
       \/ UNCHANGED condenser
    /\ CountersSame /\ GhostsSame /\ UNCHANGED <<log, rows, items, overlap, clash>>

(* CompactUntilUnder, when the model refuses the context as too long.        *)
Overflow ==
    /\ worker.at = "on" /\ worker' = [worker EXCEPT !.at = "under"]
    /\ CondenserSame /\ CountersSame /\ GhostsSame /\ UNCHANGED <<log, rows, items>>

UnderLeaf == worker.at = "under" /\ LeafBegins(Ordinals, "under")

UnderCondenses ==
    /\ worker.at = "under" /\ worker' = [worker EXCEPT !.at = "condense"]
    /\ condenser' = [condenser EXCEPT !["worker"].at = "pick"]
    /\ CountersSame /\ GhostsSame /\ UNCHANGED <<log, rows, items, overlap, clash>>

(* Under the budget, or no progress.                                         *)
UnderReturns ==
    /\ worker.at = "under" /\ worker' = [worker EXCEPT !.at = "on"]
    /\ CondenserSame /\ CountersSame /\ GhostsSame /\ UNCHANGED <<log, rows, items>>

-----------------------------------------------------------------------------
(* compactCondensed.                                                         *)

(* selectOldestChunkAtDepth: summaries of one depth from the very first item *)
(* on, as far as the tokens go.                                              *)
FrontChunks ==
    {{items[p] : p \in Between(Min(Ordinals), o)} :
        o \in {e \in Evictable : \A p \in Between(Min(Ordinals), e) :
                  IsSummary(p) /\ items[p].depth = items[Min(Ordinals)].depth}}

(* selectShallowestCondensationCandidate: the first CondensedMinFanout       *)
(* summaries of the least depth that has so many, neighbours or not.         *)
ShallowestGroup ==
    LET OfDepth(d) == {o \in Evictable : IsSummary(o) /\ items[o].depth = d}
        enough == {d \in 0 .. MaxSummaries : Cardinality(OfDepth(d)) >= CondensedMinFanout}
        group == OfDepth(Min(enough))
    IN  IF enough = {} THEN {}
        ELSE {items[o] : o \in {p \in group :
                 Cardinality({q \in group : q <= p}) <= CondensedMinFanout}}

CondensedPicks == FrontChunks \cup ({ShallowestGroup} \ {{}})

(* The worker goes back to its loop; the goroutine ends or goes round again. *)
BackTo(c, at) ==
    worker' = IF c = "worker" THEN [worker EXCEPT !.at = at] ELSE worker

Pick(c) ==
    /\ condenser[c].at = "pick" /\ made < MaxSummaries
    /\ \E picks \in CondensedPicks :
          condenser' = [condenser EXCEPT ![c] = [Off EXCEPT !.at = "llm", !.picks = picks]]
    /\ overlap' = (overlap \/ \E d \in Condensers \ {c} : condenser[d].at \in {"llm", "swap"})
    /\ TurnSame /\ CountersSame /\ GhostsSame /\ UNCHANGED <<log, rows, items, clash>>

(* No candidate, no progress, an error, or the engine is closed.             *)
GiveUp(c) ==
    /\ condenser[c].at \in {"pick", "llm"}
    /\ condenser' = [condenser EXCEPT ![c] = Off] /\ BackTo(c, "on")
    /\ CountersSame /\ GhostsSame
    /\ UNCHANGED <<log, rows, items, overlap, clash>>

(* The summary is stored, and the items are read again for the candidates'   *)
(* ordinals, up to the first that has another item before it.                *)
Reread(c) ==
    LET ids == IdsIn(condenser[c].picks)
        present == {o \in Ordinals : IsSummary(o) /\ items[o].id \in ids}
        joined == {o \in present : Between(Min(present), o) \subseteq present}
    IN  /\ condenser[c].at = "llm" /\ made < MaxSummaries
        /\ made' = made + 1
        /\ IF present = {}
           THEN condenser' = [condenser EXCEPT ![c] = Off] /\ BackTo(c, "on")
           ELSE /\ condenser' = [condenser EXCEPT ![c] =
                       [@ EXCEPT !.at = "swap", !.id = made + 1,
                                 !.span = <<Min(present), Max(joined)>>,
                                 !.each = (present # joined)]]
                /\ TurnSame
        /\ GhostsSame
        /\ UNCHANGED <<log, rows, items, said, wipes, mishaps, overlap, clash>>

(* Those about to replace a range of ordinals have read them too early.      *)
Moved(state) == [d \in Condensers |-> [state[d] EXCEPT !.moved = (state[d].at = "swap")]]

(* Neighbours are replaced by their range, others one by one.                *)
Swap(c) ==
    LET me == condenser[c]
        sum == [id |-> me.id, depth |-> Max({i.depth : i \in me.picks}) + 1,
                over |-> UNION {i.over : i \in me.picks}]
    IN  /\ me.at = "swap"
        /\ items' = IF me.each THEN EachReplaced(IdsIn(me.picks), sum)
                    ELSE RangeReplaced(me.span, sum)
        /\ condenser' = Moved([condenser EXCEPT ![c] =
              IF c = "worker" THEN Off ELSE [Off EXCEPT !.at = "pick"]])
        /\ clash' = (clash \/ (me.moved /\ ~me.each))
        /\ BackTo(c, "under")
        /\ CountersSame /\ GhostsSame /\ UNCHANGED <<log, rows, overlap>>

-----------------------------------------------------------------------------
(* /clear, which the session's worker runs between turns: the tables in one  *)
(* transaction, then the file.                                               *)

ClearTables ==
    /\ worker.at = "idle" /\ wipes < MaxWipes
    /\ wipes' = wipes + 1 /\ worker' = [worker EXCEPT !.at = "clearing"]
    /\ rows' = <<>> /\ items' = <<>> /\ condenser' = Moved(condenser)
    /\ GhostsSame /\ UNCHANGED <<log, said, made, mishaps, overlap, clash>>

ClearFile ==
    /\ worker.at = "clearing" /\ worker' = AtRest
    /\ log' = <<>> /\ wiped' = 1 .. said
    /\ CondenserSame /\ CountersSame /\ UNCHANGED <<rows, items, missed, again>>

-----------------------------------------------------------------------------
(* The process ends and starts again.                                        *)

SeahorseCrash ==
    /\ worker.at # "boot" /\ mishaps < MaxMishaps /\ mishaps' = mishaps + 1
    /\ worker' = [AtRest EXCEPT !.at = "boot"]
    /\ condenser' = [c \in Condensers |-> Off]
    /\ missed' = missed \cup Pending
    /\ UNCHANGED <<log, rows, items, said, made, wipes, again, wiped, overlap,
                   clash>>

(* How many messages of the history are the rows the table begins with.      *)
Matching ==
    Max({k \in 0 .. Min({Len(log), Len(rows)}) :
            SubSeq(rows, 1, k) = SubSeq(log, 1, k)})

(* DeleteMessagesAfterID: the items of the rows go with them; summaries stay. *)
ItemsWithout(gone) ==
    Restrict(items, {o \in Ordinals : IsSummary(o) \/ items[o].over \cap gone = {}})

(* As many rows as the history has messages are compared: when all match, or *)
(* the history is empty, nothing is done.  Otherwise the rows after those    *)
(* that match go, and the rest of the history is ingested.                   *)
Bootstrap ==
    LET kept == SubSeq(rows, 1, Matching)
        gone == Range(SubSeq(rows, Matching + 1, Len(rows)))
        delta == SubSeq(log, Matching + 1, Len(log))
        spared == ItemsWithout(gone)
    IN  /\ worker.at = "boot"
        /\ IF delta = <<>>
           THEN worker' = AtRest /\ GhostsSame /\ UNCHANGED <<rows, items>>
           ELSE /\ rows' = kept /\ items' = spared
                /\ worker' = [AtRest EXCEPT !.at = "rows", !.todo = delta]
                /\ missed' = missed \ Range(delta)
                /\ again' = again \cup
                      {m \in Range(delta) : \E o \in DOMAIN spared :
                                               \E n \in spared[o].over : m <= n}
                /\ UNCHANGED wiped
        /\ CondenserSame /\ CountersSame /\ UNCHANGED log

WorkerStep ==
    \/ TurnBegins \/ TurnEnds \/ TurnAborts \/ Say \/ AddRow \/ AppendItems \/ IngestFails
    \/ CompactBegins \/ CompactSkipsLeaf \/ LeafEnds \/ LeafFails \/ Launch
    \/ Overflow \/ UnderLeaf \/ UnderCondenses \/ UnderReturns \/ ClearTables \/ ClearFile

Condense(c) == Pick(c) \/ GiveUp(c) \/ Reread(c) \/ Swap(c)

SeahorseNext ==
    WorkerStep \/ (\E c \in Condensers : Condense(c)) \/ SeahorseCrash \/ Bootstrap

SeahorseSpec == SeahorseInit /\ [][SeahorseNext]_seaVars

-----------------------------------------------------------------------------
(* Every message of the history is in the context, itself or in a summary:   *)
(* but for those whose ingestion failed, a summary takes its messages' place *)
(* whatever the others did while the model wrote it.  Only a replacement of  *)
(* a range someone changed after it was read may lose any.                   *)
HistoryIsCovered ==
    clash \/ worker.at \in {"clearing", "boot"} \/
    Range(log) \subseteq Covered \cup missed \cup Pending

(* And once, unless condensers overlapped or Bootstrap added it again.       *)
CoveredOnce ==
    overlap \/ clash \/
    \A o, p \in Ordinals : o # p => items[o].over \cap items[p].over \subseteq again

(* The context is in the order of the conversation, the deepest summaries    *)
(* first and the messages last: what condenses has neighbours only, and      *)
(* nothing is renumbered.  But Bootstrap may add messages behind later ones.  *)
OldestFirst ==
    overlap \/ clash \/ again # {} \/
    \A o, p \in Ordinals : o < p =>
        /\ items[o].depth >= items[p].depth
        /\ \A m \in items[o].over, n \in items[p].over : m < n

(* Candidates that are all still there are next to each other when their      *)
(* summary is done.                                                          *)
NeighboursOnly == \A c \in Condensers : condenser[c].each => clash

(* Nothing from before a /clear comes back.                                  *)
WipedStaysAway == clash \/ Covered \cap wiped = {}

(* What Assemble reads: the history's messages, once and in order, and none   *)
(* from before a /clear, but for the reservations of each conjunct.           *)
ContextIsKept ==
    /\ HistoryIsCovered /\ CoveredOnce /\ OldestFirst /\ NeighboursOnly /\ WipedStaysAway

(* After Bootstrap the context has nothing the history does not have          *)
(* (short_engine.go: "If any mismatch is detected, clear and rebuild").       *)
BootstrapReconciles ==
    [][worker.at = "boot" /\ worker'.at = "idle" /\ log # <<>> =>
          Covered \subseteq Range(log)]_seaVars
=============================================================================
