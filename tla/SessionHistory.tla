---------------------------- MODULE SessionHistory ----------------------------
(* Who changes the history and the summary of one session: its worker, which *)
(* runs turns and /clear one after another, and the goroutine the legacy     *)
(* context manager starts to summarise old messages.  Each call of the store *)
(* is a step; nothing holds a lock across two of them.  A summary is the set *)
(* of messages it was made from; what a model leaves out of it is not.       *)
EXTENDS Integers, Sequences, FiniteSets, FiniteSetsExt

CONSTANTS
    NumInherited,   \* messages of the legacy session an alias names
    MaxMessages,    \* bound: messages, the legacy ones included
    Threshold,      \* agent.SummarizeMessageThreshold
    KeepRecent,     \* the messages summarizeSession wants to keep, 4
    BatchSize,      \* maxSummarizationMessages
    MaxClears       \* bound: calls of /clear

HistoryAssumption ==
    /\ {NumInherited, MaxMessages, Threshold, BatchSize, MaxClears} \subseteq Nat
    /\ KeepRecent \in Nat \ {0} /\ NumInherited <= MaxMessages

VARIABLES
    history,   \* the session's messages
    digest,    \* and its summary; {}: none
    turn,      \* how far the session's worker is in a turn or a /clear
    point,     \* the turn's restore point, and the messages there were when it began
    pack,      \* forceCompression: the history to set and the summary read
    job,       \* the goroutine of summarizeSession
    sent,      \* messages so far
    clears,    \* calls of /clear so far
    late,      \* history: messages added while a summary was being made
    forgotten, \* history: messages of summaries that were replaced without them
    dropped,   \* history: messages forceCompression dropped
    undone,    \* history: messages of turns that were rolled back
    cleared,   \* history: messages there had been when /clear returned
    afloat     \* history: those of them a summary was being made from

histVars == <<history, digest, turn, point, pack, job, sent, clears, late, forgotten,
              dropped, undone, cleared, afloat>>

Ids == 1 .. MaxMessages
Message == [id: Ids, role: {"user", "assistant"}]
IdsOf(h) == {h[i].id : i \in DOMAIN h}
Old == 1 .. NumInherited
Inherited == [i \in Old |-> [id |-> i, role |-> IF i % 2 = 1 THEN "user" ELSE "assistant"]]

NoPoint == [kept |-> <<>>, base |-> {}, first |-> 0]
NoPack == [kept |-> <<>>, base |-> {}]
NoJob == [at |-> "off", batch |-> {}, keep |-> 0, base |-> {}]

HistoryTypeOK ==
    /\ history \in Seq(Message) /\ digest \subseteq Ids
    /\ turn \in {"idle", "opened", "reading", "asked", "pack", "note", "set", "undo",
                "clearing", "emptied"}
    /\ point.kept \in Seq(Message) /\ point.base \subseteq Ids
    /\ point.first \in 0 .. sent
    /\ pack.kept \in Seq(Message) /\ pack.base \subseteq Ids
    /\ job \in [at: {"off", "history", "summary", "model", "truncate"}, batch: SUBSET Ids,
                keep: 0 .. MaxMessages, base: SUBSET Ids]
    /\ sent \in NumInherited .. MaxMessages /\ clears \in 0 .. MaxClears /\ late \in Nat
    /\ {forgotten, dropped, undone, cleared, afloat} \subseteq SUBSET Ids

HistoryInit ==
    /\ history = <<>> /\ digest = {} /\ turn = "idle" /\ point = NoPoint /\ pack = NoPack
    /\ job = NoJob
    /\ sent = NumInherited /\ clears = 0 /\ late = 0
    /\ forgotten = {} /\ dropped = {} /\ undone = {} /\ cleared = {} /\ afloat = {}

-----------------------------------------------------------------------------
(* Where a history may be cut; indexes count from 0 as in the code.          *)

TurnBoundaries(h) == {i \in 0 .. Len(h) - 1 : h[i + 1].role = "user"}

(* findSafeBoundary: the last boundary up to target, or the first after it;  *)
(* 0 when only the start is one.                                             *)
SafeBoundary(h, target) ==
    LET turns == TurnBoundaries(h)
        before == {t \in turns : 0 < t /\ t <= target}
        after == {t \in turns : target < t}
    IN  IF target <= 0 THEN 0
        ELSE IF target >= Len(h) THEN Len(h)
        ELSE CASE turns = {} -> target
               [] before # {} -> Max(before)
               [] before = {} /\ after # {} -> Min(after)
               [] OTHER -> 0

SafeCut(h) == SafeBoundary(h, Len(h) - KeepRecent)

KeepCountFixed(h) == KeepRecent

KeepCount(h) == Len(h) - SafeCut(h)

Suffix(h, n) == IF n >= Len(h) THEN h ELSE SubSeq(h, Len(h) - n + 1, Len(h))

(* What forceCompression keeps: the later half of the turns, or the last     *)
(* user message when the history cannot be cut.                              *)
Kept(h) ==
    LET turns == TurnBoundaries(h)
        mid == IF Cardinality(turns) >= 2
               THEN CHOOSE t \in turns :
                        Cardinality({u \in turns : u < t}) = Cardinality(turns) \div 2
               ELSE SafeBoundary(h, Len(h) \div 2)
    IN  IF mid > 0 THEN SubSeq(h, mid + 1, Len(h))
        ELSE IF turns = {} THEN <<>> ELSE <<h[Max(turns) + 1]>>

-----------------------------------------------------------------------------
(* The session's worker.                                                     *)

JobSame == UNCHANGED <<job, forgotten>>
ClearSame == UNCHANGED <<clears, cleared, afloat>>
PointSame == UNCHANGED <<point, undone>>

(* ensureSessionMetadata: a session that shows nothing takes over the legacy *)
(* history.                                                                  *)
TakenOver == IF history = <<>> /\ digest = {} THEN Inherited ELSE history

BeginTurn ==
    /\ turn = "idle" /\ sent < MaxMessages
    /\ turn' = "opened" /\ history' = TakenOver
    /\ point' = [kept |-> <<>>, base |-> {}, first |-> sent]
    /\ JobSame /\ ClearSame /\ UNCHANGED <<digest, pack, sent, late, dropped, undone>>

(* matchingTurnMessageTail: the last n messages are the last n of the turn's. *)
EndsInTurn(h, n) ==
    /\ n <= sent - point.first
    /\ \A i \in 1 .. n : h[Len(h) - n + i].id = sent - n + i

(* SetupTurn, and refreshRestorePointFromSession after each compression: the  *)
(* restore point is the history without what the turn has added to it ...     *)
ReadPoint ==
    /\ turn = "opened" /\ turn' = "reading"
    /\ \E n \in 0 .. Len(history) :
           /\ EndsInTurn(history, n)
           /\ \A k \in n + 1 .. Len(history) : ~EndsInTurn(history, k)
           /\ point' = [point EXCEPT !.kept = SubSeq(history, 1, Len(history) - n)]
    /\ JobSame /\ ClearSame
    /\ UNCHANGED <<history, digest, pack, sent, late, dropped, undone>>

(* ... and the summary, read after it.                                       *)
ReadPointSummary ==
    /\ turn = "reading" /\ turn' = "asked" /\ point' = [point EXCEPT !.base = digest]
    /\ JobSame /\ ClearSame
    /\ UNCHANGED <<history, digest, pack, sent, late, dropped, undone>>

(* AddFullMessage: the user's message, then what the model and tools say and  *)
(* what the user says meanwhile.                                             *)
AddMessage ==
    /\ turn = "asked" /\ sent < MaxMessages /\ sent' = sent + 1
    /\ \E role \in {"user", "assistant"} :
           /\ sent = point.first => role = "user"
           /\ history' = Append(history, [id |-> sent + 1, role |-> role])
    /\ late' = IF job.at \in {"summary", "model", "truncate"} THEN late + 1 ELSE late
    /\ JobSame /\ ClearSame /\ PointSame /\ UNCHANGED <<turn, digest, pack, dropped>>

(* restoreSession, when the turn is aborted: the history of the restore point *)
(* and then its summary.                                                     *)
RollBackHistory ==
    /\ turn = "asked" /\ point.first < sent /\ turn' = "undo" /\ history' = point.kept
    /\ undone' = undone \cup (point.first + 1 .. sent)
    /\ JobSame /\ ClearSame /\ UNCHANGED <<digest, point, pack, sent, late, dropped>>

RollBackSummary ==
    /\ turn = "undo" /\ turn' = "idle" /\ digest' = point.base /\ point' = NoPoint
    /\ forgotten' = forgotten \cup (digest \ point.base)
    /\ ClearSame /\ UNCHANGED <<history, pack, job, sent, late, dropped, undone>>

(* forceCompression, from its GetHistory to its SetHistory, before the user's *)
(* message or later in the turn.                                             *)
CompressRead ==
    /\ turn = "asked" /\ Len(history) > 2
    /\ turn' = "pack" /\ pack' = [NoPack EXCEPT !.kept = Kept(history)]
    /\ dropped' = dropped \cup (IdsOf(history) \ IdsOf(Kept(history)))
    /\ JobSame /\ ClearSame /\ PointSame /\ UNCHANGED <<history, digest, sent, late>>

CompressSummary ==
    /\ turn = "pack" /\ turn' = "note" /\ pack' = [pack EXCEPT !.base = digest]
    /\ JobSame /\ ClearSame /\ PointSame /\ UNCHANGED <<history, digest, sent, late, dropped>>

(* The summary read, with a note about what was dropped: one that was made    *)
(* since then is overwritten.                                                *)
CompressNote ==
    /\ turn = "note" /\ turn' = "set" /\ digest' = pack.base
    /\ forgotten' = forgotten \cup (digest \ pack.base)
    /\ ClearSame /\ PointSame /\ UNCHANGED <<history, pack, job, sent, late, dropped>>

CompressSet ==
    /\ turn = "set" /\ turn' = "opened" /\ history' = pack.kept /\ pack' = NoPack
    /\ JobSame /\ ClearSame /\ PointSame /\ UNCHANGED <<digest, sent, late, dropped>>

(* The turn is over and maybeSummarize starts the goroutine when there are   *)
(* many messages, or many tokens, and none is running.                       *)
EndTurn(heavy) ==
    /\ turn = "asked" /\ point.first < sent /\ turn' = "idle" /\ point' = NoPoint
    /\ job' = IF (heavy \/ Len(history) > Threshold) /\ job.at = "off"
              THEN [NoJob EXCEPT !.at = "history"] ELSE job
    /\ ClearSame
    /\ UNCHANGED <<history, digest, pack, sent, late, forgotten, dropped, undone>>

(* /clear: the metadata first, then the history, then the summary.           *)
ClearBegin ==
    /\ turn = "idle" /\ clears < MaxClears
    /\ turn' = "clearing" /\ clears' = clears + 1 /\ history' = TakenOver
    /\ JobSame /\ PointSame /\ UNCHANGED <<digest, pack, sent, late, dropped, cleared, afloat>>

ClearHistory ==
    /\ turn = "clearing" /\ turn' = "emptied" /\ history' = <<>>
    /\ JobSame /\ ClearSame /\ PointSame /\ UNCHANGED <<digest, pack, sent, late, dropped>>

InTheMaking == IF job.at \in {"summary", "model"} THEN job.batch \cup job.base ELSE {}

ClearSummaryKept ==
    /\ turn = "emptied" /\ turn' = "idle"
    /\ cleared' = 1 .. sent /\ afloat' = afloat \cup InTheMaking
    /\ JobSame /\ PointSame /\ UNCHANGED <<history, digest, pack, sent, clears, late, dropped>>

ClearSummary ==
    /\ turn = "emptied" /\ turn' = "idle" /\ digest' = {}
    /\ cleared' = 1 .. sent /\ afloat' = afloat \cup InTheMaking
    /\ JobSame /\ PointSame /\ UNCHANGED <<history, pack, sent, clears, late, dropped>>

-----------------------------------------------------------------------------
(* summarizeSession.                                                         *)

WorkerSame == ClearSame /\ PointSame /\ UNCHANGED <<turn, pack, sent, late, dropped>>

ReadHistory ==
    /\ job.at = "history"
    /\ job' = IF Len(history) <= KeepRecent \/ SafeCut(history) = 0 THEN NoJob
              ELSE [NoJob EXCEPT !.at = "summary", !.keep = KeepCount(history),
                       !.batch = IdsOf(SubSeq(history, 1, SafeCut(history)))]
    /\ WorkerSame /\ UNCHANGED <<history, digest, forgotten>>

ReadSummary ==
    /\ job.at = "summary" /\ job' = [job EXCEPT !.at = "model", !.base = digest]
    /\ WorkerSame /\ UNCHANGED <<history, digest, forgotten>>

(* A small batch is summarised on top of the summary read before; a large    *)
(* one in two parts without it.                                              *)
NewSummary ==
    IF Cardinality(job.batch) > BatchSize THEN job.batch ELSE job.batch \cup job.base

StoreSummary ==
    /\ job.at = "model" /\ job' = [job EXCEPT !.at = "truncate"]
    /\ digest' = NewSummary /\ forgotten' = forgotten \cup (digest \ NewSummary)
    /\ WorkerSame /\ UNCHANGED history

(* The model answers with blanks only, or its client panics.                 *)
NoSummary ==
    /\ job.at = "model" /\ job' = NoJob
    /\ WorkerSame /\ UNCHANGED <<history, digest, forgotten>>

(* TruncateHistory, with the number of messages to keep as it was counted.   *)
Truncate ==
    /\ job.at = "truncate" /\ job' = NoJob
    /\ history' = Suffix(history, job.keep)
    /\ WorkerSame /\ UNCHANGED <<digest, forgotten>>

-----------------------------------------------------------------------------
Worker ==
    \/ BeginTurn \/ ReadPoint \/ ReadPointSummary \/ AddMessage
    \/ RollBackHistory \/ RollBackSummary \/ \E heavy \in BOOLEAN : EndTurn(heavy)
    \/ CompressRead \/ CompressSummary \/ CompressNote \/ CompressSet
    \/ ClearBegin \/ ClearHistory \/ ClearSummary

Summarize == ReadHistory \/ ReadSummary \/ StoreSummary \/ NoSummary \/ Truncate

(* The bounds are reached and nobody is at work.                             *)
Over ==
    /\ turn = "idle" /\ job.at = "off" /\ sent = MaxMessages /\ clears = MaxClears
    /\ UNCHANGED histVars

HistoryNext == Worker \/ Summarize \/ Over

HistorySpec == HistoryInit /\ [][HistoryNext]_histVars

-----------------------------------------------------------------------------
(* Properties.                                                               *)

Visible == IdsOf(history) \cup digest

(* A message leaves the history without being in the summary only as far as  *)
(* others were added while a summary was being made: keepCount is counted    *)
(* before the model is called, so that each of those pushes one out that     *)
(* nothing has read.  Beside that the session forgets only by a compression, *)
(* by /clear, by the roll-back of the turn that added the message, and when a *)
(* summary is replaced without it: by a batch so large that it is split, or   *)
(* by a compression or a roll-back that read the summary before.              *)
LossNeedsOverlap ==
    LET lost == (NumInherited + 1 .. sent)
                    \ (Visible \cup forgotten \cup dropped \cup undone \cup cleared)
    IN  turn \notin {"clearing", "emptied"} => Cardinality(lost) <= late

(* /clear "removes all stored context for a session" (context_manager.go:28): *)
(* nothing that was there comes back, except the legacy history, which the    *)
(* next turn promotes again into the empty session, and the messages of a     *)
(* summary that was being made when the session was cleared.                  *)
ClearedStaysAway == cleared \cap Visible \subseteq Old \cup afloat

(* What a session keeps of its history.                                      *)
HistoryIsKept == LossNeedsOverlap /\ ClearedStaysAway
=============================================================================
