----------------------------- MODULE JSONLStore ------------------------------
(***************************************************************************)
(* pkg/memory/jsonl.go: a session kept in two files, an append-only log of *)
(* messages and a metadata file with the number of lines to skip, their    *)
(* count and the summary.  Each file is written atomically but they are    *)
(* written one after the other, and an append may stop part-way; a crash   *)
(* or a failing write comes between any two writes.                        *)
(*                                                                         *)
(* One session and the legacy session it takes over (PromoteAliasHistory). *)
(* The mutex of the session makes its operations exclude each other; an    *)
(* operation with two writes holds it across both, in op.  A failure       *)
(* before the first write changes nothing and is not a step.               *)
(***************************************************************************)
EXTENDS Integers, Sequences, FiniteSets

CONSTANTS
    NumMessages,    \* bound: messages offered to addMsg
    NumLegacy,      \* messages of the legacy session
    Keeps,          \* the values of keepLast
    MaxFaults       \* bound: crashes and failing writes

ASSUME StoreAssumption ==
    /\ NumMessages \in Nat
    /\ NumLegacy \in Nat \ {0}
    /\ Keeps \subseteq Nat
    /\ MaxFaults \in Nat

Messages == 1..(NumMessages + NumLegacy)
Legacy == [i \in 1..NumLegacy |-> NumMessages + i]
Corrupt == 0            \* a line that does not parse
Line == Messages \union {Corrupt}

VARIABLES
    added,      \* messages offered so far: 1..added
    lines,      \* the non-empty lines of the .jsonl file
    torn,       \* its last line has no newline
    skip, count, summary,   \* the .meta.json file; summary: it is not blank
    op,         \* what the holder of the lock still has to write, or "free"
    buf,        \* the content it holds for the .jsonl file
    owed,       \* the messages the session must still show
    removed,    \* the messages TruncateHistory has hidden
    tears,      \* appends that stopped part-way
    cut,        \* operations of two writes that stopped between them
    faults      \* crashes and failing writes so far

files == <<lines, torn, skip, count, summary>>
vars == <<added, lines, torn, skip, count, summary, op, buf, owed, removed,
          tears, cut, faults>>

Elements(s) == {s[i] : i \in DOMAIN s}

(* The lines that parse, in their order: the n-th of them is the one up to   *)
(* which there are n.                                                        *)
Parsing(ls) == {i \in DOMAIN ls : ls[i] # Corrupt}
Upto(S, i) == {j \in S : j <= i}
Nth(S, n) == CHOOSE i \in S : Cardinality(Upto(S, i)) = n
Retained(ls) == [n \in 1..Cardinality(Parsing(ls)) |-> ls[Nth(Parsing(ls), n)]]

(* readMessages: the lines after the first skip ones that parse. *)
History == Retained(SubSeq(lines, skip + 1, Len(lines)))

Init ==
    /\ added = 0
    /\ lines = <<>> /\ torn = FALSE
    /\ skip = 0 /\ count = 0 /\ summary = FALSE
    /\ op = "free"
    /\ buf = [lines |-> <<>>, torn |-> FALSE]
    /\ owed = {} /\ removed = {}
    /\ tears = 0 /\ cut = {} /\ faults = 0

-----------------------------------------------------------------------------
(* addMsg. *)

(* Bytes are appended to whatever the file ends with: after a line without  *)
(* its newline they become part of that line, which no longer parses.       *)
Appended(x) == IF torn THEN [lines EXCEPT ![Len(lines)] = Corrupt]
               ELSE Append(lines, x)

Offer == op = "free" /\ added < NumMessages /\ added' = added + 1

AppendLine ==
    /\ Offer
    /\ lines' = Appended(added + 1)
    /\ torn' = FALSE
    /\ op' = "append"
    /\ UNCHANGED <<skip, count, summary, buf, owed, removed, tears, cut, faults>>

Fault(n) == faults + n <= MaxFaults /\ faults' = faults + n

(* The append stops part-way: what is there may lack the newline only. *)
AppendTears ==
    /\ Offer
    /\ Fault(1)
    /\ \E x \in {added + 1, Corrupt} : lines' = Appended(x)
    /\ torn' = TRUE
    /\ tears' = tears + 1
    /\ UNCHANGED <<skip, count, summary, op, buf, owed, removed, cut>>

AppendCounted ==
    /\ op = "append"
    /\ op' = "free"
    /\ count' = count + 1
    /\ owed' = owed \union {added}
    /\ UNCHANGED <<added, lines, torn, skip, summary, buf, removed, tears, cut, faults>>

-----------------------------------------------------------------------------
(* Operations that write the metadata only. *)

SetSummary(b) ==
    /\ op = "free"
    /\ summary' = b
    /\ UNCHANGED <<added, lines, torn, skip, count, op, buf, owed, removed,
                   tears, cut, faults>>

Hides(n) ==
    /\ skip' = n
    /\ count' = Len(lines)
    /\ owed' = owed \ Elements(SubSeq(lines, 1, n))
    /\ removed' = removed \union (Elements(SubSeq(lines, 1, n)) \ {Corrupt})
    /\ UNCHANGED <<added, lines, torn, summary, op, buf, tears, cut, faults>>

TruncateHistoryByCount(n) == op = "free" /\ Hides(IF n < count THEN count - n ELSE skip)

(* The last n retained lines stay: the line before them is the last skipped *)
(* one, counted in lines of the file, corrupt ones included.                *)
TruncateHistory(n) ==
    LET start == IF skip > Len(lines) THEN Len(lines) ELSE skip
        active == {i \in start + 1..Len(lines) : lines[i] # Corrupt}
    IN /\ op = "free"
       /\ \/ (n = 0 \/ active = {}) /\ Hides(Len(lines))
          \/ \E i \in active : /\ Cardinality(Upto(active, i)) = Cardinality(active) - n
                               /\ n > 0 /\ Hides(i)
          \/ n >= Cardinality(active) /\ active # {} /\ Hides(start)

-----------------------------------------------------------------------------
(* Operations that replace the log. *)

Resets(n) == skip' = 0 /\ count' = n

(* The metadata first: between the writes there is too much, not too little. *)
SetHistory(h) ==
    /\ op = "free"
    /\ op' = "set"
    /\ Resets(Len(h))
    /\ buf' = [lines |-> h, torn |-> FALSE]
    /\ UNCHANGED <<added, lines, torn, summary, owed, removed, tears, cut, faults>>

CompactKeepsSkip ==
    /\ op = "free" /\ skip > 0
    /\ op' = "compact"
    /\ count' = Len(History)
    /\ buf' = [lines |-> History, torn |-> FALSE]
    /\ UNCHANGED <<added, lines, torn, skip, summary, owed, removed, tears, cut, faults>>

CompactReadsAll ==
    /\ op = "free" /\ skip > 0
    /\ op' = "compact"
    /\ Resets(Len(Retained(lines)))
    /\ buf' = [lines |-> Retained(lines), torn |-> FALSE]
    /\ UNCHANGED <<added, lines, torn, summary, owed, removed, tears, cut, faults>>

Compact ==
    /\ op = "free" /\ skip > 0
    /\ op' = "compact"
    /\ Resets(Len(History))
    /\ buf' = [lines |-> History, torn |-> FALSE]
    /\ UNCHANGED <<added, lines, torn, summary, owed, removed, tears, cut, faults>>

RewriteJSONL ==
    /\ op \in {"set", "compact"}
    /\ op' = "free"
    /\ lines' = buf.lines /\ torn' = buf.torn
    /\ owed' = IF op = "set" THEN Elements(buf.lines) ELSE owed
    /\ removed' = IF op = "set" THEN removed \ Elements(buf.lines) ELSE removed
    /\ UNCHANGED <<added, skip, count, summary, buf, tears, cut, faults>>

-----------------------------------------------------------------------------
(* promoteAliasHistoryLocked: the log first, and undone if the metadata     *)
(* cannot be written.  The legacy session keeps its files.                  *)

PromoteUnchecked ==
    /\ op = "free" /\ ~summary
    /\ op' = "promote"
    /\ buf' = [lines |-> lines, torn |-> torn]
    /\ lines' = Legacy /\ torn' = FALSE
    /\ UNCHANGED <<added, skip, count, summary, owed, removed, tears, cut, faults>>

Promote ==
    /\ op = "free"
    /\ ~summary /\ History = <<>>
    /\ op' = "promote"
    /\ buf' = [lines |-> lines, torn |-> torn]
    /\ lines' = Legacy /\ torn' = FALSE
    /\ UNCHANGED <<added, skip, count, summary, owed, removed, tears, cut, faults>>

Promoted ==
    /\ op = "promote"
    /\ op' = "free"
    /\ Resets(NumLegacy)
    /\ owed' = owed \union Elements(Legacy)
    /\ removed' = removed \ Elements(Legacy)
    /\ UNCHANGED <<added, lines, torn, summary, buf, tears, cut, faults>>

-----------------------------------------------------------------------------
(* The second write does not take place: it fails, or the process ends. *)

Cut == op # "free" /\ op' = "free" /\ cut' = cut \union {op}

SecondWriteFails ==
    /\ Cut
    /\ Fault(1)
    /\ IF op = "promote" THEN lines' = buf.lines /\ torn' = buf.torn
                         ELSE UNCHANGED <<lines, torn>>
    /\ UNCHANGED <<added, skip, count, summary, buf, owed, removed, tears>>

(* A crash, or a roll-back that fails as well. *)
Crash ==
    /\ Cut
    /\ Fault(1)
    /\ UNCHANGED <<added, files, buf, owed, removed, tears>>

-----------------------------------------------------------------------------

(* What the callers set: an earlier end, a later start or nothing. *)
Shortened == {SubSeq(History, 1, n) : n \in 0..Len(History)}
             \union {SubSeq(History, n, Len(History)) : n \in 1..Len(History)}

Next ==
    \/ AppendLine \/ AppendTears \/ AppendCounted
    \/ \E b \in BOOLEAN : SetSummary(b)
    \/ \E n \in Keeps : TruncateHistory(n)
    \/ \E h \in Shortened : SetHistory(h)
    \/ Compact \/ RewriteJSONL
    \/ Promote \/ Promoted
    \/ SecondWriteFails \/ Crash

Spec == Init /\ [][Next]_vars

-----------------------------------------------------------------------------
(* Properties. *)

TypeOK ==
    /\ added \in 0..NumMessages
    /\ lines \in Seq(Line)
    /\ torn \in BOOLEAN
    /\ torn => lines # <<>>
    /\ skip \in Nat
    /\ count \in Nat
    /\ summary \in BOOLEAN
    /\ op \in {"free", "append", "set", "compact", "promote"}
    /\ buf \in [lines : Seq(Line), torn : BOOLEAN]
    /\ owed \subseteq Messages
    /\ removed \subseteq Messages
    /\ tears \in Nat
    /\ cut \subseteq {"append", "set", "compact", "promote"}
    /\ faults \in 0..MaxFaults
    /\ "promote" \notin cut /\ op # "promote" => skip <= Len(lines)

(* Wherever writes fail or the process ends, a message that addMsg has      *)
(* acknowledged and nobody has removed is shown again, except one for each  *)
(* append that stopped part-way: the line appended after it is lost.  An    *)
(* interrupted promotion is excluded, its log may be read with the old skip.*)
LossBounded ==
    "promote" \notin cut /\ op # "promote" =>
        Cardinality(owed \ Elements(History)) <= tears

(* TruncateHistory(n) leaves the last n messages shown before, or all if    *)
(* there are fewer, although count may be stale and lines corrupt.          *)
TruncateKeeps ==
    [][\A n \in Keeps :
         TruncateHistory(n) =>
             LET kept == IF n < Len(History) THEN n ELSE Len(History) IN
             History' = SubSeq(History, Len(History) - kept + 1, Len(History))]_vars

(* A truncated message comes back only when a Compact or a SetHistory was   *)
(* interrupted between its writes.  (A promotion brings the legacy          *)
(* session's messages back, too: they are not counted here.)                *)
TruncatedStaysAway ==
    op = "free" /\ {"set", "compact"} \intersect cut = {} =>
        removed \intersect Elements(History) \intersect 1..NumMessages = {}

(* The store loses a message only to a torn line, and what was truncated    *)
(* stays away.                                                              *)
FilesAreKept == LossBounded /\ TruncatedStaysAway
=============================================================================
