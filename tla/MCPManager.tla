------------------------------- MODULE MCPManager -------------------------------
(* The sessions the MCP manager has with one tool server: calls of its tools,  *)
(* which get a new session when the server has forgotten theirs, and Close.    *)
(* The table of servers has a lock; the flag `closed' and the count of calls   *)
(* are changed outside of it; each stale connection has a lock for its         *)
(* replacement.  The sessions themselves are the MCP library's.                *)
EXTENDS Integers, Sequences, FiniteSets

CONSTANTS
    Callers,                          \* goroutines that run tools
    MaxCalls, MaxSessions, MaxLosses  \* bounds

MCPAssumption == IsFiniteSet(Callers) /\ {MaxCalls, MaxSessions, MaxLosses} \subseteq Nat

VARIABLES
    sessions,  \* the sessions there have been
    server,    \* the session in the table of servers, 0 is none
    closed,    \* Manager.closed
    inFlight,  \* Manager.wg
    caller,    \* CallTool, by its caller
    loader,    \* ConnectServer
    closer,    \* Close
    calls      \* calls so far

mcpVars == <<sessions, server, closed, inFlight, caller, loader, closer, calls>>

Session == [lost: BOOLEAN, closed: BOOLEAN]
NewSession == [lost |-> FALSE, closed |-> FALSE]

(* A call uses conn; fresh is the session that may replace it.  It is late    *)
(* when Close had stopped waiting as it was counted.                          *)
Call == [at: {"idle", "begun", "locked", "calling", "missing", "connecting", "replacing",
              "closing"},
         conn: 0 .. MaxSessions, fresh: 0 .. MaxSessions, again: BOOLEAN, late: BOOLEAN]
NotCalling == [at |-> "idle", conn |-> 0, fresh |-> 0, again |-> FALSE, late |-> FALSE]

MCPTypeOK ==
    /\ sessions \in Seq(Session) /\ Len(sessions) <= MaxSessions
    /\ server \in 0 .. Len(sessions) /\ closed \in BOOLEAN
    /\ inFlight \in 0 .. Cardinality(Callers)
    /\ caller \in [Callers -> Call]
    /\ \A c \in Callers : {caller[c].conn, caller[c].fresh} \subseteq 0 .. Len(sessions)
    /\ loader.at \in {"connecting", "putting", "done"} /\ loader.fresh \in 0 .. Len(sessions)
    /\ closer \in {"no", "waiting", "locking", "done"} /\ calls \in 0 .. MaxCalls

MCPInit ==
    /\ sessions = <<>> /\ server = 0 /\ closed = FALSE /\ inFlight = 0
    /\ caller = [c \in Callers |-> NotCalling]
    /\ loader = [at |-> "connecting", fresh |-> 0] /\ closer = "no" /\ calls = 0

(* RLock is held over two steps by callers only; the lock is taken for one    *)
(* step by the others.                                                        *)
Unlocked == \A c \in Callers : caller[c].at # "locked"

CloseSession(s) == sessions' = [sessions EXCEPT ![s].closed = TRUE]
Opened == Append(sessions, NewSession)

(* The server forgets a session.                                              *)
Lose ==
    /\ Cardinality({s \in DOMAIN sessions : sessions[s].lost}) < MaxLosses
    /\ \E s \in DOMAIN sessions : /\ ~sessions[s].lost /\ ~sessions[s].closed
                                  /\ sessions' = [sessions EXCEPT ![s].lost = TRUE]
    /\ UNCHANGED <<server, closed, inFlight, caller, loader, closer, calls>>

-----------------------------------------------------------------------------
(* ConnectServer, once for each server.                                       *)

Connect ==
    /\ loader.at = "connecting"
    /\ \/ /\ Len(sessions) < MaxSessions /\ sessions' = Opened
          /\ loader' = [at |-> "putting", fresh |-> Len(sessions) + 1]
       \/ loader' = [at |-> "done", fresh |-> 0] /\ UNCHANGED sessions
    /\ UNCHANGED <<server, closed, inFlight, caller, closer, calls>>

PutServer ==
    /\ loader.at = "putting" /\ Unlocked /\ loader' = [at |-> "done", fresh |-> 0]
    /\ IF closed THEN CloseSession(loader.fresh) /\ UNCHANGED server
       ELSE server' = loader.fresh /\ UNCHANGED sessions
    /\ UNCHANGED <<closed, inFlight, caller, closer, calls>>

-----------------------------------------------------------------------------
(* CallTool.                                                                  *)

CallEnds(c) == caller' = [caller EXCEPT ![c] = NotCalling] /\ inFlight' = inFlight - 1

BeginCall(c) ==
    /\ caller[c].at = "idle" /\ ~closed /\ calls < MaxCalls
    /\ calls' = calls + 1 /\ caller' = [caller EXCEPT ![c].at = "begun"]
    /\ UNCHANGED <<sessions, server, closed, inFlight, loader, closer>>

(* The flag is looked at again under the lock, which Close does not hold as   *)
(* it sets the flag.                                                          *)
CheckAgain(c) ==
    /\ caller[c].at = "begun"
    /\ caller' = IF closed THEN [caller EXCEPT ![c] = NotCalling]
                 ELSE [caller EXCEPT ![c].at = "locked"]
    /\ UNCHANGED <<sessions, server, closed, inFlight, loader, closer, calls>>

CountCall(c) ==
    /\ caller[c].at = "locked"
    /\ IF server = 0
       THEN caller' = [caller EXCEPT ![c] = NotCalling] /\ UNCHANGED inFlight
       ELSE /\ caller' = [caller EXCEPT ![c] = [@ EXCEPT !.at = "calling", !.conn = server,
                                                        !.late = (closer = "locking")]]
            /\ inFlight' = inFlight + 1
    /\ UNCHANGED <<sessions, server, closed, loader, closer, calls>>

(* An answer or an error of any kind.                                         *)
Answered(c) ==
    /\ caller[c].at = "calling" /\ CallEnds(c)
    /\ UNCHANGED <<sessions, server, closed, loader, closer, calls>>

(* The server does not know the session: only the first time does the call    *)
(* go on.                                                                     *)
SessionMissing(c) ==
    /\ caller[c].at = "calling" /\ ~caller[c].again /\ sessions[caller[c].conn].lost
    /\ caller' = [caller EXCEPT ![c].at = "missing"]
    /\ UNCHANGED <<sessions, server, closed, inFlight, loader, closer, calls>>

-----------------------------------------------------------------------------
(* reconnectServer, one caller at a time for each stale connection.           *)

Reconnecting(s) ==
    \E c \in Callers : caller[c].conn = s /\ caller[c].at \in {"connecting", "replacing", "closing"}

(* The call again, with another session.                                      *)
With(c, s) ==
    caller' = [caller EXCEPT ![c] = [@ EXCEPT !.at = "calling", !.conn = s, !.fresh = 0,
                                              !.again = TRUE]]

LookAgainBlind(c) ==
    /\ caller[c].at = "missing" /\ ~Reconnecting(caller[c].conn)
    /\ IF closed \/ server = 0 THEN CallEnds(c)
       ELSE caller' = [caller EXCEPT ![c].at = "connecting"] /\ UNCHANGED inFlight
    /\ UNCHANGED <<sessions, server, closed, loader, closer, calls>>

LookAgain(c) ==
    /\ caller[c].at = "missing" /\ ~Reconnecting(caller[c].conn)
    /\ IF closed \/ server = 0 THEN CallEnds(c)
       ELSE /\ IF server # caller[c].conn THEN With(c, server)
               ELSE caller' = [caller EXCEPT ![c].at = "connecting"]
            /\ UNCHANGED inFlight
    /\ UNCHANGED <<sessions, server, closed, loader, closer, calls>>

Reconnect(c) ==
    /\ caller[c].at = "connecting"
    /\ \/ /\ Len(sessions) < MaxSessions /\ sessions' = Opened
          /\ caller' = [caller EXCEPT ![c] = [@ EXCEPT !.at = "replacing",
                                                      !.fresh = Len(sessions) + 1]]
          /\ UNCHANGED inFlight
       \/ CallEnds(c) /\ UNCHANGED sessions
    /\ UNCHANGED <<server, closed, loader, closer, calls>>

(* A fresh session that is not needed is closed after the lock is given back, *)
(* when nobody else knows it.                                                 *)
Replace(c) ==
    /\ caller[c].at = "replacing" /\ Unlocked
    /\ IF closed \/ server = 0
       THEN CloseSession(caller[c].fresh) /\ CallEnds(c) /\ UNCHANGED server
       ELSE /\ IF server = caller[c].conn
               THEN /\ server' = caller[c].fresh
                    /\ caller' = [caller EXCEPT ![c].at = "closing"] /\ UNCHANGED sessions
               ELSE CloseSession(caller[c].fresh) /\ With(c, server) /\ UNCHANGED server
            /\ UNCHANGED inFlight
    /\ UNCHANGED <<closed, loader, closer, calls>>

(* The stale session is closed after the lock is given back.                  *)
CloseStale(c) ==
    /\ caller[c].at = "closing" /\ CloseSession(caller[c].conn) /\ With(c, caller[c].fresh)
    /\ UNCHANGED <<server, closed, inFlight, loader, closer, calls>>

-----------------------------------------------------------------------------
(* Close: the flag, the wait, and everything else under the lock.             *)

BeginClose ==
    /\ ~closed /\ closed' = TRUE /\ closer' = "waiting"
    /\ UNCHANGED <<sessions, server, inFlight, caller, loader, calls>>

Waited ==
    /\ closer = "waiting" /\ inFlight = 0 /\ closer' = "locking"
    /\ UNCHANGED <<sessions, server, closed, inFlight, caller, loader, calls>>

CloseAll ==
    /\ closer = "locking" /\ Unlocked /\ closer' = "done"
    /\ server' = 0 /\ IF server = 0 THEN UNCHANGED sessions ELSE CloseSession(server)
    /\ UNCHANGED <<closed, inFlight, caller, loader, calls>>

Close == BeginClose \/ Waited \/ CloseAll

CallTool(c) ==
    \/ BeginCall(c) \/ CheckAgain(c) \/ CountCall(c) \/ Answered(c) \/ SessionMissing(c)
    \/ LookAgain(c) \/ Reconnect(c) \/ Replace(c) \/ CloseStale(c)

MCPNext == Lose \/ Connect \/ PutServer \/ Close \/ \E c \in Callers : CallTool(c)

MCPSpec == MCPInit /\ [][MCPNext]_mcpVars

-----------------------------------------------------------------------------
(* A session that is not closed is in the table of servers or somebody's who  *)
(* puts it there or closes it; none is in the table after Close.  However     *)
(* replacements and Close fall, no session is left behind.                    *)
SessionsAreHeld ==
    /\ \A s \in DOMAIN sessions :
          \/ sessions[s].closed \/ s = server \/ s = loader.fresh
          \/ \E c \in Callers : \/ s = caller[c].fresh
                                \/ s = caller[c].conn /\ caller[c].at = "closing"
    /\ closer = "done" => server = 0

(* A session is closed under a call only when the server had forgotten it, or *)
(* the call was counted after Close had stopped waiting: replacing a session  *)
(* never takes a good one away from somebody.                                 *)
ClosedUnderNobody ==
    \A c \in Callers : caller[c].at = "calling" /\ sessions[caller[c].conn].closed
                           => sessions[caller[c].conn].lost \/ caller[c].late

(* However many calls find a session lost, it is replaced once: no two        *)
(* sessions the server knows are open.                                        *)
Good(s) == ~sessions[s].lost /\ ~sessions[s].closed
ReplacedOnce == \A s, t \in DOMAIN sessions : Good(s) /\ Good(t) => s = t

ToolSessionsAreKept == SessionsAreHeld /\ ClosedUnderNobody /\ ReplacedOnce

(* Close closes no session under a call (manager.go: "Wait for all in-flight   *)
(* CallTool calls to finish before closing sessions").                        *)
CallsFinishFirst == \A c \in Callers : caller[c].late => ~sessions[caller[c].conn].closed
=============================================================================
