------------------------------- MODULE Launcher -------------------------------
(* The web backend as launcher of the gateway process: the handlers that     *)
(* start, stop, restart and report, the goroutines that wait for a process   *)
(* and probe it, and the processes themselves with the port they bind and    *)
(* the PID file they share.  gateway.mu guards the launcher's variables, but  *)
(* no handler holds it from its look at the PID file to its act, nor while a  *)
(* restart waits.  PIDs are not used twice; all processes use one port; a     *)
(* reader that finds the file of a dead process removes it in the same step.  *)
(* A child that has ended is there until cmd.Wait has returned for it.        *)
EXTENDS Integers, FiniteSets

CONSTANTS
    Clients,     \* requests handled at the same time
    MaxProcs,    \* bound: gateway processes
    MaxRequests  \* bound: requests

LauncherAssumption ==
    /\ IsFiniteSet(Clients) /\ {MaxProcs, MaxRequests} \subseteq Nat /\ MaxProcs > 0

VARIABLES
    proc,         \* how far each process is
    told,         \* processes sent a SIGTERM
    pidfile,      \* the PID in picoclaw.pid.json, 0: no file
    cmd,          \* gateway.cmd: the process tracked and the handle's number
    owned,        \* gateway.owned
    status,       \* gateway.runtimeStatus
    waiting,      \* processes with a goroutine in cmd.Wait
    probing,      \* processes with a goroutine that looks for their PID file
    request,      \* what each client's handler does
    on,           \* the launcher runs
    requestsLeft, \* requests left
    attached,     \* the number of handles made by attaching
    loose         \* history: children alive when a handler attached or started a process

launchVars == <<proc, told, pidfile, cmd, owned, status, waiting, probing, request, on,
                requestsLeft, attached, loose>>

Pids == 1 .. MaxProcs
External == MaxProcs   \* a gateway started at a terminal before the launcher

(* An *exec.Cmd.  The launcher's own children have number 0.                 *)
Handle == [pid: 0 .. MaxProcs, number: 0 .. MaxRequests]
NoCmd == [pid |-> 0, number |-> 0]
Own(p) == [pid |-> p, number |-> 0]
Idle == [do |-> "none", at |-> "idle", pid |-> 0, prev |-> NoCmd]

LauncherTypeOK ==
    /\ proc \in [Pids -> {"none", "spawned", "bound", "up", "closing", "dead",
                       "reaped"}]
    /\ {told, waiting, probing, loose} \subseteq SUBSET Pids
    /\ pidfile \in 0 .. MaxProcs /\ cmd \in Handle /\ {owned, on} \subseteq BOOLEAN
    /\ status \in {"stopped", "starting", "restarting", "running", "error"}
    /\ request \in [Clients -> [do: {"none", "start", "autostart", "stop", "restart", "status"},
                                at: {"idle", "read", "act", "mark", "end", "wait", "refuse",
                                     "fail", "spawn"},
                                pid: 0 .. MaxProcs, prev: Handle]]
    /\ requestsLeft \in 0 .. MaxRequests /\ attached \in 0 .. MaxRequests

LauncherInit ==
    /\ \E external \in BOOLEAN :
          /\ proc = [p \in Pids |-> IF external /\ p = External THEN "up" ELSE "none"]
          /\ pidfile = IF external THEN External ELSE 0
    /\ told = {} /\ cmd = NoCmd /\ owned = FALSE /\ status = "stopped"
    /\ waiting = {} /\ probing = {} /\ loose = {}
    /\ request = [c \in Clients |-> Idle]
    /\ on = TRUE /\ requestsLeft = MaxRequests /\ attached = 0

-----------------------------------------------------------------------------
(* A gateway process.                                                        *)

Alive(p) == p # 0 /\ proc[p] \in {"spawned", "bound", "up", "closing"}
Children == {p \in Pids : proc[p] # "none"} \ {External}
Live == {p \in Children : Alive(p)}

(* What kill(p, 0) finds: a child that has ended is found until it is reaped. *)
Exists(p) == Alive(p) \/ (p \in waiting /\ proc[p] = "dead")

ProcessOnly == UNCHANGED <<cmd, owned, status, waiting, probing, request, on, requestsLeft,
                           attached, loose>>

(* openGatewayListeners.                                                     *)
Bind(p) ==
    /\ proc[p] = "spawned"
    /\ proc' = [proc EXCEPT ![p] =
                  IF \E q \in Pids : proc[q] \in {"bound", "up"} THEN "dead" ELSE "bound"]
    /\ ProcessOnly /\ UNCHANGED <<told, pidfile>>

(* WritePidFile: the file of a process that exists is respected.             *)
WritePid(p) ==
    /\ proc[p] = "bound"
    /\ IF pidfile # p /\ Exists(pidfile)
       THEN proc' = [proc EXCEPT ![p] = "dead"] /\ UNCHANGED pidfile
       ELSE proc' = [proc EXCEPT ![p] = "up"] /\ pidfile' = p
    /\ ProcessOnly /\ UNCHANGED told

(* A signal ends a process at once before it listens to signals; afterwards  *)
(* it shuts down, which frees the port first.                                *)
Terminate(p) ==
    /\ p \in told /\ proc[p] \in {"spawned", "bound", "up"}
    /\ \/ proc' = [proc EXCEPT ![p] = "dead"]
       \/ proc[p] = "up" /\ proc' = [proc EXCEPT ![p] = "closing"]
    /\ ProcessOnly /\ UNCHANGED <<told, pidfile>>

(* The end of a shutdown: RemovePidFile spares a file with another's PID.    *)
Exit(p) ==
    /\ proc[p] = "closing" /\ proc' = [proc EXCEPT ![p] = "dead"]
    /\ pidfile' = IF pidfile = p THEN 0 ELSE pidfile
    /\ ProcessOnly /\ UNCHANGED told

(* A startup that fails removes the file, a crash leaves it.                 *)
Die(p) ==
    /\ Alive(p) /\ proc' = [proc EXCEPT ![p] = "dead"]
    /\ pidfile' = pidfile \/ (pidfile = p /\ pidfile' = 0)
    /\ ProcessOnly /\ UNCHANGED told

-----------------------------------------------------------------------------
(* Under gateway.mu.                                                         *)

(* ReadPidFileWithCheck and sanitizeGatewayPidData: ps shows that a process   *)
(* that has ended is no gateway.                                             *)
Found == IF Alive(pidfile) THEN pidfile ELSE 0
CleanPidFile == pidfile' = Found

(* Every child that is alive now may be one the launcher forgets.             *)
Loosen == loose' = loose \cup Live

(* attachToGatewayProcessLocked.                                             *)
Attach(p) ==
    /\ cmd' = [pid |-> p, number |-> attached + 1] /\ attached' = attached + 1
    /\ owned' = FALSE /\ status' = "running" /\ Loosen

(* startGatewayLocked for a new process.                                     *)
Spawn(initial) ==
    \E p \in Pids \ {External} :
        /\ proc[p] = "none" /\ \A q \in 1 .. p - 1 : proc[q] # "none"
        /\ proc' = [proc EXCEPT ![p] = "spawned"]
        /\ cmd' = Own(p) /\ owned' = TRUE /\ status' = initial /\ Loosen
        /\ waiting' = waiting \cup {p} /\ probing' = probing \cup {p}

(* The process of a handle is a gateway, which only one attached to must be.  *)
IsGateway(handle) == handle.number = 0 \/ Alive(handle.pid) \/ ~Exists(handle.pid)

(* stopGatewayLocked: an error when the process is gone changes nothing.     *)
StopLocked ==
    IF Exists(cmd.pid) /\ IsGateway(cmd)
    THEN /\ told' = told \cup {cmd.pid}
         /\ cmd' = NoCmd /\ owned' = FALSE /\ status' = "stopped"
    ELSE UNCHANGED <<told, cmd, owned, status>>

NoSpawn == UNCHANGED <<proc, waiting, probing>>
Answer(c) == request' = [request EXCEPT ![c] = Idle]
RequestAt(c, do, at) == on /\ request[c].do = do /\ request[c].at = at
StepTo(c, at) == request' = [request EXCEPT ![c].at = at]

-----------------------------------------------------------------------------
(* The handlers.                                                             *)

(* The launcher starts a gateway by itself once, before it serves requests;   *)
(* the steps of this start come when they come.                              *)
Ask(c, do) ==
    /\ do = "autostart" => requestsLeft = MaxRequests
    /\ on /\ request[c] = Idle /\ requestsLeft > 0 /\ requestsLeft' = requestsLeft - 1
    /\ request' = [request EXCEPT ![c].do = do, ![c].at =
          CASE do \in {"start", "autostart", "status"} -> "read"
            [] do = "stop" -> "act"
            [] do = "restart" -> "mark"]
    /\ NoSpawn
    /\ UNCHANGED <<told, pidfile, cmd, owned, status, on, attached, loose>>

(* TryAutoStartGateway, handleGatewayStart and gatewayStatusData look at the  *)
(* PID file.                                                                 *)
Read(c) ==
    /\ on /\ request[c].at = "read"
    /\ request' = [request EXCEPT ![c].at = "act", ![c].pid = Found] /\ CleanPidFile
    /\ NoSpawn /\ UNCHANGED <<told, cmd, owned, status, on, requestsLeft, attached, loose>>

(* handleGatewayStart and TryAutoStartGateway: attach to the process found,   *)
(* whoever started it; when there is none forget the process tracked, and     *)
(* only then look whether the configuration allows a start.                   *)
Start(c) ==
    LET p == request[c].pid
    IN  /\ \E do \in {"start", "autostart"} : RequestAt(c, do, "act")
        /\ Answer(c)
        /\ \/ p # 0 /\ Attach(p) /\ NoSpawn
           \/ p # 0 /\ NoSpawn /\ UNCHANGED <<cmd, owned, status, attached, loose>>
           \/ p = 0 /\ Spawn("starting") /\ UNCHANGED attached
           \/ /\ p = 0 /\ cmd' = NoCmd /\ Loosen /\ NoSpawn /\ UNCHANGED <<owned, attached>>
              /\ status' = IF cmd = NoCmd \/ request[c].do = "autostart"
                           THEN status ELSE "stopped"
        /\ UNCHANGED <<told, pidfile, on, requestsLeft>>

Stop(c) ==
    /\ RequestAt(c, "stop", "act") /\ StopLocked /\ Answer(c) /\ NoSpawn
    /\ UNCHANGED <<pidfile, on, requestsLeft, attached, loose>>

(* gatewayStatusData: attach to the process found unless it is tracked; when *)
(* there is none forget a process that was running and has ended.  That a     *)
(* start has taken too long only changes the answer.                          *)
Status(c) ==
    LET p == request[c].pid
    IN  /\ RequestAt(c, "status", "act") /\ Answer(c) /\ NoSpawn
        /\ \/ p \notin {0, cmd.pid} /\ Attach(p)
           \/ /\ p # 0 /\ p = cmd.pid /\ status' = "running"
              /\ UNCHANGED <<cmd, owned, attached, loose>>
           \/ /\ p = 0 /\ status = "running" /\ ~Exists(cmd.pid)
              /\ cmd' = NoCmd /\ owned' = FALSE /\ UNCHANGED <<status, attached, loose>>
           \/ /\ p = 0 /\ (status = "running" => Exists(cmd.pid))
              /\ UNCHANGED <<cmd, owned, status, attached, loose>>
        /\ UNCHANGED <<told, pidfile, on, requestsLeft>>

(* RestartGateway: remember the process tracked ...                          *)
RestartMark(c) ==
    /\ RequestAt(c, "restart", "mark") /\ status' = "restarting"
    /\ request' = [request EXCEPT ![c].at = "end", ![c].prev = cmd]
    /\ NoSpawn /\ UNCHANGED <<told, pidfile, cmd, owned, on, requestsLeft, attached, loose>>

(* ... stop it without the lock, when it is a gateway ...                     *)
RestartEnd(c) ==
    LET prev == request[c].prev
        p == prev.pid
    IN  /\ RequestAt(c, "restart", "end")
        /\ \/ ~IsGateway(prev) /\ StepTo(c, "refuse") /\ UNCHANGED told
           \/ IsGateway(prev) /\ Exists(p) /\ StepTo(c, "wait") /\ told' = told \cup {p}
           \/ ~Exists(p) /\ StepTo(c, "spawn") /\ UNCHANGED told
        /\ NoSpawn
        /\ UNCHANGED <<pidfile, cmd, owned, status, on, requestsLeft, attached, loose>>

(* ... by force when it takes too long, until it is gone ...                  *)
RestartKill(c) ==
    LET p == request[c].prev.pid
    IN  /\ RequestAt(c, "restart", "wait") /\ Alive(p)
        /\ proc' = [proc EXCEPT ![p] = "dead"]
        /\ UNCHANGED <<told, pidfile, cmd, owned, status, waiting, probing, request, on,
                       requestsLeft, attached, loose>>

RestartWait(c) ==
    /\ RequestAt(c, "restart", "wait") /\ ~Exists(request[c].prev.pid) /\ StepTo(c, "spawn")
    /\ NoSpawn
    /\ UNCHANGED <<told, pidfile, cmd, owned, status, on, requestsLeft, attached, loose>>

(* A process that is no gateway is kept.                                      *)
RestartRefused(c) ==
    /\ RequestAt(c, "restart", "refuse") /\ Answer(c)
    /\ status' = IF cmd = request[c].prev THEN "running" ELSE status
    /\ NoSpawn
    /\ UNCHANGED <<told, pidfile, cmd, owned, on, requestsLeft, attached, loose>>

(* The process cannot be signalled, or survives: give up, unless it is gone   *)
(* by then.                                                                  *)
RestartGivesUp(c) ==
    /\ \E at \in {"end", "wait"} : RequestAt(c, "restart", at)
    /\ Exists(request[c].prev.pid) /\ StepTo(c, "fail")
    /\ NoSpawn
    /\ UNCHANGED <<told, pidfile, cmd, owned, status, on, requestsLeft, attached, loose>>

RestartFails(c) ==
    /\ RequestAt(c, "restart", "fail") /\ Answer(c)
    /\ \/ cmd # request[c].prev /\ UNCHANGED <<cmd, status>>
       \/ cmd = request[c].prev /\ Exists(cmd.pid) /\ status' = "running" /\ UNCHANGED cmd
       \/ cmd = request[c].prev /\ ~Exists(cmd.pid) /\ cmd' = NoCmd /\ status' = "error"
    /\ NoSpawn /\ UNCHANGED <<told, pidfile, owned, on, requestsLeft, attached, loose>>

(* ... and start the next.                                                   *)
RestartSpawn(c) ==
    /\ RequestAt(c, "restart", "spawn") /\ Answer(c)
    /\ \/ Spawn("restarting")
       \/ cmd' = NoCmd /\ status' = "error" /\ Loosen /\ NoSpawn /\ UNCHANGED owned
    /\ UNCHANGED <<told, pidfile, on, requestsLeft, attached>>

(* Shutdown: StopGateway and the end of the launcher.                        *)
Shutdown ==
    /\ on /\ on' = FALSE
    /\ IF owned THEN StopLocked ELSE UNCHANGED <<told, cmd, owned, status>>
    /\ request' = [c \in Clients |-> Idle] /\ requestsLeft' = 0
    /\ waiting' = {} /\ probing' = {}
    /\ UNCHANGED <<proc, pidfile, attached, loose>>

-----------------------------------------------------------------------------
(* The goroutines of startGatewayLocked.                                     *)

GoroutineOnly == UNCHANGED <<proc, told, request, on, requestsLeft, attached, loose>>

(* cmd.Wait takes the child that has ended off the process table.             *)
Reap(p) ==
    /\ on /\ p \in waiting /\ proc[p] = "dead"
    /\ proc' = [proc EXCEPT ![p] = "reaped"]
    /\ ProcessOnly /\ UNCHANGED <<told, pidfile>>

WaitReturnedForAny(p) ==
    /\ on /\ p \in waiting /\ proc[p] = "reaped" /\ waiting' = waiting \ {p}
    /\ cmd' = NoCmd
    /\ status' = IF status # "restarting" THEN "stopped" ELSE status
    /\ GoroutineOnly /\ UNCHANGED <<pidfile, owned, probing>>

(* cmd.Wait returned; what is tracked may be another process meanwhile.      *)
WaitReturned(p) ==
    /\ on /\ p \in waiting /\ proc[p] = "reaped" /\ waiting' = waiting \ {p}
    /\ IF cmd = Own(p)
       THEN /\ cmd' = NoCmd
            /\ status' = IF status # "restarting" THEN "stopped" ELSE status
       ELSE UNCHANGED <<cmd, status>>
    /\ GoroutineOnly /\ UNCHANGED <<pidfile, owned, probing>>

(* One poll: the PID file, else the health of whoever holds the port.  Here   *)
(* the file of a process that exists counts.                                 *)
Probe(p) ==
    /\ on /\ p \in probing
    /\ \/ cmd # Own(p) /\ probing' = probing \ {p} /\ UNCHANGED <<status, pidfile>>
       \/ /\ cmd = Own(p) /\ pidfile' = IF Exists(pidfile) THEN pidfile ELSE 0
          /\ \/ pidfile' = p /\ status' = "running" /\ probing' = probing \ {p}
             \/ /\ pidfile' # p /\ UNCHANGED probing
                /\ \E q \in Pids : proc[q] = "up"
                /\ status' = "running"
             \/ pidfile' # p /\ UNCHANGED <<status, probing>>
    /\ GoroutineOnly /\ UNCHANGED <<cmd, owned, waiting>>

(* After the last of its polls.                                              *)
ProbeEnds(p) ==
    /\ on /\ p \in probing /\ probing' = probing \ {p}
    /\ GoroutineOnly /\ UNCHANGED <<pidfile, cmd, owned, status, waiting>>

-----------------------------------------------------------------------------
LauncherNext ==
    \/ \E p \in Pids : \/ Bind(p) \/ WritePid(p) \/ Terminate(p) \/ Exit(p) \/ Die(p)
                       \/ Reap(p) \/ WaitReturned(p) \/ Probe(p) \/ ProbeEnds(p)
    \/ \E c \in Clients :
          \/ \E do \in {"start", "autostart", "stop", "restart", "status"} : Ask(c, do)
          \/ Read(c) \/ Start(c) \/ Stop(c) \/ Status(c)
          \/ RestartMark(c) \/ RestartEnd(c) \/ RestartKill(c) \/ RestartWait(c)
          \/ RestartGivesUp(c) \/ RestartRefused(c) \/ RestartFails(c) \/ RestartSpawn(c)
    \/ Shutdown

LauncherSpec == LauncherInit /\ [][LauncherNext]_launchVars

-----------------------------------------------------------------------------
(* Properties.                                                               *)

(* A live process the launcher tracks is never shown as stopped: goroutines  *)
(* and restarts that come late, about a process that was replaced, leave the  *)
(* status of its successor alone (each compares gateway.cmd with its own).    *)
TrackedIsNotStopped ==
    on /\ Alive(cmd.pid) => status \in {"starting", "restarting", "running"}

(* Shutdown stops the gateway "if it was started by this handler"            *)
(* (router.go:123): a child that lives on has been told to stop, unless a     *)
(* start or the end of a restart came while it ran - a second start attaches  *)
(* to the launcher's own child as if it were not, or starts another beside a   *)
(* child that has not written its PID file yet.                               *)
ChildrenAreStopped == ~on => Live \subseteq told \cup loose

(* What the launcher keeps track of.                                         *)
LauncherKeepsTrack == TrackedIsNotStopped /\ ChildrenAreStopped
=============================================================================
